SPECIFICATION LiveSpec
CONSTANTS
  None = None
  Suites <- MCSuites
  Measurements <- MCMeasurements
  concurrency = 2
  MAX_EVALUATION_TOKENS = 4
INVARIANTS
  ReportsAreHonest
  LifespanSurroundsCases
PROPERTIES
  RunEnds
CHECK_DEADLOCK FALSE
