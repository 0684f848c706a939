SPECIFICATION LiveSpec
CONSTANTS
  Unset = Unset
  inspect = inspect
  again = again
  evaluation_run = evaluation_run
  preflight = preflight
  verify = verify
  Calls <- MCEach
  Kind <- MCEachKind
  Steps = 1
  Loads = 1
  MaxEdits = 0
INVARIANTS
  OneAtATime
  NoCommandSurvives
PROPERTIES
  EveryCallEnds
CHECK_DEADLOCK FALSE
