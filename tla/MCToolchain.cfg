SPECIFICATION ToolchainSpec
CONSTANTS
  Documents <- MCDocuments
  Values <- MCValues
  Schemas <- MCSchemas
  Registries <- MCRegistries
  Height <- MCHeight
  RecursionLimit = 6
  Results <- MCResults
  Raisable <- MCRaisable
  AnyCode = AnyCode
  NoLimit = NoLimit
  None = None
  Generators = {g1, g2}
  Commands <- MCCommands
  Absent = Absent
  StrayPaths <- MCStrayPaths
  Features <- MCFeatures
  ValidNames <- MCValidNames
  MaxFaults = 1
  MaxStrays = 1
SYMMETRY GeneratorSymmetry
INVARIANTS
  OldCallsAreServed
  NewAnswersAreUnderstood
  PromisesAreKept
  AllOrNothing
  PlanFollowsFiles
PROPERTIES
  OthersArePreserved
CHECK_DEADLOCK FALSE
