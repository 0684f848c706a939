SPECIFICATION Spec
CONSTANTS
  database = database  schema = schema  disk = disk
  r1 = r1  r2 = r2  c1 = c1  c2 = c2  alice = alice  bob = bob
  search = search  delete = delete
  loose = loose  strict = strict  other = other  broken = broken
  Uncapped = Uncapped  Nobody = Nobody  Invalid = Invalid
  Probes = {database, schema}
  DeclaredTimeout <- MCTimeouts
  TimeoutCap = 2
  LastTick = 4
  Requests = {r1, r2}
  AsyncChecks = {database}
  SyncChecks = {disk}
  PoolSize = 1
  Callers = {c1, c2}
  Credentials <- MCCredentials
  Principals = {alice, bob}
  Tools = {search, delete}
  Destructive = {delete}
  Arguments = {loose, other, broken}
  Normal <- MCNormal
  MaxChanges = 1
  Second = 2
  None = None
  Identities = {i1}
  Rules <- MCRules
  Costs = {1, 2}
  Stores = {"memory", "sqlite"}
  SetBacks = {1, 4}
  Horizon = 5
  RetryPolicies <- MCRetryPolicies
  Waits <- MCWaits
  ObserverTime = 1
  Patience = 1
  Cancels = 2
  Nothing = Nothing
INVARIANTS
  GateIsProven
  HealthIsHonest
  ToolCallsAreSound
  BurstsAreBounded
  RetryAfterIsExact
  HonoursRetryAfter
  BudgetKept
  EndsAreTold
PROPERTY
  HealthAnswers
CHECK_DEADLOCK FALSE
