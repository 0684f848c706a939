SPECIFICATION Spec
CONSTANTS
  k1 = k1
  k2 = k2
  None = None
  Second = 1
  Ops <- MCOps
  Sends <- MCSends
  Rule <- MCRule
  LeaseTTL = 1
  Horizon = 2
INVARIANTS
  QuotaIsForWorkDone
PROPERTIES
  SavesCompose
  ImplementsDurableResult
CHECK_DEADLOCK FALSE
