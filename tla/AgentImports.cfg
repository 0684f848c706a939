SPECIFICATION Spec
CONSTANTS
  Unset = Unset
  inspect = inspect
  again = again
  evaluation_run = evaluation_run
  preflight = preflight
  verify = verify
  Calls <- MCOne
  Kind <- MCOneKind
  Steps = 0
  Loads = 2
  MaxEdits = 1
INVARIANTS
  FreshImports
CHECK_DEADLOCK FALSE
