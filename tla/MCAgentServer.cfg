SPECIFICATION Spec
CONSTANTS
  Unset = Unset
  inspect = inspect
  again = again
  evaluation_run = evaluation_run
  preflight = preflight
  verify = verify
  Calls <- MCInspections
  Kind <- MCInspectionsKind
  Steps = 0
  Loads = 2
  MaxEdits = 1
SYMMETRY MCSymmetry
INVARIANTS
  ImportsAreIsolated
CHECK_DEADLOCK FALSE
