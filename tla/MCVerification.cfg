SPECIFICATION Spec
CONSTANTS
  None = None
  Trees <- MCTrees
  Committed <- MCCommitted
  Facts <- MCFacts
  Baselines <- MCBaselines
  Plans <- MCPlans
  Commands <- MCCommands
  MaxEdits = 2
INVARIANTS
  ReceiptIsOfOneTree
  RequiredEvidencePassed
  PlannedTestReallyRan
CHECK_DEADLOCK FALSE
