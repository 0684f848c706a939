SPECIFICATION Spec
CONSTANTS
  c1 = c1
  c2 = c2
  c3 = c3
  k1 = k1
  f1 = f1
  f2 = f2
  None = None
  Calls <- MCCalls
  Keys <- MCKeys
  Fingerprints <- MCFingerprints
  Times <- MCTimes
  Coarse <- MCCoarse
  TicksPerSecond = 2
  ReservationTTL = 3
  CompletedTTLs <- MCCompletedTTLs
SYMMETRY CallsAndInputs
INVARIANTS
  OneLiveRun
PROPERTIES
  ImplementsPromise
