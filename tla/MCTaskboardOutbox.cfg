SPECIFICATION FairSpec
CONSTANTS
  r1 = r1
  r2 = r2
  r3 = r3
  w1 = w1
  w2 = w2
  ann = ann
  bob = bob
  None = None
  Requests <- MCRequests
  Workers <- MCWorkers
  Users <- MCUsers
  Target <- MCTarget
  Rejects <- MCRejects
  MaxFaults = 2
INVARIANTS
  NotifiedExactlyWhenDelivered
  SettledOldestFirst
PROPERTIES
  EveryMessageSettles
