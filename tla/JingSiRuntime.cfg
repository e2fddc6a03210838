SPECIFICATION FairSpec
CONSTANTS
  k1 = k1
  k2 = k2
  Keys = {k1, k2}
  MaxConcurrent = 1
  MaxQueued = 1
  MaxFaults = 1
  MaxCrashes = 1
INVARIANTS
  Accounting
  WorkIsBound
  FenceHolds
  CancelHonoured
PROPERTIES
  Settles
