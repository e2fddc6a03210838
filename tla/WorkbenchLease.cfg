SPECIFICATION Spec
CONSTANTS
  r1 = r1
  r2 = r2
  r3 = r3
  Requests = {r1, r2, r3}
  MaxActive = 2
  MaxFaults = 2
  MaxCrashes = 2
SYMMETRY Interchangeable
INVARIANTS
  NoReplay
  StopsLast
  OneSuccessor
PROPERTIES
  TurnsKept
CHECK_DEADLOCK FALSE
