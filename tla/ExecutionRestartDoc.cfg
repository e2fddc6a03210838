SPECIFICATION Spec
CONSTANTS
  r1 = r1
  r2 = r2
  c1 = c1
  c2 = c2
  a1 = a1
  a2 = a2
  Requests = {r1}
  Clients = {c1}
  ClientOf <- OneClient
  Approvals = {a1, a2}
  NoApproval = NoApproval
  MaxActive = 1
  MaxReserved = 1
  MaxStaged = 1
  MaxApprovals = 2
  MaxFaults = 1
  MaxCrashes = 1
CHECK_DEADLOCK FALSE
PROPERTIES
  InterruptedRecoversUnknown
