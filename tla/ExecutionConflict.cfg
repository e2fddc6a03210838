SPECIFICATION ClientSpec
CONSTANTS
  r1 = r1
  r2 = r2
  c1 = c1
  Requests = {r1}
  Clients = {c1}
  ClientOf <- OneClient
  Approvals = {}
  NoApproval = NoApproval
  MaxActive = 1
  MaxReserved = 1
  MaxStaged = 0
  MaxApprovals = 0
  MaxFaults = 0
  MaxCrashes = 0
  WithFiles = {}
CHECK_DEADLOCK FALSE
INVARIANTS
  NoRevisionConflict
