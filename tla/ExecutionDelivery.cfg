SPECIFICATION ClientFairSpec
CONSTANTS
  r1 = r1
  r2 = r2
  c1 = c1
  Requests = {r1}
  Clients = {c1}
  ClientOf <- OneClient
  Approvals = {}
  NoApproval = NoApproval
  MaxActive = 1
  MaxReserved = 1
  MaxStaged = 0
  MaxApprovals = 0
  MaxFaults = 0
  MaxCrashes = 1
  WithFiles = {r1}
CHECK_DEADLOCK FALSE
PROPERTIES
  ResultsArrive
  SavedIsAcknowledged
