SPECIFICATION FairSpec
CONSTANTS
  WorkerCount = 2
  None = None
  MaxMails = 1
  MaxSignals = 2
  MaxFailures = 1
  MaxDisruptions = 1
INVARIANTS
  NothingLost
  RefreshShown
PROPERTIES
  EverySignalSettles
CHECK_DEADLOCK FALSE
