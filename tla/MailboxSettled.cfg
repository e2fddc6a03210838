SPECIFICATION Spec
CONSTANTS
  WorkerCount = 2
  None = None
  MaxMails = 1
  MaxSignals = 2
  MaxFailures = 1
  MaxDisruptions = 1
INVARIANTS
  SettledWasQueried
CHECK_DEADLOCK FALSE
