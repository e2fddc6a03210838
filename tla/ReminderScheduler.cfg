SPECIFICATION FairSpec
CONSTANTS
  s1 = s1
  w1 = w1
  Service = {s1}
  Workbench = {w1}
  Recurring = {w1}
  Batch = 2
  Places = 1
  Workers = 2
  MaxGap = 1
  MaxAttempts = 2
  MaxTime = 2
  Edits <- WorkbenchEdits
  MaxFaults = 1
  MaxCrashes = 1
INVARIANTS
  NoReplay
PROPERTIES
  SubmittedWasOnline
  LedgerKept
  ClaimsEnd
CHECK_DEADLOCK FALSE
