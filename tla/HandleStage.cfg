SPECIFICATION FairSpec
CONSTANTS
  f1 = f1
  f2 = f2
  m1 = m1
  m2 = m2
  d1 = d1
  Files = {f1, f2}
  Readers = {m1, m2, d1}
  Direct = {d1}
  Size <- OneAndTwo
  Room = 2
  Limit = 2
  NoReader = NoReader
  MaxReads = 3
  MaxFaults = 1
CHECK_DEADLOCK FALSE
INVARIANTS
  ReservationsExact
  FilesSound
PROPERTIES
  ReadsEnd
