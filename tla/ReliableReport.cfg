SPECIFICATION Spec
CONSTANTS
  a = a
  b = b
  Ends <- MCEnds
  LastId <- MCLastId
  LastA = 4
  LastB = 4
  IdSpace = 65536
  InitCapacity = 128
  AckBits = 16
  MaxQueue = 3
CHECK_DEADLOCK FALSE
INVARIANTS
  ReportedWasReceived
