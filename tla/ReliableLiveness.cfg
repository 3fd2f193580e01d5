SPECIFICATION LosslessSpec
CONSTANTS
  a = a
  b = b
  Ends <- MCEnds
  LastId <- MCLastId
  LastA = 3
  LastB = 2
  IdSpace = 65536
  InitCapacity = 128
  AckBits = 16
  MaxQueue = 1
CHECK_DEADLOCK FALSE
PROPERTIES
  EventuallyHandled
