SPECIFICATION Spec
CONSTANTS
  a = a
  b = b
  Ends <- MCEnds
  LastId <- MCLastId
  LastA = 5
  LastB = 3
  IdSpace = 65536
  InitCapacity = 128
  AckBits = 16
  MaxQueue = 2
CHECK_DEADLOCK FALSE
CONSTRAINT Explored
INVARIANTS
  TypeOK
  AtMostOnce
  AcksAreTruthful
  PendingAccounting
PROPERTIES
  ClearedForGood
  ImplementsPromise
