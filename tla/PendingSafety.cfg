SPECIFICATION Spec
CONSTANTS
  Conns = {c1, c2}
  Objects = {o1, o2, o3}
  PoolSize = 2
  MaxAttempts = 3
  ResendDelay = 1
  MinInterval = 1
  MaxTime = 2
  LastId = 3
SYMMETRY Symmetry
CHECK_DEADLOCK FALSE
INVARIANTS
  TypeOK
  ExclusiveUntilExhausted
  OldMessagesRest
PROPERTIES
  NeverSentAfterCleared
