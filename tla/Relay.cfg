SPECIFICATION FairSpec
CONSTANTS
  MaxClients = 3
  PoolSize = 2
  MaxReceived = 2
  MaxCreated = 1
  MaxRemoved = 1
  MaxAccepted = 1
CHECK_DEADLOCK FALSE
INVARIANTS
  TypeOK
  HandledAsReceived
  RelayReaches
PROPERTY
  QueueDrained
