SPECIFICATION FairSpec
CONSTANTS
  Endpoints = {ep1, ep2}
  None = None
  Callers = {}
  MaxClients = 2
  HasHandler = TRUE
  Duplicates = TRUE
  MaxConns = 2
  MaxQueue = 2
  MaxStarts = 2
CHECK_DEADLOCK FALSE
INVARIANTS
  IdPartition
  NewOnce
  OneEntryPerEndpoint
PROPERTIES
  AttemptsAreDecided
