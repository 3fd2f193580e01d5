SPECIFICATION Spec
CONSTANTS
  Endpoints = {ep1, ep2}
  None = None
  Callers = {app}
  MaxClients = 2
  HasHandler = FALSE
  Duplicates = TRUE
  MaxConns = 2
  MaxQueue = 2
  MaxStarts = 2
SYMMETRY Symmetry
CHECK_DEADLOCK FALSE
INVARIANTS
  TypeOK
  IdPartition
  IdsMatch
  EventsInOrder
