SPECIFICATION Spec
CONSTANTS
  Items <- MCItems
  MessageIDs = {5, 300}
  MaxBits = 104
  MaxItems = 3
  MaxReplaced = 1
CHECK_DEADLOCK FALSE
INVARIANTS
  TypeOK
  ReadsWhatWasPut
  HeadersArrive
  CapacityHeld
