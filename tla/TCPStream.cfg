SPECIFICATION FairSpec
CONSTANTS
  Threads = {update, application}
  first = first
  second = second
  Connections = {first, second}
  Length <- MCLength
  Target <- MCTarget
  Connects = {1, 2}
  Capacity = 5
  SizeBytes = 2
  Misread = {0, 2}
  MaxEnded = 1
CHECK_DEADLOCK FALSE
INVARIANTS
  TypeOK
  Framed
  SpinsOnlyIfBroken
PROPERTY
  EverythingArrives
