SPECIFICATION Counting
CONSTANTS
  IdSpace = 8
  MaxCount = 19
INVARIANTS
  GapIsDistance
  GapIsAntisymmetric
CHECK_DEADLOCK FALSE
