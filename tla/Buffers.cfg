SPECIFICATION Spec
CONSTANTS
  MaxIov = 4
  MaxLen = 4
  SizeBits = 4
INVARIANTS
  BufTypeOK
  FreedExactlyOnce
  WritesInBounds
  ScatterKeepsData
CHECK_DEADLOCK FALSE
