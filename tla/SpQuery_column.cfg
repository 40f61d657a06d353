CONSTANTS
  Dims = 3
  CoordBits = 4
  WordBits = 8
  NibbleBits = 1
  NBase = 64
  FewDigits = 2
  MaxEntries = 2
  Points <- MCColumn
  Extents <- MCExtentsAll
SPECIFICATION Spec
INVARIANTS
  Complete
CHECK_DEADLOCK FALSE
