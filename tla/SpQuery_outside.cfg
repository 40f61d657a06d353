CONSTANTS
  Dims = 2
  CoordBits = 3
  WordBits = 6
  NibbleBits = 1
  NBase = 64
  FewDigits = 1
  MaxEntries = 2
  Points <- MCSquare4
  Extents <- MCExtentsAll
SPECIFICATION Spec
INVARIANTS
  RowsInExtent
CHECK_DEADLOCK FALSE
