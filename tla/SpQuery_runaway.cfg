CONSTANTS
  Dims = 2
  CoordBits = 3
  WordBits = 6
  NibbleBits = 1
  NBase = 64
  FewDigits = 1
  MaxEntries = 2
  Points <- MCSigned
  Extents <- MCExtentsAll
SPECIFICATION Spec
INVARIANTS
  NoRunaway
CHECK_DEADLOCK FALSE
