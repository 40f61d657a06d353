CONSTANTS
  Dims = 3
  CoordBits = 4
  WordBits = 8
  NibbleBits = 1
  NBase = 64
  FewDigits = 2
  MaxEntries = 2
  Points <- MCCube
  Extents <- MCExtentsProper
SPECIFICATION Spec
INVARIANTS
  NoRunaway
  IInv
  Complete
  DecodedRowsExact
CHECK_DEADLOCK FALSE
