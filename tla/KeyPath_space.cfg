CONSTANTS
  Dims = 3
  CoordBits = 4
  WordBits = 8
  NibbleBits = 1
  NBase = 10
  FewDigits = 3
  Rows = {r1, r2}
  Coords <- MCMixed
SYMMETRY MCSymmetry
SPECIFICATION Spec
INVARIANTS
  TypeOK
  RoundTrip
  KeysDistinct
  OrderKept
  Readable
CHECK_DEADLOCK FALSE
