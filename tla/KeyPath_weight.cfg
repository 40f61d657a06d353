CONSTANTS
  Dims = 3
  CoordBits = 4
  WordBits = 10
  NibbleBits = 1
  NBase = 10
  FewDigits = 3
  Rows = {r1}
  Coords <- MCAll
SPECIFICATION Spec
INVARIANTS
  RoundTrip
CHECK_DEADLOCK FALSE
