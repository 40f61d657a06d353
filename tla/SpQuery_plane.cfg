CONSTANTS
  Dims = 2
  CoordBits = 3
  WordBits = 6
  NibbleBits = 1
  NBase = 64
  FewDigits = 1
  MaxEntries = 2
  Points <- MCSquare4
  Extents <- MCExtentsLow
SPECIFICATION FairSpec
INVARIANTS
  TypeOK
  NoRunaway
  QueueOrdered
  RowsAscend
  Complete
  DecodedRowsExact
  XInv
  PrefixReturned
PROPERTIES
  ImplementsCoveringScan
  ImplementsExactScan
  CallReturns
CHECK_DEADLOCK FALSE
