CONSTANTS
  Entry <- MCEntry
  Key <- MCKey
  Blocks <- MCBlocks
  PageSize = 2
SPECIFICATION FairSpec
INVARIANTS
  TypeOK
  NothingSkipped
  ExactWalk
  PeekTrue
  ScanInv
PROPERTIES
  FetchReturns
