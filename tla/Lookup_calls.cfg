CONSTANTS
  Tids <- MCTids
  Solid <- MCSolid
  Answers <- MCAnswers
  MaxRows = 7
  MaxSortStack = 4
  RunSize <- MCRunSize
  Pages = 2
SPECIFICATION FairSpec
INVARIANTS
  StackFits
  NoneLost
  PageUnderRelation
  NothingHeld
  RowsKeepCoords
  SInv
PROPERTIES
  ImplementsScan
  WriterProceeds
  LookupReturns
CHECK_DEADLOCK FALSE
