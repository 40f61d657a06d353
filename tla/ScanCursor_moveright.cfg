CONSTANTS
  Entry <- MCEntry
  Key <- MCOwnKey
  Blocks <- MCBlocks
  PageSize = 2
SPECIFICATION Spec
INVARIANTS
  StartRespected
