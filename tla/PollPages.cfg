SPECIFICATION FairSpec
CONSTANTS
  MaxBlocks = 4
  MaxHeight = 3
  MaxTxs = 2
  MaxReorgs = 0
  MaxDepth = 0
  MaxGaps = 2
  TxLists <- MCTxLists
  Limits = {0, 2, 5}
  LimitMax = 4
  MaxLost = 1
INVARIANTS TypeOK PageIsFresh PageNoLoss
PROPERTIES PagesReachAll PagesAreReplica
CHECK_DEADLOCK FALSE
