SPECIFICATION Spec
CONSTANTS
  MaxBlocks = 4
  MaxHeight = 3
  MaxTxs = 2
  MaxReorgs = 0
  MaxDepth = 0
  MaxGaps = 1
  TxLists <- MCOneTx
  BatchSize = 4
  ChannelCap = 2
  MaxDrops = 0
INVARIANTS NoLoss
CHECK_DEADLOCK FALSE
