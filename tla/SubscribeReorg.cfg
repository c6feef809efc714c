SPECIFICATION FairSpec
CONSTANTS
  MaxBlocks = 5
  MaxHeight = 3
  MaxTxs = 2
  MaxReorgs = 1
  MaxDepth = 1
  MaxGaps = 1
  TxLists <- MCOneTx
  BatchSize = 2
  ChannelCap = 2
  MaxDrops = 0
INVARIANTS TypeOK StreamLinked ReadyOnly ClientLinked
PROPERTIES ForkIsLeft
CHECK_DEADLOCK FALSE
