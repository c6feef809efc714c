SPECIFICATION FairSpec
CONSTANTS
  MaxBlocks = 3
  MaxHeight = 2
  MaxTxs = 3
  MaxReorgs = 0
  MaxDepth = 0
  MaxGaps = 0
  TxLists <- MCTxLists
  BatchSize = 2
  ChannelCap = 2
  MaxDrops = 2
INVARIANTS FreshDelivery NoLoss
PROPERTIES ClientIsReplica EventuallyHeld HeartbeatWhenCaughtUp
CHECK_DEADLOCK FALSE
