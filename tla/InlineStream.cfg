SPECIFICATION InlineSpec
CONSTANTS
  MaxTxs = 3
  MaxSize = 3
  MaxDrops = 2
  MaxFailures = 1
  CacheHits = {TRUE, FALSE}
INVARIANTS InlineTypeOK SelfContained OnlyGaps
CHECK_DEADLOCK FALSE
