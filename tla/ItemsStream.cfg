SPECIFICATION Spec
CONSTANTS
  Addresses = {"a1", "a2"}
  DustKeys = {"k1", "k2"}
  Shapes <- MCShapes
  Profiles <- MCAddressProfiles
  TxMeta = TRUE
  AllDust = FALSE
  Nullifiers = TRUE
  SelfSpends = FALSE
  MaxDrops = 1
  MaxUpdates = 1
  MaxLost = 1
  MaxTxs = 2
INVARIANTS TypeOK NothingSkipped AppliedOnce RefersBack
CHECK_DEADLOCK FALSE
