SPECIFICATION FairSpec
CONSTANTS
  Streams <- MCStreams
  Sessions <- MCSessions
  MaxConnections = 2
INVARIANTS TypeOK NoneLeaks CleanExit
PROPERTIES SnapshotsCloseOrHang ShutdownCompletes
CHECK_DEADLOCK FALSE
