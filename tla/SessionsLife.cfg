SPECIFICATION FairSpec
CONSTANTS
  Sessions <- MCSessions
  Upstreams <- MCUpstreams
  UpstreamOf <- MCSharedKey
  Requests = {"r1", "r2"}
  MaxFaults = 1
  MaxTimeouts = 1
  MaxRestarts = 1
INVARIANTS TypeOK KeepaliveIsMapped KeyKeptAlive
PROPERTIES KeptAliveIsActivated ClosedGoesDown DisconnectTakesDown
