SPECIFICATION Spec
CONSTANTS
  Sessions <- MCSessions
  Upstreams <- MCUpstreams
  UpstreamOf <- MCSharedKey
  Requests = {"r1", "r2"}
  MaxFaults = 0
  MaxTimeouts = 0
  MaxRestarts = 0
INVARIANTS OpenKeptAlive
