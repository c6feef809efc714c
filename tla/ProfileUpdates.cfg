SPECIFICATION FairSpec
CONSTANTS
  Requests <- MCRequests
  Addresses <- MCAddresses
  Bodies <- MCBodies
INVARIANTS TypeOK
PROPERTIES AtomicUpdates Answered
CHECK_DEADLOCK FALSE
