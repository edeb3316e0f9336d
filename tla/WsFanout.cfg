SPECIFICATION FairSpec
CONSTANTS
  Clients = {c1, c2, c3}
  MaxConnections = 2
  QueueSize = 2
  MaxBroadcasts = 4
INVARIANTS
  QueueIsLatest
PROPERTIES
  FeedPromise
  CatchesUp
  PlacesAreFreed
CHECK_DEADLOCK FALSE
