SPECIFICATION Spec
CONSTANTS
  Engines = {1, 2}
  Commands = {}
  PipeCapacity = 2
  MaxTick = 2
  QueueSize = 2
  FeedSize = 1
  BigSnapshots = TRUE
  MaxPending = 1
  MaxCrashes = 0
  MaxSpawnFailures = 0
INVARIANTS
  OneEngine
CHECK_DEADLOCK FALSE
