SPECIFICATION FairSpec
CONSTANTS
  Engines = {1, 2}
  Commands = {"load_bot"}
  PipeCapacity = 2
  MaxTick = 0
  QueueSize = 2
  FeedSize = 1
  BigSnapshots = FALSE
  MaxPending = 1
  MaxCrashes = 1
  MaxSpawnFailures = 0
PROPERTIES
  CrashIsRepaired
  
CHECK_DEADLOCK FALSE
