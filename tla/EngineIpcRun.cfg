SPECIFICATION Spec
CONSTANTS
  Engines = {e1}
  Commands = {"pause", "resume", "shutdown", "status"}
  PipeCapacity = 2
  MaxTick = 2
  MaxCommands = 3
INVARIANTS
  AnswersFollowCommands
  SnapshotsHonourAcks
CHECK_DEADLOCK FALSE
