SPECIFICATION Spec
CONSTANTS
  Users = {u1}
  BotIds = {b1}
  Requests = {r1, r2}
  NoRequest = NoRequest
  MaxBots = 2
  MaxServed = 4
  MaxCrashes = 0
  MaxReboots = 0
INVARIANTS
  EngineAgrees
CHECK_DEADLOCK FALSE
