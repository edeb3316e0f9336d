SPECIFICATION FairSpec
CONSTANTS
  Users = {u1, u2}
  BotIds = {b1, b2, b3}
  Requests = {r1, r2}
  NoRequest = NoRequest
  MaxBots = 1
  MaxServed = 3
  MaxCrashes = 1
  MaxReboots = 1
INVARIANTS
  PublishedCompiles
  EngineRunsThePublished
  BotsHaveVersions
  QuotaSlack
PROPERTIES
  RequestsEnd
CHECK_DEADLOCK FALSE
