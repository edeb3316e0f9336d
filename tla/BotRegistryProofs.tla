------------------------- MODULE BotRegistryProofs -------------------------
(***************************************************************************)
(* Proofs about BotRegistry: for any number of users, bots and requests,   *)
(* whatever crashes and restarts, a published bot compiles, the engine     *)
(* runs what is published, and a bot without a version is one whose        *)
(* creation is under way or was cut off between its two commits.           *)
(* Nothing of it needs fairness.                                           *)
(***************************************************************************)
EXTENDS BotRegistry, FiniteSetTheorems, TLAPS

Steps == {"insert", "compile", "check", "publish", "load", "unload", "select", "delete"}
Calls == [step : Steps, user : Users, bot : BotIds \union {NoRequest}, saw : BOOLEAN]

(* Rows and requests are what they are taken for, and name bots that have  *)
(* been given out.                                                         *)
Types ==
  /\ used \subseteq BotIds /\ loaded \subseteq used /\ cutOff \subseteq used
  /\ DOMAIN bots \subseteq used
  /\ \A b \in DOMAIN bots : bots[b] \in [owner : Users, published : BOOLEAN]
  /\ DOMAIN versions \subseteq DOMAIN bots
  /\ \A b \in DOMAIN versions : versions[b] \in BOOLEAN
  /\ lockedBy \in [BotIds -> Requests \union {NoRequest}]
  /\ req \in [Requests -> Calls \union {Idle}]
  /\ \A r \in Requests : req[r].step \notin {"idle", "insert"} => req[r].bot \in used
  /\ engineUp \in BOOLEAN
  /\ served \in Nat /\ crashes \in Nat /\ reboots \in Nat

(* A request that publishes holds the lock of the bot's row, which keeps   *)
(* the bot and the version it checked where they are.                      *)
Locks ==
  \A r \in Requests :
    /\ req[r].step \in {"check", "publish"} =>
         lockedBy[req[r].bot] = r /\ req[r].bot \in DOMAIN bots
    /\ req[r].step = "publish" => Compiles(req[r].bot)

(* A version that is still to be inserted is nobody's yet, and the only    *)
(* one of its bot, whose creation was not cut off.                         *)
FirstVersions ==
  \A r \in Requests : req[r].step = "compile" =>
    /\ req[r].bot \notin DOMAIN versions \union cutOff
    /\ \A q \in Requests : q # r /\ req[q].step = "compile" => req[q].bot # req[r].bot

(* A request that takes a published bot from the engine, or loads it:      *)
(* after an unload the deletion cannot fail any more.                      *)
Goes(r, b) ==
  /\ req[r].step # "idle" /\ req[r].bot = b
  /\ \/ req[r].step \in {"load", "select"}
     \/ req[r].step = "delete" /\ req[r].saw

(* What the engine runs is published, or deleted; what is published it     *)
(* runs, as long as it did not crash, or is about to run or to lose.       *)
EngineInv ==
  /\ \A b \in loaded \intersect DOMAIN bots : bots[b].published
  /\ \A r \in Requests :
       req[r].step = "load" /\ req[r].bot \in DOMAIN bots => bots[req[r].bot].published
  /\ crashes = 0 =>
       /\ engineUp
       /\ \A b \in DOMAIN bots :
            bots[b].published => b \in loaded \/ \E r \in Requests : Goes(r, b)

RegistryInv ==
  Types /\ Locks /\ FirstVersions /\ PublishedCompiles /\ EngineInv /\ BotsHaveVersions

(* The Idle request, and one that is not.                                  *)
LEMMA CallOrIdle ==
  ASSUME Types, NEW r \in Requests
  PROVE  /\ req[r] \in Calls <=> req[r].step # "idle"
         /\ req[r].step = "idle" <=> req[r] = Idle
         /\ req[r] \in Calls => req[r].bot \in BotIds \union {NoRequest}
<1>1. req[r] \in Calls \union {Idle}
  BY DEF Types
<1>2. CASE req[r] \in Calls
  <2>1. req[r].step \in Steps
    BY <1>2 DEF Calls
  <2>2. req[r].step # "idle"
    BY <2>1 DEF Steps
  <2>3. Idle.step = "idle"
    BY DEF Idle
  <2>. QED  BY <1>2, <2>2, <2>3 DEF Calls
<1>3. CASE req[r] = Idle
  <2>1. Idle.step = "idle" /\ "idle" \notin Steps
    BY DEF Idle, Steps
  <2>2. Idle \notin Calls
    BY <2>1 DEF Calls
  <2>. QED  BY <1>3, <2>1, <2>2
<1>. QED  BY <1>1, <1>2, <1>3

(* A request that goes on to another step.                                 *)
LEMMA GotoFacts ==
  ASSUME Types, NEW r \in Requests, req[r].step # "idle", NEW s \in Steps, Goto(r, s)
  PROVE  /\ req' \in [Requests -> Calls \union {Idle}]
         /\ req'[r] \in Calls /\ req'[r].step = s /\ req'[r].bot = req[r].bot
         /\ req'[r].saw = req[r].saw /\ req'[r].user = req[r].user
         /\ \A q \in Requests : q # r => req'[q] = req[q]
<1>1. req[r] \in Calls /\ req \in [Requests -> Calls \union {Idle}]
  BY CallOrIdle DEF Types
<1>. DEFINE new == [req[r] EXCEPT !.step = s]
<1>2. req' = [req EXCEPT ![r] = new]
  BY <1>1 DEF Goto
<1>3. /\ new \in Calls /\ new.step = s /\ new.bot = req[r].bot
      /\ new.saw = req[r].saw /\ new.user = req[r].user
  BY <1>1 DEF Calls
<1>. HIDE DEF new
<1>. QED  BY <1>1, <1>2, <1>3

(* A request that ends.                                                    *)
LEMMA FinishFacts ==
  ASSUME Types, NEW r \in Requests, Finish(r)
  PROVE  /\ req' \in [Requests -> Calls \union {Idle}]
         /\ req'[r] = Idle /\ req'[r].step = "idle"
         /\ \A q \in Requests : q # r => req'[q] = req[q]
BY DEF Types, Finish, Idle

(* A request that begins.                                                  *)
LEMMA BeginFacts ==
  ASSUME Types, NEW r \in Requests, NEW call \in Calls, req' = [req EXCEPT ![r] = call]
  PROVE  /\ req' \in [Requests -> Calls \union {Idle}]
         /\ req'[r] = call
         /\ \A q \in Requests : q # r => req'[q] = req[q]
BY DEF Types

(* CheckPasses keeps the invariant: what MayPublish saw is what is locked. *)
LEMMA CheckPassesKeeps ==
  ASSUME RegistryInv, NEW r \in Requests, CheckPasses(r)
  PROVE  RegistryInv'
<1>1. Types /\ Locks /\ FirstVersions /\ PublishedCompiles /\ EngineInv /\ BotsHaveVersions
  BY DEF RegistryInv
<1>2. req[r].step = "check" /\ "publish" \in Steps
  BY DEF CheckPasses, Steps
<1>3. /\ req' \in [Requests -> Calls \union {Idle}]
      /\ req'[r].step = "publish" /\ req'[r].bot = req[r].bot
      /\ req'[r].saw = req[r].saw
      /\ \A q \in Requests : q # r => req'[q] = req[q]
  BY <1>1, <1>2, GotoFacts DEF CheckPasses
<1>4. Types'
  BY <1>1, <1>2, <1>3 DEF CheckPasses, MayPublish, Compiles, tables, engine, counts, Types
<1>5. Locks'
  BY <1>1, <1>2, <1>3 DEF CheckPasses, MayPublish, Compiles, tables, Locks
<1>6. FirstVersions'
  BY <1>1, <1>2, <1>3 DEF CheckPasses, MayPublish, Compiles, tables, counts, FirstVersions
<1>7. PublishedCompiles'
  BY <1>1, <1>2, <1>3 DEF CheckPasses, MayPublish, Compiles, tables, PublishedCompiles
<1>8. EngineInv'
  BY <1>1, <1>2, <1>3
     DEF CheckPasses, MayPublish, Compiles, tables, engine, counts, EngineInv, Goes
<1>9. BotsHaveVersions'
  BY <1>1, <1>2, <1>3
     DEF CheckPasses, MayPublish, Compiles, tables, counts, BotsHaveVersions, Creating
<1>. QED  BY <1>4, <1>5, <1>6, <1>7, <1>8, <1>9 DEF RegistryInv

(* CheckFails gives the lock back, which was its own.                      *)
LEMMA CheckFailsKeeps ==
  ASSUME RegistryInv, NEW r \in Requests, CheckFails(r)
  PROVE  RegistryInv'
<1>1. Types /\ Locks /\ FirstVersions /\ PublishedCompiles /\ EngineInv /\ BotsHaveVersions
  BY DEF RegistryInv
<1>2. req[r].step = "check" /\ req[r] \in Calls
  BY <1>1, CallOrIdle DEF CheckFails
<1>3. /\ req' \in [Requests -> Calls \union {Idle}] /\ req'[r].step = "idle"
      /\ \A q \in Requests : q # r => req'[q] = req[q]
  BY <1>1, FinishFacts DEF CheckFails
<1>4. Types'
  BY <1>1, <1>2, <1>3 DEF CheckFails, Unlock, engine, counts, Types
<1>5. Locks'
  BY <1>1, <1>2, <1>3 DEF CheckFails, Unlock, Compiles, Locks
<1>6. FirstVersions'
  BY <1>1, <1>2, <1>3 DEF CheckFails, Unlock, counts, FirstVersions
<1>7. PublishedCompiles'
  BY <1>1, <1>2, <1>3 DEF CheckFails, Unlock, Compiles, PublishedCompiles
<1>8. EngineInv'
  BY <1>1, <1>2, <1>3 DEF CheckFails, Unlock, Compiles, engine, counts, EngineInv, Goes
<1>9. BotsHaveVersions'
  BY <1>1, <1>2, <1>3 DEF CheckFails, Unlock, counts, BotsHaveVersions, Creating
<1>. QED  BY <1>4, <1>5, <1>6, <1>7, <1>8, <1>9 DEF RegistryInv

(* CommitPublish publishes a bot that compiles.                            *)
LEMMA CommitPublishKeeps ==
  ASSUME RegistryInv, NEW r \in Requests, CommitPublish(r)
  PROVE  RegistryInv'
<1>1. Types /\ Locks /\ FirstVersions /\ PublishedCompiles /\ EngineInv /\ BotsHaveVersions
  BY DEF RegistryInv
<1>2. req[r].step = "publish" /\ "load" \in Steps
  BY DEF CommitPublish, Steps
<1>3. /\ req' \in [Requests -> Calls \union {Idle}]
      /\ req'[r].step = "load" /\ req'[r].bot = req[r].bot
      /\ req'[r].saw = req[r].saw
      /\ \A q \in Requests : q # r => req'[q] = req[q]
  BY <1>1, <1>2, GotoFacts DEF CommitPublish
<1>4. req[r].bot \in DOMAIN bots /\ Compiles(req[r].bot)
  BY <1>1, <1>2 DEF Locks
<1>5. Types'
  BY <1>1, <1>2, <1>3, <1>4 DEF CommitPublish, Unlock, Compiles, engine, counts, Types
<1>6. Locks'
  BY <1>1, <1>2, <1>3, <1>4 DEF CommitPublish, Unlock, Compiles, Locks
<1>7. FirstVersions'
  BY <1>1, <1>2, <1>3, <1>4 DEF CommitPublish, Unlock, Compiles, counts, FirstVersions
<1>8. PublishedCompiles'
  BY <1>1, <1>2, <1>3, <1>4 DEF CommitPublish, Unlock, Compiles, PublishedCompiles
<1>9. EngineInv'
  BY <1>1, <1>2, <1>3, <1>4 DEF CommitPublish, Unlock, Compiles, engine, counts, EngineInv, Goes
<1>10. BotsHaveVersions'
  BY <1>1, <1>2, <1>3, <1>4 DEF CommitPublish, Unlock, Compiles, counts, BotsHaveVersions, Creating
<1>. QED  BY <1>5, <1>6, <1>7, <1>8, <1>9, <1>10 DEF RegistryInv

(* Load, whether the engine runs or not.                                   *)
LEMMA LoadKeeps ==
  ASSUME RegistryInv, NEW r \in Requests, Load(r)
  PROVE  RegistryInv'
<1>1. Types /\ Locks /\ FirstVersions /\ PublishedCompiles /\ EngineInv /\ BotsHaveVersions
  BY DEF RegistryInv
<1>2. req[r].step = "load" /\ req[r] \in Calls
  BY <1>1, CallOrIdle DEF Load
<1>3. /\ req' \in [Requests -> Calls \union {Idle}] /\ req'[r].step = "idle"
      /\ \A q \in Requests : q # r => req'[q] = req[q]
  BY <1>1, FinishFacts DEF Load
<1>4. Types'
  BY <1>1, <1>2, <1>3 DEF Load, tables, counts, Types
<1>5. Locks'
  BY <1>1, <1>2, <1>3 DEF Load, Compiles, tables, Locks
<1>6. FirstVersions'
  BY <1>1, <1>2, <1>3 DEF Load, tables, counts, FirstVersions
<1>7. PublishedCompiles'
  BY <1>1, <1>2, <1>3 DEF Load, Compiles, tables, PublishedCompiles
<1>8. EngineInv'
  BY <1>1, <1>2, <1>3 DEF Load, Compiles, tables, counts, EngineInv, Goes
<1>9. BotsHaveVersions'
  BY <1>1, <1>2, <1>3 DEF Load, tables, counts, BotsHaveVersions, Creating
<1>. QED  BY <1>4, <1>5, <1>6, <1>7, <1>8, <1>9 DEF RegistryInv

(* Unload changes what the engine runs.                                    *)
LEMMA UnloadKeeps ==
  ASSUME RegistryInv, NEW r \in Requests, Unload(r)
  PROVE  RegistryInv'
<1>1. Types /\ Locks /\ FirstVersions /\ PublishedCompiles /\ EngineInv /\ BotsHaveVersions
  BY DEF RegistryInv
<1>2. req[r].step = "unload" /\ "select" \in Steps
  BY DEF Unload, Steps
<1>3. /\ req' \in [Requests -> Calls \union {Idle}]
      /\ req'[r].step = "select" /\ req'[r].bot = req[r].bot
      /\ req'[r].saw = req[r].saw
      /\ \A q \in Requests : q # r => req'[q] = req[q]
  BY <1>1, <1>2, GotoFacts DEF Unload
<1>4. Types'
  BY <1>1, <1>2, <1>3 DEF Unload, tables, counts, Types
<1>5. Locks'
  BY <1>1, <1>2, <1>3 DEF Unload, Compiles, tables, Locks
<1>6. FirstVersions'
  BY <1>1, <1>2, <1>3 DEF Unload, tables, counts, FirstVersions
<1>7. PublishedCompiles'
  BY <1>1, <1>2, <1>3 DEF Unload, Compiles, tables, PublishedCompiles
<1>8. EngineInv'
  BY <1>1, <1>2, <1>3 DEF Unload, Compiles, tables, counts, EngineInv, Goes
<1>9. BotsHaveVersions'
  BY <1>1, <1>2, <1>3 DEF Unload, tables, counts, BotsHaveVersions, Creating
<1>. QED  BY <1>4, <1>5, <1>6, <1>7, <1>8, <1>9 DEF RegistryInv

(* UnloadFails ends the request.                                           *)
LEMMA UnloadFailsKeeps ==
  ASSUME RegistryInv, NEW r \in Requests, UnloadFails(r)
  PROVE  RegistryInv'
<1>1. Types /\ Locks /\ FirstVersions /\ PublishedCompiles /\ EngineInv /\ BotsHaveVersions
  BY DEF RegistryInv
<1>2. req[r].step = "unload" /\ req[r] \in Calls
  BY <1>1, CallOrIdle DEF UnloadFails
<1>3. /\ req' \in [Requests -> Calls \union {Idle}] /\ req'[r].step = "idle"
      /\ \A q \in Requests : q # r => req'[q] = req[q]
  BY <1>1, FinishFacts DEF UnloadFails
<1>4. Types'
  BY <1>1, <1>2, <1>3 DEF UnloadFails, tables, engine, counts, Types
<1>5. Locks'
  BY <1>1, <1>2, <1>3 DEF UnloadFails, Compiles, tables, Locks
<1>6. FirstVersions'
  BY <1>1, <1>2, <1>3 DEF UnloadFails, tables, counts, FirstVersions
<1>7. PublishedCompiles'
  BY <1>1, <1>2, <1>3 DEF UnloadFails, Compiles, tables, PublishedCompiles
<1>8. EngineInv'
  BY <1>1, <1>2, <1>3 DEF UnloadFails, Compiles, tables, engine, counts, EngineInv, Goes
<1>9. BotsHaveVersions'
  BY <1>1, <1>2, <1>3 DEF UnloadFails, tables, counts, BotsHaveVersions, Creating
<1>. QED  BY <1>4, <1>5, <1>6, <1>7, <1>8, <1>9 DEF RegistryInv

(* BeginCreate: nothing but the request changes.                           *)
LEMMA BeginCreateKeeps ==
  ASSUME RegistryInv, NEW r \in Requests, NEW u \in Users, BeginCreate(r, u)
  PROVE  RegistryInv'
<1>1. Types /\ Locks /\ FirstVersions /\ PublishedCompiles /\ EngineInv /\ BotsHaveVersions
  BY DEF RegistryInv
<1>2. req[r].step = "idle" /\ "insert" \in Steps /\ FALSE \in BOOLEAN
  BY DEF BeginCreate, Serve, Steps
<1>3. \/ req' = [req EXCEPT ![r] = At("insert", u, NoRequest, FALSE)]
      \/ req' = req
  BY DEF BeginCreate
<1>4. /\ req' \in [Requests -> Calls \union {Idle}]
      /\ \A q \in Requests : \/ q = r /\ req'[q].step = "insert"
                            \/ req'[q] = req[q]
  <2>. DEFINE c == At("insert", u, NoRequest, FALSE)
  <2>1. c \in Calls /\ c.step = "insert"
    BY <1>2 DEF At, Calls, Steps
  <2>. HIDE DEF c
  <2>2. CASE req' = [req EXCEPT ![r] = c]
    BY <1>1, <2>1, <2>2 DEF Types
  <2>3. CASE req' = req
    BY <1>1, <2>3 DEF Types
  <2>. QED  BY <1>3, <2>2, <2>3 DEF c

<1>5. UNCHANGED <<tables, engine, crashes, reboots, cutOff>> /\ served' = served + 1
  BY DEF BeginCreate, Serve
<1>6. Types'
  BY <1>1, <1>2, <1>3, <1>4, <1>5 DEF tables, engine, Types
<1>7. Locks'
  BY <1>1, <1>2, <1>3, <1>4, <1>5 DEF Compiles, tables, Locks
<1>8. FirstVersions'
  BY <1>1, <1>2, <1>3, <1>4, <1>5 DEF tables, counts, FirstVersions
<1>9. PublishedCompiles'
  BY <1>1, <1>2, <1>3, <1>4, <1>5 DEF Compiles, tables, PublishedCompiles
<1>10. EngineInv'
  BY <1>1, <1>2, <1>3, <1>4, <1>5 DEF Compiles, tables, engine, EngineInv, Goes
<1>11. BotsHaveVersions'
  BY <1>1, <1>2, <1>3, <1>4, <1>5 DEF tables, BotsHaveVersions, Creating
<1>. QED  BY <1>6, <1>7, <1>8, <1>9, <1>10, <1>11 DEF RegistryInv

(* InsertBot adds a row nobody knows, and it is not published.             *)
LEMMA InsertBotKeeps ==
  ASSUME RegistryInv, NEW r \in Requests, NEW b \in BotIds, InsertBot(r, b)
  PROVE  RegistryInv'
<1>1. Types /\ Locks /\ FirstVersions /\ PublishedCompiles /\ EngineInv /\ BotsHaveVersions
  BY DEF RegistryInv
<1>2. req[r].step = "insert" /\ req[r] \in Calls
  BY <1>1, CallOrIdle DEF InsertBot
<1>3. /\ req' \in [Requests -> Calls \union {Idle}]
      /\ req'[r].step = "compile" /\ req'[r].bot = b
      /\ \A q \in Requests : q # r => req'[q] = req[q]
  <2>1. [req[r] EXCEPT !.step = "compile", !.bot = b] \in Calls
    BY <1>2 DEF Calls, Steps
  <2>2. /\ [req[r] EXCEPT !.step = "compile", !.bot = b].step = "compile"
        /\ [req[r] EXCEPT !.step = "compile", !.bot = b].bot = b
    BY <1>2 DEF Calls
  <2>3. req' = [req EXCEPT ![r] = [req[r] EXCEPT !.step = "compile", !.bot = b]]
    BY <1>1 DEF InsertBot, Types
  <2>. QED  BY <1>1, <2>1, <2>2, <2>3, BeginFacts

<1>4. /\ DOMAIN bots' = DOMAIN bots \union {b} /\ b \notin used
      /\ bots'[b] \in [owner : Users, published : BOOLEAN] /\ ~bots'[b].published
      /\ \A x \in DOMAIN bots : bots'[x] = bots[x]
  BY <1>1, <1>2 DEF InsertBot, Calls, Types
<1>5. /\ b \notin DOMAIN versions
      /\ \A q \in Requests : req[q].step \notin {"idle", "insert"} => req[q].bot # b
  BY <1>1, <1>4 DEF Types
<1>6. Types'
  BY <1>1, <1>2, <1>3, <1>4, <1>5 DEF InsertBot, engine, counts, Types
<1>7. Locks'
  BY <1>1, <1>2, <1>3, <1>4, <1>5 DEF InsertBot, Compiles, Locks
<1>8. FirstVersions'
  BY <1>1, <1>2, <1>3, <1>4, <1>5 DEF InsertBot, counts, Types, FirstVersions
<1>9. PublishedCompiles'
  BY <1>1, <1>2, <1>3, <1>4, <1>5 DEF InsertBot, Compiles, PublishedCompiles
<1>10. EngineInv'
  BY <1>1, <1>2, <1>3, <1>4, <1>5
     DEF InsertBot, Compiles, engine, counts, Types, EngineInv, Goes
<1>11. BotsHaveVersions'
  BY <1>1, <1>2, <1>3, <1>4, <1>5 DEF InsertBot, counts, BotsHaveVersions, Creating
<1>. QED  BY <1>6, <1>7, <1>8, <1>9, <1>10, <1>11 DEF RegistryInv

(* InsertVersion adds the first version of its bot.                        *)
LEMMA InsertVersionKeeps ==
  ASSUME RegistryInv, NEW r \in Requests, NEW ok \in BOOLEAN, InsertVersion(r, ok)
  PROVE  RegistryInv'
<1>1. Types /\ Locks /\ FirstVersions /\ PublishedCompiles /\ EngineInv /\ BotsHaveVersions
  BY DEF RegistryInv
<1>2. req[r].step = "compile" /\ req[r] \in Calls
  BY <1>1, CallOrIdle DEF InsertVersion
<1>3. /\ req' \in [Requests -> Calls \union {Idle}] /\ req'[r].step = "idle"
      /\ \A q \in Requests : q # r => req'[q] = req[q]
  BY <1>1, FinishFacts DEF InsertVersion
<1>4. /\ DOMAIN versions' \subseteq DOMAIN versions \union {req[r].bot}
      /\ DOMAIN versions' \subseteq DOMAIN bots /\ DOMAIN versions \subseteq DOMAIN versions'
      /\ \A x \in DOMAIN versions : versions'[x] = versions[x]
      /\ \A x \in DOMAIN versions' : versions'[x] \in BOOLEAN
  BY <1>1, <1>2 DEF InsertVersion, Types, FirstVersions
<1>5. Types'
  BY <1>1, <1>2, <1>3, <1>4 DEF InsertVersion, engine, counts, Types
<1>6. Locks'
  BY <1>1, <1>2, <1>3, <1>4 DEF InsertVersion, Compiles, Locks
<1>7. FirstVersions'
  BY <1>1, <1>2, <1>3, <1>4 DEF InsertVersion, counts, FirstVersions
<1>8. PublishedCompiles'
  BY <1>1, <1>2, <1>3, <1>4 DEF InsertVersion, Compiles, PublishedCompiles
<1>9. EngineInv'
  BY <1>1, <1>2, <1>3, <1>4 DEF InsertVersion, Compiles, engine, counts, EngineInv, Goes
<1>10. BotsHaveVersions'
  BY <1>1, <1>2, <1>3, <1>4 DEF InsertVersion, counts, FirstVersions, BotsHaveVersions, Creating
<1>. QED  BY <1>5, <1>6, <1>7, <1>8, <1>9, <1>10 DEF RegistryInv

(* CompileRaises cuts the creation of its bot off.                         *)
LEMMA CompileRaisesKeeps ==
  ASSUME RegistryInv, NEW r \in Requests, CompileRaises(r)
  PROVE  RegistryInv'
<1>1. Types /\ Locks /\ FirstVersions /\ PublishedCompiles /\ EngineInv /\ BotsHaveVersions
  BY DEF RegistryInv
<1>2. req[r].step = "compile" /\ req[r] \in Calls
  BY <1>1, CallOrIdle DEF CompileRaises
<1>3. /\ req' \in [Requests -> Calls \union {Idle}] /\ req'[r].step = "idle"
      /\ \A q \in Requests : q # r => req'[q] = req[q]
  BY <1>1, FinishFacts DEF CompileRaises
<1>4. Types'
  BY <1>1, <1>2, <1>3 DEF CompileRaises, tables, engine, Types
<1>5. Locks'
  BY <1>1, <1>2, <1>3 DEF CompileRaises, tables, Compiles, Locks
<1>6. FirstVersions'
  BY <1>1, <1>2, <1>3 DEF CompileRaises, tables, counts, FirstVersions
<1>7. PublishedCompiles'
  BY <1>1, <1>2, <1>3 DEF CompileRaises, tables, Compiles, PublishedCompiles
<1>8. EngineInv'
  BY <1>1, <1>2, <1>3 DEF CompileRaises, tables, Compiles, engine, EngineInv, Goes
<1>9. BotsHaveVersions'
  BY <1>1, <1>2, <1>3 DEF CompileRaises, tables, FirstVersions, BotsHaveVersions, Creating
<1>. QED  BY <1>4, <1>5, <1>6, <1>7, <1>8, <1>9 DEF RegistryInv

(* BeginPublish takes the lock of a bot of its user.                       *)
LEMMA BeginPublishKeeps ==
  ASSUME RegistryInv, NEW r \in Requests, NEW u \in Users, NEW b \in used, BeginPublish(r, u, b)
  PROVE  RegistryInv'
<1>1. Types /\ Locks /\ FirstVersions /\ PublishedCompiles /\ EngineInv /\ BotsHaveVersions
  BY DEF RegistryInv
<1>2. /\ req[r].step = "idle" /\ "check" \in Steps /\ FALSE \in BOOLEAN
      /\ b \in BotIds /\ lockedBy[b] = NoRequest
  BY <1>1 DEF BeginPublish, Serve, Steps, Types
<1>3. b \in Owned(u) =>
        /\ req' \in [Requests -> Calls \union {Idle}]
        /\ req'[r].step = "check" /\ req'[r].bot = b /\ b \in DOMAIN bots
        /\ lockedBy' = [lockedBy EXCEPT ![b] = r]
        /\ \A q \in Requests : q # r => req'[q] = req[q]
  <2>. DEFINE c == At("check", u, b, FALSE)
  <2>1. c \in Calls /\ c.step = "check" /\ c.bot = b
    BY <1>1, <1>2 DEF At, Calls, Steps, Types
  <2>2. b \in Owned(u) =>
          /\ req' = [req EXCEPT ![r] = c] /\ b \in DOMAIN bots
          /\ lockedBy' = [lockedBy EXCEPT ![b] = r]
    BY DEF BeginPublish, Owned
  <2>. HIDE DEF c
  <2>. QED  BY <1>1, <2>1, <2>2 DEF Types

<1>4. b \notin Owned(u) => UNCHANGED <<req, lockedBy>>
  BY DEF BeginPublish
<1>5. Types'
  BY <1>1, <1>2, <1>3, <1>4 DEF BeginPublish, Serve, engine, Types
<1>6. Locks'
  BY <1>1, <1>2, <1>3, <1>4, RegistryAssumption DEF BeginPublish, Serve, Compiles, Types, Locks
<1>7. FirstVersions'
  BY <1>1, <1>2, <1>3, <1>4 DEF BeginPublish, Serve, FirstVersions
<1>8. PublishedCompiles'
  BY <1>1, <1>2, <1>3, <1>4 DEF BeginPublish, Serve, Compiles, PublishedCompiles
<1>9. EngineInv'
  BY <1>1, <1>2, <1>3, <1>4 DEF BeginPublish, Serve, Compiles, engine, EngineInv, Goes
<1>10. BotsHaveVersions'
  BY <1>1, <1>2, <1>3, <1>4 DEF BeginPublish, Serve, BotsHaveVersions, Creating
<1>. QED  BY <1>5, <1>6, <1>7, <1>8, <1>9, <1>10 DEF RegistryInv

(* BeginDelete: nothing but the request changes.                           *)
LEMMA BeginDeleteKeeps ==
  ASSUME RegistryInv, NEW r \in Requests, NEW u \in Users, NEW b \in used, BeginDelete(r, u, b)
  PROVE  RegistryInv'
<1>1. Types /\ Locks /\ FirstVersions /\ PublishedCompiles /\ EngineInv /\ BotsHaveVersions
  BY DEF RegistryInv
<1>2. req[r].step = "idle" /\ b \in BotIds
  BY <1>1 DEF BeginDelete, Serve, Types
<1>3. b \in Owned(u) => At("unload", u, b, bots[b].published) \in Calls
  BY <1>1, <1>2 DEF At, Calls, Steps, Owned, Types
<1>4. b \in Owned(u) =>
        /\ req' \in [Requests -> Calls \union {Idle}]
        /\ req'[r].step = "unload" /\ req'[r].bot = b
        /\ \A q \in Requests : q # r => req'[q] = req[q]
  BY <1>1, <1>2, <1>3, BeginFacts DEF BeginDelete, At
<1>5. b \notin Owned(u) => UNCHANGED req
  BY DEF BeginDelete
<1>6. Types'
  BY <1>1, <1>2, <1>3, <1>4, <1>5 DEF BeginDelete, Serve, tables, engine, Types
<1>7. Locks'
  BY <1>1, <1>2, <1>3, <1>4, <1>5 DEF BeginDelete, Serve, Compiles, tables, Locks
<1>8. FirstVersions'
  BY <1>1, <1>2, <1>3, <1>4, <1>5 DEF BeginDelete, Serve, tables, counts, FirstVersions
<1>9. PublishedCompiles'
  BY <1>1, <1>2, <1>3, <1>4, <1>5 DEF BeginDelete, Serve, Compiles, tables, PublishedCompiles
<1>10. EngineInv'
  BY <1>1, <1>2, <1>3, <1>4, <1>5
     DEF BeginDelete, Serve, Compiles, tables, engine, EngineInv, Goes
<1>11. BotsHaveVersions'
  BY <1>1, <1>2, <1>3, <1>4, <1>5 DEF BeginDelete, Serve, tables, BotsHaveVersions, Creating
<1>. QED  BY <1>6, <1>7, <1>8, <1>9, <1>10, <1>11 DEF RegistryInv

(* SelectVersions: nothing but the request changes.                        *)
LEMMA SelectVersionsKeeps ==
  ASSUME RegistryInv, NEW r \in Requests, SelectVersions(r)
  PROVE  RegistryInv'
<1>1. Types /\ Locks /\ FirstVersions /\ PublishedCompiles /\ EngineInv /\ BotsHaveVersions
  BY DEF RegistryInv
<1>2. req[r].step = "select" /\ req[r] \in Calls
  BY <1>1, CallOrIdle DEF SelectVersions
<1>3. /\ req' \in [Requests -> Calls \union {Idle}]
      /\ req'[r].step = "delete" /\ req'[r].bot = req[r].bot
      /\ req[r].bot \in DOMAIN versions => req'[r].saw
      /\ \A q \in Requests : q # r => req'[q] = req[q]
  <2>. DEFINE new == [req[r] EXCEPT !.step = "delete", !.saw = req[r].bot \in DOMAIN versions]
  <2>1. /\ new \in Calls /\ new.step = "delete" /\ new.bot = req[r].bot
        /\ req[r].bot \in DOMAIN versions => new.saw
    <3>1. CASE req[r].bot \in DOMAIN versions
      <4>1. new = [req[r] EXCEPT !.step = "delete", !.saw = TRUE]
        BY <3>1
      <4>. QED  BY <1>2, <4>1 DEF Calls, Steps
    <3>2. CASE req[r].bot \notin DOMAIN versions
      <4>1. new = [req[r] EXCEPT !.step = "delete", !.saw = FALSE]
        <5>1. (req[r].bot \in DOMAIN versions) = FALSE
          BY <3>2
        <5>. QED  BY <5>1
      <4>. QED  BY <1>2, <4>1 DEF Calls, Steps
    <3>. QED  BY <3>1, <3>2
  <2>2. req' = [req EXCEPT ![r] = new]
    BY <1>1 DEF SelectVersions, Types
  <2>. HIDE DEF new
  <2>. QED  BY <1>1, <2>1, <2>2, BeginFacts

<1>4. Types'
  BY <1>1, <1>2, <1>3 DEF SelectVersions, tables, engine, counts, Types
<1>5. Locks'
  BY <1>1, <1>2, <1>3 DEF SelectVersions, Compiles, tables, Locks
<1>6. FirstVersions'
  BY <1>1, <1>2, <1>3 DEF SelectVersions, tables, counts, FirstVersions
<1>7. PublishedCompiles'
  BY <1>1, <1>2, <1>3 DEF SelectVersions, Compiles, tables, PublishedCompiles
<1>8. EngineInv'
  BY <1>1, <1>2, <1>3
     DEF SelectVersions, Compiles, tables, engine, counts, PublishedCompiles, EngineInv, Goes
<1>9. BotsHaveVersions'
  BY <1>1, <1>2, <1>3 DEF SelectVersions, tables, counts, BotsHaveVersions, Creating
<1>. QED  BY <1>4, <1>5, <1>6, <1>7, <1>8, <1>9 DEF RegistryInv

(* Delete waits for the lock: no checked bot or version goes.              *)
LEMMA DeleteKeeps ==
  ASSUME RegistryInv, NEW r \in Requests, Delete(r)
  PROVE  RegistryInv'
<1>1. Types /\ Locks /\ FirstVersions /\ PublishedCompiles /\ EngineInv /\ BotsHaveVersions
  BY DEF RegistryInv
<1>2. req[r].step = "delete" /\ req[r] \in Calls
  BY <1>1, CallOrIdle DEF Delete
<1>3. /\ req' \in [Requests -> Calls \union {Idle}] /\ req'[r].step = "idle"
      /\ \A q \in Requests : q # r => req'[q] = req[q]
  BY <1>1, FinishFacts DEF Delete
<1>4. \/ UNCHANGED <<bots, versions>>
      \/ bots' = Remove(bots, req[r].bot) /\ versions' = Remove(versions, req[r].bot)
  BY DEF Delete
<1>5. /\ DOMAIN bots' \subseteq DOMAIN bots
      /\ DOMAIN bots \subseteq DOMAIN bots' \union {req[r].bot}
      /\ \A x \in DOMAIN bots' : bots'[x] = bots[x]
  BY <1>1, <1>4 DEF Remove, Restrict
<1>6. /\ DOMAIN versions' \subseteq DOMAIN versions /\ DOMAIN versions' \subseteq DOMAIN bots'
      /\ \A x \in DOMAIN versions' : versions'[x] = versions[x]
      /\ \A x \in DOMAIN bots' \intersect DOMAIN versions : x \in DOMAIN versions'
  BY <1>1, <1>4 DEF Types, Remove, Restrict
<1>7. lockedBy[req[r].bot] = NoRequest
  BY DEF Delete
<1>8. req[r].saw => req[r].bot \notin DOMAIN bots'
  BY DEF Delete, Remove, Restrict
<1>9. Types'
  BY <1>1, <1>2, <1>3, <1>4, <1>5, <1>6, <1>7, <1>8 DEF Delete, engine, counts, Types
<1>10. Locks'
  BY <1>1, <1>2, <1>3, <1>4, <1>5, <1>6, <1>7, <1>8, RegistryAssumption
     DEF Delete, Compiles, Locks
<1>11. FirstVersions'
  BY <1>1, <1>2, <1>3, <1>4, <1>5, <1>6, <1>7, <1>8 DEF Delete, counts, FirstVersions
<1>12. PublishedCompiles'
  BY <1>1, <1>2, <1>3, <1>4, <1>5, <1>6, <1>7, <1>8 DEF Delete, Compiles, PublishedCompiles
<1>13. EngineInv'
  BY <1>1, <1>2, <1>3, <1>4, <1>5, <1>6, <1>7, <1>8
     DEF Delete, Compiles, engine, counts, EngineInv, Goes
<1>14. BotsHaveVersions'
  <2>1. Creating' = Creating /\ cutOff' = cutOff
    BY <1>1, <1>2, <1>3 DEF Delete, counts, Creating
  <2>2. CASE UNCHANGED <<bots, versions>>
    BY <1>1, <2>1, <2>2 DEF BotsHaveVersions
  <2>3. CASE bots' = Remove(bots, req[r].bot) /\ versions' = Remove(versions, req[r].bot)
    <3>1. /\ DOMAIN bots' = DOMAIN bots \ {req[r].bot}
          /\ DOMAIN versions' = DOMAIN versions \ {req[r].bot}
      BY <2>3 DEF Remove, Restrict
    <3>. QED  BY <1>1, <2>1, <3>1 DEF BotsHaveVersions
  <2>. QED  BY <1>4, <2>2, <2>3
<1>. QED  BY <1>9, <1>10, <1>11, <1>12, <1>13, <1>14 DEF RegistryInv

(* The death of the engine leaves the registry as it is.                   *)
LEMMA EngineDiesKeeps ==
  ASSUME RegistryInv, EngineDies
  PROVE  RegistryInv'
<1>1. Types /\ Locks /\ FirstVersions /\ PublishedCompiles /\ EngineInv /\ BotsHaveVersions
  BY DEF RegistryInv
<1>2. engineUp' \in BOOLEAN
  BY DEF EngineDies
<1>3. /\ loaded' = {} /\ crashes' = crashes + 1
      /\ UNCHANGED <<tables, req, served, reboots, cutOff>>
  BY DEF EngineDies
<1>4. Types'
  BY <1>1, <1>2, <1>3 DEF tables, Types
<1>5. Locks'
  BY <1>1, <1>2, <1>3 DEF Compiles, tables, Locks
<1>6. FirstVersions'
  BY <1>1, <1>2, <1>3 DEF tables, counts, FirstVersions
<1>7. PublishedCompiles'
  BY <1>1, <1>2, <1>3 DEF Compiles, tables, PublishedCompiles
<1>8. EngineInv'
  BY <1>1, <1>2, <1>3 DEF Compiles, tables, Types, EngineInv, Goes
<1>9. BotsHaveVersions'
  BY <1>1, <1>2, <1>3 DEF tables, BotsHaveVersions, Creating
<1>. QED  BY <1>4, <1>5, <1>6, <1>7, <1>8, <1>9 DEF RegistryInv

(* So does its restart.                                                    *)
LEMMA EngineRestartsKeeps ==
  ASSUME RegistryInv, EngineRestarts
  PROVE  RegistryInv'
<1>1. Types /\ Locks /\ FirstVersions /\ PublishedCompiles /\ EngineInv /\ BotsHaveVersions
  BY DEF RegistryInv
<1>2. Types'
  BY <1>1 DEF EngineRestarts, tables, counts, Types
<1>3. Locks'
  BY <1>1 DEF EngineRestarts, Compiles, tables, Locks
<1>4. FirstVersions'
  BY <1>1 DEF EngineRestarts, tables, counts, FirstVersions
<1>5. PublishedCompiles'
  BY <1>1 DEF EngineRestarts, Compiles, tables, PublishedCompiles
<1>6. EngineInv'
  BY <1>1 DEF EngineRestarts, Compiles, tables, counts, EngineInv, Goes
<1>7. BotsHaveVersions'
  BY <1>1 DEF EngineRestarts, tables, counts, BotsHaveVersions, Creating
<1>. QED  BY <1>2, <1>3, <1>4, <1>5, <1>6, <1>7 DEF RegistryInv

(* A restart of the backend ends all requests and locks.                   *)
LEMMA RebootKeeps ==
  ASSUME RegistryInv, Reboot
  PROVE  RegistryInv'
<1>1. Types /\ Locks /\ FirstVersions /\ PublishedCompiles /\ EngineInv /\ BotsHaveVersions
  BY DEF RegistryInv
<1>2. \A r \in Requests : req'[r] = Idle /\ req'[r].step = "idle"
  BY DEF Reboot, Idle
<1>3. Types'
  <2>1. Creating \subseteq used
    BY <1>1 DEF Types, Creating
  <2>. QED  BY <1>1, <1>2, <2>1 DEF Reboot, Compiles, Types
<1>4. Locks'
  BY <1>1, <1>2 DEF Reboot, Compiles, Locks
<1>5. FirstVersions'
  BY <1>1, <1>2 DEF Reboot, Compiles, counts, FirstVersions
<1>6. PublishedCompiles'
  BY <1>1, <1>2 DEF Reboot, Compiles, PublishedCompiles
<1>7. EngineInv'
  BY <1>1, <1>2 DEF Reboot, Compiles, PublishedCompiles, EngineInv, Goes
<1>8. BotsHaveVersions'
  BY <1>1, <1>2 DEF Reboot, Compiles, Types, BotsHaveVersions, Creating
<1>. QED  BY <1>3, <1>4, <1>5, <1>6, <1>7, <1>8 DEF RegistryInv

(* The registry starts empty.                                              *)
LEMMA InitKeeps == Init => RegistryInv
BY RegistryAssumption
   DEF Init, RegistryInv, Types, Locks, FirstVersions, PublishedCompiles, EngineInv,
       BotsHaveVersions, Creating, Idle

(* Every step of the registry keeps the invariant.                         *)
LEMMA NextKeeps == RegistryInv /\ [Next]_vars => RegistryInv'
<1>. SUFFICES ASSUME RegistryInv, [Next]_vars PROVE RegistryInv'
  OBVIOUS
<1>1. ASSUME NEW r \in Requests, NEW u \in Users,
             BeginCreate(r, u) \/ \E b \in used : BeginPublish(r, u, b) \/ BeginDelete(r, u, b)
      PROVE  RegistryInv'
  BY <1>1, BeginCreateKeeps, BeginPublishKeeps, BeginDeleteKeeps
<1>2. ASSUME NEW r \in Requests, \E b \in BotIds : InsertBot(r, b) PROVE RegistryInv'
  BY <1>2, InsertBotKeeps
<1>3. ASSUME NEW r \in Requests, \E ok \in BOOLEAN : InsertVersion(r, ok) PROVE RegistryInv'
  BY <1>3, InsertVersionKeeps
<1>3a. ASSUME NEW r \in Requests, CompileRaises(r) PROVE RegistryInv'
  BY <1>3a, CompileRaisesKeeps
<1>4. ASSUME NEW r \in Requests, CheckPasses(r) \/ CheckFails(r) \/ CommitPublish(r) \/ Load(r)
      PROVE  RegistryInv'
  BY <1>4, CheckPassesKeeps, CheckFailsKeeps, CommitPublishKeeps, LoadKeeps
<1>5. ASSUME NEW r \in Requests,
             Unload(r) \/ UnloadFails(r) \/ SelectVersions(r) \/ Delete(r)
      PROVE  RegistryInv'
  BY <1>5, UnloadKeeps, UnloadFailsKeeps, SelectVersionsKeeps, DeleteKeeps
<1>6. CASE EngineDies \/ EngineRestarts \/ Reboot
  BY <1>6, EngineDiesKeeps, EngineRestartsKeeps, RebootKeeps
<1>7. CASE UNCHANGED vars
  BY <1>7
     DEF vars, tables, engine, counts, RegistryInv, Types, Locks, FirstVersions,
         PublishedCompiles, Compiles, EngineInv, Goes, BotsHaveVersions, Creating
<1>. QED
  BY <1>1, <1>2, <1>3, <1>3a, <1>4, <1>5, <1>6, <1>7 DEF Next, GoOn

LEMMA AlwaysRegistryInv == Spec => []RegistryInv
BY InitKeeps, NextKeeps, PTL DEF Spec

(* A bot that is published compiles: the check and the commit of a publish *)
(* are under the row's lock, and a version is never changed.               *)
THEOREM PublishedBotsCompile == Spec => []PublishedCompiles
BY AlwaysRegistryInv, PTL DEF RegistryInv

(* The engine runs what is published, however requests cross.              *)
THEOREM EngineFollowsRegistry == Spec => []EngineRunsThePublished
<1>1. RegistryInv => EngineRunsThePublished
  BY DEF RegistryInv, EngineInv, EngineRunsThePublished, Quiet, Goes, Idle
<1>. QED  BY <1>1, AlwaysRegistryInv, PTL

(* A bot is without a version only while it is created, or because an      *)
(* exception or a restart cut its creation off between the two commits.    *)
THEOREM CreationsAreComplete == Spec => []BotsHaveVersions
BY AlwaysRegistryInv, PTL DEF RegistryInv

(* The quota: what a user owns and is inserting, of finitely many bots.    *)
QuotaInv == IsFiniteSet(used) /\ QuotaSlack

(* A step that gives a user nothing keeps the slack.                       *)
LEMMA QuotaMonotone ==
  ASSUME Types, QuotaInv,
         used' = used,
         \A u \in Users : Owned(u)' \subseteq Owned(u) /\ Inserting(u)' \subseteq Inserting(u)
  PROVE  QuotaInv'
<1>. SUFFICES ASSUME NEW u \in Users
              PROVE  (Cardinality(Owned(u)) + Cardinality(Inserting(u))
                        < MaxBots + Cardinality(Requests))'
  BY DEF QuotaInv, QuotaSlack
<1>1. Owned(u) \subseteq used /\ Inserting(u) \subseteq Requests
  BY DEF Types, Owned, Inserting
<1>2. /\ IsFiniteSet(Owned(u)) /\ IsFiniteSet(Inserting(u))
      /\ IsFiniteSet(Requests) /\ IsFiniteSet(used)
  BY <1>1, FS_Subset, RegistryAssumption DEF QuotaInv
<1>3. /\ Cardinality(Owned(u)') <= Cardinality(Owned(u))
      /\ Cardinality(Inserting(u)') <= Cardinality(Inserting(u))
  BY <1>2, FS_Subset
<1>4. /\ Cardinality(Owned(u)') \in Nat /\ Cardinality(Inserting(u)') \in Nat
      /\ Cardinality(Owned(u)) \in Nat /\ Cardinality(Inserting(u)) \in Nat
      /\ Cardinality(Requests) \in Nat /\ MaxBots \in Nat
  BY <1>2, FS_Subset, FS_CardinalityType, RegistryAssumption
<1>5. Cardinality(Owned(u)) + Cardinality(Inserting(u)) < MaxBots + Cardinality(Requests)
  BY DEF QuotaInv, QuotaSlack
<1>. QED  BY <1>3, <1>4, <1>5

(* A creation that passes the test adds itself to those under way.         *)
LEMMA BeginCreateQuota ==
  ASSUME Types, QuotaInv, NEW r \in Requests, NEW v \in Users, BeginCreate(r, v)
  PROVE  QuotaInv'
<1>1. UNCHANGED <<bots, used>>
  BY DEF BeginCreate, tables
<1>2. CASE UnderQuota(v)
  <2>. SUFFICES ASSUME NEW u \in Users
                PROVE  (Cardinality(Owned(u)) + Cardinality(Inserting(u))
                          < MaxBots + Cardinality(Requests))'
    BY <1>1 DEF QuotaInv, QuotaSlack
  <2>1. Owned(u)' = Owned(u)
    BY <1>1 DEF Owned
  <2>2. req' = [req EXCEPT ![r] = At("insert", v, NoRequest, FALSE)]
    BY <1>2 DEF BeginCreate
  <2>3. /\ Inserting(u) \subseteq Requests /\ Inserting(u)' \subseteq Requests
        /\ Owned(u) \subseteq used
    BY DEF Types, Owned, Inserting
  <2>4. /\ Cardinality(Inserting(u)') \in Nat
        /\ Cardinality(Inserting(u)') <= Cardinality(Requests)
        /\ Cardinality(Requests) \in Nat /\ Cardinality(Owned(u)) \in Nat /\ MaxBots \in Nat
    BY <2>3, FS_Subset, FS_CardinalityType, RegistryAssumption DEF QuotaInv
  <2>5. CASE u = v
    <3>1. Cardinality(Owned(u)) < MaxBots
      BY <1>2, <2>5 DEF UnderQuota
    <3>. QED  BY <2>1, <2>4, <3>1
  <2>6. CASE u # v
    <3>1. Inserting(u)' \subseteq Inserting(u)
      BY <2>2, <2>6 DEF Inserting, Types, At
    <3>2. Inserting(u) \subseteq Inserting(u)'
      <4>1. req[r].step = "idle"
        BY DEF BeginCreate, Serve
      <4>. QED  BY <2>2, <4>1 DEF Inserting, Types
    <3>3. Inserting(u)' = Inserting(u)
      BY <3>1, <3>2
    <3>. QED  BY <2>1, <3>3 DEF QuotaInv, QuotaSlack
  <2>. QED  BY <2>5, <2>6
<1>3. CASE ~UnderQuota(v)
  <2>1. req' = req
    BY <1>3 DEF BeginCreate
  <2>. QED  BY <1>1, <2>1 DEF QuotaInv, QuotaSlack, Owned, Inserting
<1>. QED  BY <1>2, <1>3

(* The inserted bot takes the place of its request.                        *)
LEMMA InsertBotQuota ==
  ASSUME Types, QuotaInv, NEW r \in Requests, NEW b \in BotIds, InsertBot(r, b)
  PROVE  QuotaInv'
<1>1. /\ req[r].step = "insert" /\ b \notin used /\ used' = used \union {b}
      /\ bots' = [x \in DOMAIN bots \union {b} |->
                    IF x = b THEN [owner |-> req[r].user, published |-> FALSE] ELSE bots[x]]
  BY DEF InsertBot
<1>2. b \notin DOMAIN bots
  BY <1>1 DEF Types
<1>3. \A q \in Requests : q # r => req'[q] = req[q]
  BY DEF InsertBot, Types
<1>4. req'[r].step = "compile"
  <2>1. req[r] \in Calls
    BY <1>1, CallOrIdle
  <2>2. [req[r] EXCEPT !.step = "compile", !.bot = b].step = "compile"
    BY <2>1 DEF Calls
  <2>3. req' = [req EXCEPT ![r] = [req[r] EXCEPT !.step = "compile", !.bot = b]]
    BY DEF InsertBot, Types
  <2>. QED  BY <2>2, <2>3 DEF Types
<1>5. IsFiniteSet(used')
  BY <1>1, FS_AddElement DEF QuotaInv
<1>. SUFFICES ASSUME NEW u \in Users
              PROVE  (Cardinality(Owned(u)) + Cardinality(Inserting(u))
                        < MaxBots + Cardinality(Requests))'
  BY <1>5 DEF QuotaInv, QuotaSlack
<1>6. Owned(u) \subseteq used /\ Inserting(u) \subseteq Requests
  BY DEF Types, Owned, Inserting
<1>7. IsFiniteSet(Owned(u)) /\ IsFiniteSet(Inserting(u)) /\ IsFiniteSet(Requests)
  BY <1>6, FS_Subset, RegistryAssumption DEF QuotaInv
<1>8. /\ Cardinality(Owned(u)) \in Nat /\ Cardinality(Inserting(u)) \in Nat
      /\ Cardinality(Requests) \in Nat /\ MaxBots \in Nat
  BY <1>7, FS_CardinalityType, RegistryAssumption
<1>9. Cardinality(Owned(u)) + Cardinality(Inserting(u)) < MaxBots + Cardinality(Requests)
  BY DEF QuotaInv, QuotaSlack
<1>10. Inserting(u)' = Inserting(u) \ {r}
  BY <1>3, <1>4 DEF Inserting
<1>11. CASE req[r].user = u
  <2>1. Owned(u)' = Owned(u) \union {b} /\ b \notin Owned(u)
    BY <1>1, <1>2, <1>11 DEF Owned
  <2>2. r \in Inserting(u)
    BY <1>1, <1>11 DEF Inserting
  <2>3. Cardinality(Owned(u)') = Cardinality(Owned(u)) + 1
    BY <1>7, <2>1, FS_AddElement
  <2>4. Cardinality(Inserting(u)') = Cardinality(Inserting(u)) - 1
    BY <1>7, <1>10, <2>2, FS_RemoveElement
  <2>. QED  BY <1>8, <1>9, <2>3, <2>4
<1>12. CASE req[r].user # u
  <2>1. Owned(u)' = Owned(u)
    BY <1>1, <1>2, <1>12 DEF Owned
  <2>2. Inserting(u)' = Inserting(u)
    BY <1>10, <1>12 DEF Inserting
  <2>. QED  BY <1>9, <2>1, <2>2
<1>. QED  BY <1>11, <1>12

(* No other step gives a user a bot or a request to insert one.            *)
LEMMA NextQuota == RegistryInv /\ QuotaInv /\ [Next]_vars => QuotaInv'
<1>. SUFFICES ASSUME Types, QuotaInv, [Next]_vars PROVE QuotaInv'
  BY DEF RegistryInv
<1>1. ASSUME NEW r \in Requests, NEW u \in Users, BeginCreate(r, u) PROVE QuotaInv'
  BY <1>1, BeginCreateQuota
<1>2. ASSUME NEW r \in Requests, NEW u \in Users, NEW b \in used,
             BeginPublish(r, u, b) \/ BeginDelete(r, u, b)
      PROVE  QuotaInv'
  <2>1. used' = used /\ bots' = bots
    BY <1>2 DEF BeginPublish, BeginDelete, tables
  <2>2. \A q \in Requests : req'[q] = req[q] \/ req'[q].step \in {"check", "unload"}
    BY <1>2 DEF BeginPublish, BeginDelete, At, Types
  <2>. QED  BY <2>1, <2>2, QuotaMonotone DEF Owned, Inserting
<1>3. ASSUME NEW r \in Requests, NEW b \in BotIds, InsertBot(r, b) PROVE QuotaInv'
  BY <1>3, InsertBotQuota
<1>4. ASSUME NEW r \in Requests, NEW ok \in BOOLEAN, InsertVersion(r, ok) PROVE QuotaInv'
  <2>1. used' = used /\ bots' = bots
    BY <1>4 DEF InsertVersion
  <2>2. \A q \in Requests : req'[q] = req[q] \/ req'[q].step = "idle"
    BY <1>4, FinishFacts DEF InsertVersion
  <2>. QED  BY <2>1, <2>2, QuotaMonotone DEF Owned, Inserting
<1>5. ASSUME NEW r \in Requests, CheckPasses(r) \/ Unload(r) PROVE QuotaInv'
  <2>1. used' = used /\ bots' = bots
    BY <1>5 DEF CheckPasses, Unload, tables
  <2>2. "publish" \in Steps /\ "select" \in Steps /\ req[r].step # "idle"
    BY <1>5 DEF Steps, CheckPasses, Unload
  <2>3. \A q \in Requests : req'[q] = req[q] \/ req'[q].step \in {"publish", "select"}
    BY <1>5, <2>2, GotoFacts DEF CheckPasses, Unload
  <2>. QED  BY <2>1, <2>3, QuotaMonotone DEF Owned, Inserting
<1>6. ASSUME NEW r \in Requests, CompileRaises(r) \/ CheckFails(r) \/ Load(r) \/ UnloadFails(r)
      PROVE  QuotaInv'
  <2>1. used' = used /\ bots' = bots
    BY <1>6 DEF CompileRaises, CheckFails, Load, UnloadFails, tables
  <2>2. \A q \in Requests : req'[q] = req[q] \/ req'[q].step = "idle"
    BY <1>6, FinishFacts DEF CompileRaises, CheckFails, Load, UnloadFails
  <2>. QED  BY <2>1, <2>2, QuotaMonotone DEF Owned, Inserting
<1>7. ASSUME NEW r \in Requests, CommitPublish(r) PROVE QuotaInv'
  <2>1. used' = used
    BY <1>7 DEF CommitPublish
  <2>2. DOMAIN bots' = DOMAIN bots /\ \A b \in DOMAIN bots : bots'[b].owner = bots[b].owner
    BY <1>7 DEF CommitPublish, Types
  <2>3. "load" \in Steps /\ req[r].step # "idle"
    BY <1>7 DEF Steps, CommitPublish
  <2>4. \A q \in Requests : req'[q] = req[q] \/ req'[q].step = "load"
    BY <1>7, <2>3, GotoFacts DEF CommitPublish
  <2>. QED  BY <2>1, <2>2, <2>4, QuotaMonotone DEF Owned, Inserting
<1>8. ASSUME NEW r \in Requests, SelectVersions(r) PROVE QuotaInv'
  <2>1. used' = used /\ bots' = bots
    BY <1>8 DEF SelectVersions, tables
  <2>2. req[r] \in Calls
    BY <1>8, CallOrIdle DEF SelectVersions
  <2>3. \A q \in Requests : req'[q] = req[q] \/ req'[q].step = "delete"
    BY <1>8, <2>2 DEF SelectVersions, Types, Calls
  <2>. QED  BY <2>1, <2>3, QuotaMonotone DEF Owned, Inserting
<1>9. ASSUME NEW r \in Requests, Delete(r) PROVE QuotaInv'
  <2>1. used' = used
    BY <1>9 DEF Delete
  <2>2. bots' = bots \/ bots' = Remove(bots, req[r].bot)
    BY <1>9 DEF Delete
  <2>3. DOMAIN bots' \subseteq DOMAIN bots /\ \A b \in DOMAIN bots' : bots'[b] = bots[b]
    BY <2>2 DEF Remove, Restrict
  <2>4. \A q \in Requests : req'[q] = req[q] \/ req'[q].step = "idle"
    BY <1>9, FinishFacts DEF Delete
  <2>. QED  BY <2>1, <2>3, <2>4, QuotaMonotone DEF Owned, Inserting
<1>10. CASE EngineDies \/ EngineRestarts \/ Reboot \/ UNCHANGED vars
  <2>1. used' = used /\ bots' = bots
    BY <1>10 DEF EngineDies, EngineRestarts, Reboot, vars, tables
  <2>2. \A q \in Requests : req'[q] = req[q] \/ req'[q].step = "idle"
    BY <1>10 DEF EngineDies, EngineRestarts, Reboot, vars, Idle
  <2>. QED  BY <2>1, <2>2, QuotaMonotone DEF Owned, Inserting
<1>. QED
  BY <1>1, <1>2, <1>3, <1>4, <1>5, <1>6, <1>7, <1>8, <1>9, <1>10 DEF Next, GoOn

(* The quota is passed by no more than the requests that were under way.   *)
THEOREM QuotaIsNearlyKept == Spec => []QuotaSlack
<1>1. Init => QuotaInv
  <2>. SUFFICES ASSUME Init PROVE QuotaInv
    OBVIOUS
  <2>1. \A u \in Users : Owned(u) = {} /\ Inserting(u) = {}
    BY DEF Init, Owned, Inserting, Idle
  <2>2. IsFiniteSet({}) /\ Cardinality({}) = 0
    BY FS_EmptySet
  <2>3. Cardinality(Requests) \in Nat /\ MaxBots \in Nat \ {0}
    BY FS_CardinalityType, RegistryAssumption
  <2>4. IsFiniteSet(used)
    BY <2>2 DEF Init
  <2>5. ASSUME NEW u \in Users
        PROVE  Cardinality(Owned(u)) + Cardinality(Inserting(u)) < MaxBots + Cardinality(Requests)
    <3>1. Cardinality(Owned(u)) = 0 /\ Cardinality(Inserting(u)) = 0
      BY <2>1, <2>2
    <3>. QED  BY <2>3, <3>1
  <2>. QED  BY <2>4, <2>5 DEF QuotaInv, QuotaSlack
<1>2. QuotaInv => QuotaSlack
  BY DEF QuotaInv
<1>. QED  BY <1>1, <1>2, AlwaysRegistryInv, NextQuota, PTL DEF Spec

(* Every lock of a row is held by a request that publishes that bot and    *)
(* is before its commit: at "check" and at "publish", and nobody waits     *)
(* there.                                                                  *)
LocksAreHeld ==
  \A b \in BotIds : lockedBy[b] # NoRequest =>
    /\ lockedBy[b] \in Requests
    /\ req[lockedBy[b]].step \in {"check", "publish"}
    /\ req[lockedBy[b]].bot = b

(* Locks that stay or are given back, while their holders stay at a step   *)
(* that holds one.                                                         *)
LEMMA HoldersStay ==
  ASSUME Types, LocksAreHeld,
         \A b \in BotIds : lockedBy'[b] \in {lockedBy[b], NoRequest},
         \A b \in BotIds : lockedBy'[b] # NoRequest =>
           LET h == lockedBy[b] IN
             req'[h] = req[h] \/ (req'[h].step = "publish" /\ req'[h].bot = req[h].bot)
  PROVE  LocksAreHeld'
<1>. SUFFICES ASSUME NEW b \in BotIds, lockedBy'[b] # NoRequest
              PROVE  /\ lockedBy'[b] \in Requests
                     /\ req'[lockedBy'[b]].step \in {"check", "publish"}
                     /\ req'[lockedBy'[b]].bot = b
  BY DEF LocksAreHeld
<1>1. lockedBy'[b] = lockedBy[b] /\ lockedBy[b] # NoRequest
  OBVIOUS
<1>2. PICK h \in Requests : h = lockedBy[b]
  BY <1>1 DEF LocksAreHeld
<1>3. req[h].step \in {"check", "publish"} /\ req[h].bot = b
  BY <1>1, <1>2 DEF LocksAreHeld
<1>4. req'[h] = req[h] \/ (req'[h].step = "publish" /\ req'[h].bot = req[h].bot)
  BY <1>2
<1>. QED  BY <1>1, <1>2, <1>3, <1>4

(* A step of a request that holds no lock.                                 *)
LEMMA OthersHold ==
  ASSUME Types, LocksAreHeld, lockedBy' = lockedBy,
         NEW r \in Requests, req[r].step \notin {"check", "publish"},
         \A q \in Requests : q # r => req'[q] = req[q]
  PROVE  LocksAreHeld'
<1>1. \A b \in BotIds : lockedBy'[b] \in {lockedBy[b], NoRequest}
  OBVIOUS
<1>2. ASSUME NEW b \in BotIds, lockedBy'[b] # NoRequest
      PROVE  req'[lockedBy[b]] = req[lockedBy[b]]
  BY <1>2 DEF LocksAreHeld
<1>. QED  BY <1>1, <1>2, HoldersStay

(* A request that holds a lock gives it back as it leaves.                 *)
LEMMA HolderLeaves ==
  ASSUME Types, LocksAreHeld, NEW r \in Requests, req[r].bot \in BotIds,
         Unlock(req[r].bot), \A q \in Requests : q # r => req'[q] = req[q]
  PROVE  LocksAreHeld'
<1>1. /\ lockedBy'[req[r].bot] = NoRequest
      /\ \A b \in BotIds : b # req[r].bot => lockedBy'[b] = lockedBy[b]
  BY DEF Types, Unlock
<1>2. \A b \in BotIds : lockedBy'[b] \in {lockedBy[b], NoRequest}
  BY <1>1
<1>3. ASSUME NEW b \in BotIds, lockedBy'[b] # NoRequest
      PROVE  req'[lockedBy[b]] = req[lockedBy[b]]
  <2>1. b # req[r].bot /\ lockedBy[b] # NoRequest
    BY <1>1, <1>3
  <2>2. lockedBy[b] \in Requests /\ lockedBy[b] # r
    BY <2>1 DEF LocksAreHeld
  <2>. QED  BY <2>2
<1>. QED  BY <1>2, <1>3, HoldersStay

LEMMA NextHolds == RegistryInv /\ LocksAreHeld /\ [Next]_vars => LocksAreHeld'
<1>. SUFFICES ASSUME Types, Locks, LocksAreHeld, [Next]_vars PROVE LocksAreHeld'
  BY DEF RegistryInv
<1>1. ASSUME NEW r \in Requests, NEW u \in Users, BeginCreate(r, u) PROVE LocksAreHeld'
  <2>1. req[r].step = "idle" /\ lockedBy' = lockedBy
    BY <1>1 DEF BeginCreate, Serve, tables
  <2>2. \A q \in Requests : q # r => req'[q] = req[q]
    BY <1>1 DEF BeginCreate, Types
  <2>. QED  BY <2>1, <2>2, OthersHold
<1>2. ASSUME NEW r \in Requests, NEW u \in Users, NEW b \in used, BeginDelete(r, u, b)
      PROVE  LocksAreHeld'
  <2>1. req[r].step = "idle" /\ lockedBy' = lockedBy
    BY <1>2 DEF BeginDelete, Serve, tables
  <2>2. \A q \in Requests : q # r => req'[q] = req[q]
    BY <1>2 DEF BeginDelete, Types
  <2>. QED  BY <2>1, <2>2, OthersHold
<1>3. ASSUME NEW r \in Requests, NEW u \in Users, NEW b \in used, BeginPublish(r, u, b)
      PROVE  LocksAreHeld'
  <2>1. req[r].step = "idle" /\ b \in BotIds
    BY <1>3 DEF BeginPublish, Serve, Types
  <2>2. CASE UNCHANGED <<req, lockedBy>>
    BY <2>2 DEF LocksAreHeld
  <2>3. CASE /\ req' = [req EXCEPT ![r] = At("check", u, b, FALSE)]
             /\ lockedBy' = [lockedBy EXCEPT ![b] = r]
    <3>1. req'[r].step = "check" /\ req'[r].bot = b
      BY <2>3 DEF Types, At
    <3>2. \A q \in Requests : q # r => req'[q] = req[q]
      BY <2>3 DEF Types
    <3>3. lockedBy'[b] = r /\ \A x \in BotIds : x # b => lockedBy'[x] = lockedBy[x]
      BY <2>1, <2>3 DEF Types
    <3>4. ASSUME NEW x \in BotIds, x # b, lockedBy'[x] # NoRequest
          PROVE  /\ lockedBy'[x] \in Requests
                 /\ req'[lockedBy'[x]].step \in {"check", "publish"}
                 /\ req'[lockedBy'[x]].bot = x
      <4>1. /\ lockedBy[x] \in Requests /\ req[lockedBy[x]].step \in {"check", "publish"}
            /\ req[lockedBy[x]].bot = x
        BY <3>3, <3>4 DEF LocksAreHeld
      <4>2. lockedBy[x] # r
        BY <2>1, <4>1
      <4>. QED  BY <3>2, <3>3, <3>4, <4>1, <4>2
    <3>. QED  BY <3>1, <3>3, <3>4 DEF LocksAreHeld
  <2>. QED  BY <1>3, <2>2, <2>3 DEF BeginPublish
<1>4. ASSUME NEW r \in Requests, NEW b \in BotIds, InsertBot(r, b) PROVE LocksAreHeld'
  <2>1. req[r].step = "insert" /\ lockedBy' = lockedBy
    BY <1>4 DEF InsertBot
  <2>2. \A q \in Requests : q # r => req'[q] = req[q]
    BY <1>4 DEF InsertBot, Types
  <2>. QED  BY <2>1, <2>2, OthersHold
<1>5. ASSUME NEW r \in Requests, \/ \E ok \in BOOLEAN : InsertVersion(r, ok)
                                 \/ CompileRaises(r) \/ Load(r) \/ UnloadFails(r) \/ Delete(r)
      PROVE  LocksAreHeld'
  <2>1. req[r].step \notin {"check", "publish"} /\ lockedBy' = lockedBy /\ Finish(r)
    BY <1>5 DEF InsertVersion, CompileRaises, Load, UnloadFails, Delete, tables
  <2>. QED  BY <2>1, FinishFacts, OthersHold
<1>6. ASSUME NEW r \in Requests, Unload(r) \/ SelectVersions(r) PROVE LocksAreHeld'
  <2>1. req[r].step \notin {"check", "publish"} /\ lockedBy' = lockedBy
    BY <1>6 DEF Unload, SelectVersions, tables
  <2>2. \A q \in Requests : q # r => req'[q] = req[q]
    BY <1>6 DEF Unload, SelectVersions, Goto, Types
  <2>. QED  BY <2>1, <2>2, OthersHold
<1>7. ASSUME NEW r \in Requests, CheckPasses(r) PROVE LocksAreHeld'
  <2>1. "publish" \in Steps /\ req[r].step # "idle" /\ lockedBy' = lockedBy
    BY <1>7 DEF CheckPasses, Steps, tables
  <2>2. /\ req'[r].step = "publish" /\ req'[r].bot = req[r].bot
        /\ \A q \in Requests : q # r => req'[q] = req[q]
    BY <1>7, <2>1, GotoFacts DEF CheckPasses
  <2>3. ASSUME NEW b \in BotIds, lockedBy'[b] # NoRequest
        PROVE  LET h == lockedBy[b] IN
                 req'[h] = req[h] \/ (req'[h].step = "publish" /\ req'[h].bot = req[h].bot)
    <3>1. lockedBy[b] \in Requests
      BY <2>1, <2>3 DEF LocksAreHeld
    <3>. QED  BY <2>2, <3>1
  <2>. QED  BY <2>1, <2>3, HoldersStay
<1>8. ASSUME NEW r \in Requests, CheckFails(r) \/ CommitPublish(r) PROVE LocksAreHeld'
  <2>1. req[r].step \in {"check", "publish"} /\ Unlock(req[r].bot)
    BY <1>8 DEF CheckFails, CommitPublish
  <2>2. req[r].bot \in BotIds
    BY <2>1 DEF Types
  <2>3. \A q \in Requests : q # r => req'[q] = req[q]
    BY <1>8 DEF CheckFails, CommitPublish, Goto, Finish, Types
  <2>. QED  BY <2>1, <2>2, <2>3, HolderLeaves
<1>9. CASE EngineDies \/ EngineRestarts \/ UNCHANGED vars
  <2>1. lockedBy' = lockedBy /\ req' = req
    BY <1>9 DEF EngineDies, EngineRestarts, vars, tables
  <2>. QED  BY <2>1 DEF LocksAreHeld
<1>10. CASE Reboot
  BY <1>10 DEF Reboot, LocksAreHeld
<1>. QED
  BY <1>1, <1>2, <1>3, <1>4, <1>5, <1>6, <1>7, <1>8, <1>9, <1>10 DEF Next, GoOn

(* No deadlock: a request that waits for the lock of a row, to insert a    *)
(* version, to delete or to publish, waits for one that waits for nobody.  *)
(* It is what RequestsEnd needs beside fairness.                           *)
THEOREM NobodyWaitsForAWaiter == Spec => []LocksAreHeld
<1>1. Init => LocksAreHeld
  BY DEF Init, LocksAreHeld
<1>. QED  BY <1>1, AlwaysRegistryInv, NextHolds, PTL DEF Spec

-----------------------------------------------------------------------------
(* The awaits a request has left before it ends.                           *)
Left(step) ==
  CASE step \in {"check", "unload"} -> 3
    [] step \in {"insert", "publish", "select"} -> 2
    [] step \in {"compile", "load", "delete"} -> 1
    [] OTHER -> 0

(* What a step does to a request: it leaves it alone, begins or ends it,   *)
(* or brings it nearer to its end.                                         *)
RequestsGoForward ==
  \A r \in Requests : \/ req'[r] = req[r]
                      \/ req[r] = Idle
                      \/ req'[r] = Idle
                      \/ Left(req'[r].step) < Left(req[r].step)

LEMMA NextGoesForward ==
  ASSUME Types, Next
  PROVE  RequestsGoForward
<1>0. /\ Left("check") = 3 /\ Left("publish") = 2 /\ Left("load") = 1
      /\ Left("unload") = 3 /\ Left("select") = 2 /\ Left("delete") = 1
      /\ Left("insert") = 2 /\ Left("compile") = 1
  BY DEF Left
<1>1. ASSUME NEW r \in Requests, NEW u \in Users,
             BeginCreate(r, u) \/ \E b \in used : BeginPublish(r, u, b) \/ BeginDelete(r, u, b)
      PROVE  RequestsGoForward
  <2>1. req[r] = Idle
    BY <1>1, CallOrIdle DEF BeginCreate, BeginPublish, BeginDelete, Serve
  <2>2. \A q \in Requests : q # r => req'[q] = req[q]
    BY <1>1 DEF BeginCreate, BeginPublish, BeginDelete, Types
  <2>. QED  BY <2>1, <2>2 DEF RequestsGoForward
<1>2. ASSUME NEW r \in Requests, Finish(r) PROVE RequestsGoForward
  BY <1>2, FinishFacts DEF RequestsGoForward
<1>3. ASSUME NEW r \in Requests, NEW s, req[r].step # "idle", req' = [req EXCEPT ![r] = s],
             Left(s.step) < Left(req[r].step)
      PROVE  RequestsGoForward
  BY <1>3 DEF RequestsGoForward, Types
<1>4. ASSUME NEW r \in Requests, NEW b \in BotIds, InsertBot(r, b) PROVE RequestsGoForward
  <2>1. req[r] \in Calls /\ req[r].step = "insert"
    BY <1>4, CallOrIdle DEF InsertBot
  <2>. DEFINE s == [req[r] EXCEPT !.step = "compile", !.bot = b]
  <2>2. s.step = "compile"
    BY <2>1 DEF Calls
  <2>3. req' = [req EXCEPT ![r] = s]
    BY <1>4 DEF InsertBot, Types
  <2>. HIDE DEF s
  <2>4. Left(s.step) < Left(req[r].step)
    BY <1>0, <2>1, <2>2
  <2>. QED  BY <1>3, <2>1, <2>3, <2>4
<1>5. ASSUME NEW r \in Requests, SelectVersions(r) PROVE RequestsGoForward
  <2>1. req[r] \in Calls /\ req[r].step = "select"
    BY <1>5, CallOrIdle DEF SelectVersions
  <2>. DEFINE s == [req[r] EXCEPT !.step = "delete", !.saw = req[r].bot \in DOMAIN versions]
  <2>2. s.step = "delete"
    BY <2>1 DEF Calls
  <2>3. req' = [req EXCEPT ![r] = s]
    BY <1>5 DEF SelectVersions, Types
  <2>. HIDE DEF s
  <2>4. Left(s.step) < Left(req[r].step)
    BY <1>0, <2>1, <2>2
  <2>. QED  BY <1>3, <2>1, <2>3, <2>4
<1>6. ASSUME NEW r \in Requests, NEW to \in Steps, Goto(r, to),
             req[r].step # "idle", Left(to) < Left(req[r].step)
      PROVE  RequestsGoForward
  BY <1>6, GotoFacts DEF RequestsGoForward
<1>7. ASSUME NEW r \in Requests, CheckPasses(r) \/ CommitPublish(r) \/ Unload(r)
      PROVE  RequestsGoForward
  <2>1. {"publish", "load", "select"} \subseteq Steps
    BY DEF Steps
  <2>2. \/ req[r].step = "check" /\ Goto(r, "publish")
        \/ req[r].step = "publish" /\ Goto(r, "load")
        \/ req[r].step = "unload" /\ Goto(r, "select")
    BY <1>7 DEF CheckPasses, CommitPublish, Unload
  <2>. QED  BY <1>0, <1>6, <2>1, <2>2
<1>8. ASSUME NEW r \in Requests, \/ \E ok \in BOOLEAN : InsertVersion(r, ok)
                                 \/ CompileRaises(r) \/ CheckFails(r) \/ Load(r)
                                 \/ UnloadFails(r) \/ Delete(r)
      PROVE  RequestsGoForward
  <2>1. Finish(r)
    BY <1>8 DEF InsertVersion, CompileRaises, CheckFails, Load, UnloadFails, Delete
  <2>. QED  BY <1>2, <2>1
<1>9. CASE EngineDies \/ EngineRestarts \/ Reboot
  BY <1>9 DEF EngineDies, EngineRestarts, Reboot, RequestsGoForward
<1>. QED
  BY <1>1, <1>4, <1>5, <1>7, <1>8, <1>9 DEF Next, GoOn

(* A request takes at most four steps, and none of them twice: together    *)
(* with LocksAreHeld, what RequestsEnd needs beside fairness.              *)
THEOREM RequestsAreShort == Spec => [][RequestsGoForward]_vars
<1>1. RegistryInv /\ [Next]_vars => [RequestsGoForward]_vars
  BY NextGoesForward DEF RegistryInv
<1>. QED  BY <1>1, AlwaysRegistryInv, PTL DEF Spec
=============================================================================
