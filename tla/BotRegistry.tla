---------------------------- MODULE BotRegistry ----------------------------
(***************************************************************************)
(* The bots of the backend (bots/router.py, bots/service.py): the rows of  *)
(* the database, the requests that create, publish and delete them, and    *)
(* the bots the engine was told to load.                                   *)
(*                                                                         *)
(* A request is a coroutine: it interleaves with the others at each of its *)
(* awaits, a query or a commit takes effect in the database before the     *)
(* coroutine goes on.  The database is the PostgreSQL of the deployment:   *)
(* a statement sees what was committed before it, SELECT ... FOR UPDATE    *)
(* locks the row until the transaction ends, foreign keys are enforced.    *)
(***************************************************************************)
EXTENDS Naturals, FiniteSets, Functions

CONSTANTS
  Users, BotIds,   \* ids are uuids: each is given to one bot
  Requests,        \* requests being served at the same time
  NoRequest,
  MaxBots,         \* MAX_BOTS_PER_USER
  MaxServed,       \* bound: requests served
  MaxCrashes,      \* bound: crashes of the engine process
  MaxReboots       \* bound: restarts of the backend

ASSUME RegistryAssumption ==
  /\ NoRequest \notin Requests /\ IsFiniteSet(Requests)
  /\ MaxBots \in Nat \ {0}
  /\ MaxServed \in Nat /\ MaxCrashes \in Nat /\ MaxReboots \in Nat

VARIABLES
  bots,      \* table bots: id -> [owner, published]
  versions,  \* table bot_versions: bot id -> compile_ok of its version
  lockedBy,  \* the request whose transaction holds the row's lock
  used,      \* ids given out
  req,       \* the requests
  engineUp,  \* the engine is running
  loaded,    \* the bots its load_bot and unload_bot commands add up to
  served, crashes, reboots,
  cutOff     \* history: bots whose creation ended between its two commits

tables == <<bots, versions, lockedBy, used>>
engine == <<engineUp, loaded>>
counts == <<served, crashes, reboots, cutOff>>
vars == <<tables, req, engine, counts>>

Idle == [step |-> "idle"]
At(step, user, bot, saw) == [step |-> step, user |-> user, bot |-> bot, saw |-> saw]

Remove(f, x) == Restrict(f, DOMAIN f \ {x})

Owned(u) == {b \in DOMAIN bots : bots[b].owner = u}

\* Whoever goes on with request r, its bot is req[r].bot.
Goto(r, step) == req' = [req EXCEPT ![r].step = step]
Finish(r) == req' = [req EXCEPT ![r] = Idle]

Unlock(b) == lockedBy' = [lockedBy EXCEPT ![b] = NoRequest]

Init ==
  /\ bots = << >>
  /\ versions = << >>
  /\ lockedBy = [b \in BotIds |-> NoRequest]
  /\ used = {}
  /\ req = [r \in Requests |-> Idle]
  /\ engineUp = TRUE
  /\ loaded = {}
  /\ served = 0
  /\ crashes = 0
  /\ reboots = 0
  /\ cutOff = {}

\* The bots that are inserted and have no version yet.
Creating == {req[r].bot : r \in {q \in Requests : req[q].step = "compile"}}

Serve(r) ==
  /\ req[r].step = "idle"
  /\ served < MaxServed
  /\ served' = served + 1
  /\ UNCHANGED <<crashes, reboots, cutOff>>

-----------------------------------------------------------------------------
(* POST /bots                                                              *)

\* Mutant: off by one.
UpToQuota(u) == Cardinality(Owned(u)) <= MaxBots
UnderQuota(u) == Cardinality(Owned(u)) < MaxBots

(* list_user_bots, and the quota: 429 if it is reached.                    *)
BeginCreate(r, u) ==
  /\ Serve(r)
  /\ req' = IF UnderQuota(u)
            THEN [req EXCEPT ![r] = At("insert", u, NoRequest, FALSE)] ELSE req
  /\ UNCHANGED <<tables, engine>>

(* create_bot commits the bot ...                                          *)
InsertBot(r, b) ==
  /\ req[r].step = "insert"
  /\ b \notin used
  /\ used' = used \union {b}
  /\ bots' = [x \in DOMAIN bots \union {b} |->
                IF x = b THEN [owner |-> req[r].user, published |-> FALSE] ELSE bots[x]]
  /\ req' = [req EXCEPT ![r].step = "compile", ![r].bot = b]
  /\ UNCHANGED <<versions, lockedBy, engine, counts>>

(* ... and then its version, whether the source compiled or not.  The      *)
(* foreign key makes it wait for the lock of the bot's row, and fail (500) *)
(* if the bot was deleted meanwhile.                                       *)
\* Mutant: only versions that compile are stored.
InsertIfCompiled(r, ok) ==
  /\ req[r].step = "compile"
  /\ lockedBy[req[r].bot] = NoRequest
  /\ versions' = IF req[r].bot \in DOMAIN bots /\ ok
                 THEN [x \in DOMAIN versions \union {req[r].bot} |->
                         IF x = req[r].bot THEN ok ELSE versions[x]]
                 ELSE versions
  /\ Finish(r)
  /\ UNCHANGED <<bots, lockedBy, used, engine, counts>>
InsertVersion(r, ok) ==
  /\ req[r].step = "compile"
  /\ lockedBy[req[r].bot] = NoRequest
  /\ versions' = IF req[r].bot \in DOMAIN bots
                 THEN [x \in DOMAIN versions \union {req[r].bot} |->
                         IF x = req[r].bot THEN ok ELSE versions[x]]
                 ELSE versions
  /\ Finish(r)
  /\ UNCHANGED <<bots, lockedBy, used, engine, counts>>

(* Between the two, compile_source may raise what compile() does not       *)
(* catch, or the second commit fails: 500, and the bot has no version.     *)
CompileRaises(r) ==
  /\ req[r].step = "compile"
  /\ cutOff' = cutOff \union {req[r].bot}
  /\ Finish(r)
  /\ UNCHANGED <<tables, engine, served, crashes, reboots>>

-----------------------------------------------------------------------------
(* POST /bots/{id}/publish                                                 *)

(* The row is locked: 404 if there is none, 403 if it is another user's.   *)
BeginPublish(r, u, b) ==
  /\ Serve(r)
  /\ lockedBy[b] = NoRequest
  /\ IF b \in Owned(u)
     THEN /\ req' = [req EXCEPT ![r] = At("check", u, b, FALSE)]
          /\ lockedBy' = [lockedBy EXCEPT ![b] = r]
     ELSE UNCHANGED <<req, lockedBy>>
  /\ UNCHANGED <<bots, versions, used, engine>>

Compiles(b) == b \in DOMAIN versions /\ versions[b]

\* get_latest_version, and 400 unless it compiles.
\* Mutant: any version will do.
HasVersion(b) == b \in DOMAIN versions
MayPublish(b) == Compiles(b)

CheckPasses(r) ==
  /\ req[r].step = "check"
  /\ MayPublish(req[r].bot)
  /\ Goto(r, "publish")
  /\ UNCHANGED <<tables, engine, counts>>

(* 400: the session is closed, which ends the transaction.                 *)
\* Mutant: the transaction is left open.
RefuseAndKeepLock(r) ==
  /\ req[r].step = "check"
  /\ ~MayPublish(req[r].bot)
  /\ Finish(r)
  /\ UNCHANGED <<tables, engine, counts>>
CheckFails(r) ==
  /\ req[r].step = "check"
  /\ ~MayPublish(req[r].bot)
  /\ Unlock(req[r].bot)
  /\ Finish(r)
  /\ UNCHANGED <<bots, versions, used, engine, counts>>

(* publish_bot commits.                                                    *)
CommitPublish(r) ==
  /\ req[r].step = "publish"
  /\ bots' = [bots EXCEPT ![req[r].bot].published = TRUE]
  /\ Unlock(req[r].bot)
  /\ Goto(r, "load")
  /\ UNCHANGED <<versions, used, engine, counts>>

(* engine.load_bot; it raises if the engine is not running: 500.           *)
Load(r) ==
  /\ req[r].step = "load"
  /\ loaded' = IF engineUp THEN loaded \union {req[r].bot} ELSE loaded
  /\ Finish(r)
  /\ UNCHANGED <<tables, engineUp, counts>>

-----------------------------------------------------------------------------
(* DELETE /bots/{id}                                                       *)

(* The bot is read: saw is its published flag at that time.                *)
BeginDelete(r, u, b) ==
  /\ Serve(r)
  /\ req' = IF b \in Owned(u)
            THEN [req EXCEPT ![r] = At("unload", u, b, bots[b].published)] ELSE req
  /\ UNCHANGED <<tables, engine>>

(* engine.unload_bot, if it was published.                                 *)
Unload(r) ==
  /\ req[r].step = "unload"
  /\ req[r].saw => engineUp
  /\ loaded' = IF req[r].saw THEN loaded \ {req[r].bot} ELSE loaded
  /\ Goto(r, "select")
  /\ UNCHANGED <<tables, engineUp, counts>>

(* It raises if the engine is not running: 500, the bot stays.             *)
UnloadFails(r) ==
  /\ req[r].step = "unload"
  /\ req[r].saw
  /\ ~engineUp
  /\ Finish(r)
  /\ UNCHANGED <<tables, engine, counts>>

(* delete_bot selects the versions ...                                     *)
SelectVersions(r) ==
  /\ req[r].step = "select"
  /\ req' = [req EXCEPT ![r].step = "delete", ![r].saw = req[r].bot \in DOMAIN versions]
  /\ UNCHANGED <<tables, engine, counts>>

(* ... and deletes them and the bot, waiting for its lock.  A version that *)
(* was not there to be selected makes the commit fail: 500.                *)
Delete(r) ==
  LET b == req[r].bot
  IN  /\ req[r].step = "delete"
      /\ lockedBy[b] = NoRequest
      /\ IF b \in DOMAIN versions /\ ~req[r].saw
         THEN UNCHANGED <<bots, versions>>
         ELSE /\ bots' = Remove(bots, b)
              /\ versions' = Remove(versions, b)
      /\ Finish(r)
      /\ UNCHANGED <<lockedBy, used, engine, counts>>

-----------------------------------------------------------------------------
(* The engine process dies, and EngineService starts another one, which    *)
(* nobody tells of the bots.                                               *)
EngineDies ==
  /\ engineUp
  /\ crashes < MaxCrashes
  /\ crashes' = crashes + 1
  /\ engineUp' = FALSE
  /\ loaded' = {}
  /\ UNCHANGED <<tables, req, served, reboots, cutOff>>

EngineRestarts ==
  /\ ~engineUp
  /\ engineUp' = TRUE
  /\ UNCHANGED <<tables, req, loaded, counts>>

\* Mutant: the lifespan loads nothing.
RebootEmpty ==
  /\ reboots < MaxReboots
  /\ reboots' = reboots + 1
  /\ cutOff' = cutOff \union Creating
  /\ req' = [r \in Requests |-> Idle]
  /\ lockedBy' = [b \in BotIds |-> NoRequest]
  /\ engineUp' = TRUE
  /\ loaded' = {}
  /\ UNCHANGED <<bots, versions, used, served, crashes>>

(* The backend is restarted: requests are cut off, their transactions are  *)
(* rolled back, and the lifespan loads the published bots that compile.    *)
Reboot ==
  /\ reboots < MaxReboots
  /\ reboots' = reboots + 1
  /\ cutOff' = cutOff \union Creating
  /\ req' = [r \in Requests |-> Idle]
  /\ lockedBy' = [b \in BotIds |-> NoRequest]
  /\ engineUp' = TRUE
  /\ loaded' = {b \in DOMAIN bots : bots[b].published /\ Compiles(b)}
  /\ UNCHANGED <<bots, versions, used, served, crashes>>

GoOn(r) ==
  \/ \E b \in BotIds : InsertBot(r, b)
  \/ \E ok \in BOOLEAN : InsertVersion(r, ok)
  \/ CompileRaises(r)
  \/ CheckPasses(r) \/ CheckFails(r) \/ CommitPublish(r) \/ Load(r)
  \/ Unload(r) \/ UnloadFails(r) \/ SelectVersions(r) \/ Delete(r)

Next ==
  \/ \E r \in Requests, u \in Users :
       BeginCreate(r, u) \/ \E b \in used : BeginPublish(r, u, b) \/ BeginDelete(r, u, b)
  \/ \E r \in Requests : GoOn(r)
  \/ EngineDies \/ EngineRestarts \/ Reboot

Spec == Init /\ [][Next]_vars

\* The event loop runs every request, and the database answers.
FairSpec == Spec /\ \A r \in Requests : WF_vars(GoOn(r))
-----------------------------------------------------------------------------
Quiet == \A r \in Requests : req[r] = Idle

(* A published bot compiles, whatever is published and deleted at the same *)
(* time: the check and the commit are under the row's lock.                *)
PublishedCompiles == \A b \in DOMAIN bots : bots[b].published => Compiles(b)

(* The engine runs what is published: it has no bot of the registry that   *)
(* is not, and, once the requests have ended, every one that is unless it  *)
(* crashed since, however publishes and deletions of a bot crossed.        *)
EngineRunsThePublished ==
  LET published == {b \in DOMAIN bots : bots[b].published}
  IN  /\ loaded \intersect DOMAIN bots \subseteq published
      /\ Quiet /\ crashes = 0 => published \subseteq loaded

(* "Create a bot and its first version": the bots without a version are    *)
(* those whose creation is between its two commits or was cut off there,   *)
(* by an exception or by a restart.  Deletions take the version with the   *)
(* bot, however they cross with the insertion of the version.              *)
BotsHaveVersions == DOMAIN versions = DOMAIN bots \ (cutOff \union Creating)

(* Requests end, although they wait for each other's row locks.            *)
RequestsEnd == \A r \in Requests : req[r].step # "idle" ~> req[r].step = "idle"

(* The quota is tested two awaits before the insertion: each other request *)
(* under way can have passed the test too, and no more than that.          *)
Inserting(u) == {r \in Requests : req[r].step = "insert" /\ req[r].user = u}
QuotaSlack ==
  \A u \in Users : Cardinality(Owned(u)) + Cardinality(Inserting(u))
                    < MaxBots + Cardinality(Requests)

(* "Hard cap": no user has more than MAX_BOTS_PER_USER bots.               *)
Quota == \A u \in Users : Cardinality(Owned(u)) <= MaxBots

(* A publish loads the bot and a delete unloads it: once the requests have *)
(* ended the engine has exactly the published bots.                        *)
EngineAgrees ==
  Quiet /\ crashes = 0 => loaded = {b \in DOMAIN bots : bots[b].published}
=============================================================================
