-------------------------------- MODULE Web --------------------------------
(***************************************************************************)
(* The web client's world and replay pages and the archive they replay:    *)
(* one page is mounted at a time, sockets and retries of a page that was    *)
(* left go on, and the archive is written and pruned under them.           *)
(***************************************************************************)
EXTENDS ReplayPage, WorldPage

webVars == <<archiveVars, replayVars, worldPageVars>>

WebInit == ArchiveInit /\ ReplayInit /\ WorldPageInit

OnArchive == ArchiveNext /\ UNCHANGED <<replayVars, worldPageVars>>

OnReplay ==
  /\ ReplayNext \/ LeaveReplay \/ (onWorld = {} /\ OpenReplay)
  /\ UNCHANGED <<archiveVars, worldPageVars>>

OnWorldPage ==
  /\ \/ WorldPageNext \/ LeaveWorld
     \/ phase = "closed" /\ \E v \in Visits : OpenWorld(v)
  /\ UNCHANGED <<archiveVars, replayVars>>

WebNext == OnArchive \/ OnReplay \/ OnWorldPage

WebSpec == WebInit /\ [][WebNext]_webVars

\* A live interval fires, an attempt to connect or to close ends, a timeout
\* fires.  Nothing says that a socket that is open is ever closed, that a
\* request is answered, or that a page is left.
Attempt(v) ==
  /\ ws[v] \in {"connecting", "closing"}
  /\ Opened(v) \/ Closed(v)
  /\ UNCHANGED <<archiveVars, replayVars>>

FairWebSpec ==
  /\ WebSpec
  /\ WF_webVars(IntervalFires /\ UNCHANGED <<archiveVars, worldPageVars>>)
  /\ \A v \in Visits :
       /\ WF_webVars(Attempt(v))
       /\ WF_webVars(Reconnect(v) /\ UNCHANGED <<archiveVars, replayVars>>)
=============================================================================
