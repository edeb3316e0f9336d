----------------------------- MODULE WorldPage -----------------------------
(***************************************************************************)
(* The page /world: a socket to the stream that is opened again after it   *)
(* closes, with a delay that doubles, a bounded number of times.  Leaving   *)
(* the page closes the socket, whose onclose connects again: the closures   *)
(* of a page go on after it, so every visit has state of its own.           *)
(***************************************************************************)
EXTENDS Naturals

CONSTANTS
  Visits,        \* the visits to the page
  MaxRetries,    \* 10
  FirstDelay,    \* 1000 ms
  MaxDelay       \* 30000 ms

ASSUME WorldPageAssumption ==
  MaxRetries \in Nat /\ FirstDelay \in Nat \ {0} /\ MaxDelay \in Nat

VARIABLES
  ws,                \* per visit: "none" before it, "connecting", "open",
                     \* "closing", "closed"
  timer,             \* a setTimeout of connectWS is pending
  retryDelay,
  retryCount,
  connectionFailed,
  onWorld            \* the visit whose page is mounted, as a set

worldPageVars == <<ws, timer, retryDelay, retryCount, connectionFailed, onWorld>>

WorldPageInit ==
  /\ ws = [v \in Visits |-> "none"]
  /\ timer = [v \in Visits |-> FALSE]
  /\ retryDelay = [v \in Visits |-> FirstDelay]
  /\ retryCount = [v \in Visits |-> 0]
  /\ connectionFailed = [v \in Visits |-> FALSE]
  /\ onWorld = {}

\* onMount
OpenWorld(v) ==
  /\ onWorld = {} /\ ws[v] = "none"
  /\ onWorld' = {v}
  /\ ws' = [ws EXCEPT ![v] = "connecting"]
  /\ UNCHANGED <<timer, retryDelay, retryCount, connectionFailed>>

\* Mutant: a connection that opened starts the count again.
OpenedAndForgiven(v) ==
  /\ ws[v] = "connecting"
  /\ ws' = [ws EXCEPT ![v] = "open"]
  /\ retryDelay' = [retryDelay EXCEPT ![v] = FirstDelay]
  /\ retryCount' = [retryCount EXCEPT ![v] = 0]
  /\ UNCHANGED <<timer, connectionFailed, onWorld>>

\* ws.onopen
Opened(v) ==
  /\ ws[v] = "connecting"
  /\ ws' = [ws EXCEPT ![v] = "open"]
  /\ retryDelay' = [retryDelay EXCEPT ![v] = FirstDelay]
  /\ UNCHANGED <<timer, retryCount, connectionFailed, onWorld>>

Twice(d) == IF d * 2 < MaxDelay THEN d * 2 ELSE MaxDelay

\* Mutant: a page gives up without connectionFailed.
ClosedForGood(v) ==
  /\ ws[v] \in {"connecting", "open", "closing"}
  /\ ws' = [ws EXCEPT ![v] = "closed"]
  /\ IF retryCount[v] < MaxRetries
       THEN /\ timer' = [timer EXCEPT ![v] = TRUE]
            /\ retryDelay' = [retryDelay EXCEPT ![v] = Twice(@)]
            /\ retryCount' = [retryCount EXCEPT ![v] = @ + 1]
       ELSE UNCHANGED <<timer, retryDelay, retryCount>>
  /\ UNCHANGED <<connectionFailed, onWorld>>

\* ws.onclose: the server or the network closed it, an attempt failed, or
\* the close the page asked for is done.
Closed(v) ==
  /\ ws[v] \in {"connecting", "open", "closing"}
  /\ ws' = [ws EXCEPT ![v] = "closed"]
  /\ \/ /\ retryCount[v] < MaxRetries
        /\ timer' = [timer EXCEPT ![v] = TRUE]
        /\ retryDelay' = [retryDelay EXCEPT ![v] = Twice(@)]
        /\ retryCount' = [retryCount EXCEPT ![v] = @ + 1]
        /\ UNCHANGED connectionFailed
     \/ /\ retryCount[v] >= MaxRetries
        /\ connectionFailed' = [connectionFailed EXCEPT ![v] = TRUE]
        /\ UNCHANGED <<timer, retryDelay, retryCount>>
  /\ UNCHANGED onWorld

\* connectWS from its timer.
Reconnect(v) ==
  /\ timer[v]
  /\ timer' = [timer EXCEPT ![v] = FALSE]
  /\ ws' = [ws EXCEPT ![v] = "connecting"]
  /\ UNCHANGED <<retryDelay, retryCount, connectionFailed, onWorld>>

\* onDestroy: ws.close() on a socket that is closed has no effect.
LeaveWorld ==
  /\ onWorld # {} /\ onWorld' = {}
  /\ ws' = [v \in Visits |->
             IF v \in onWorld /\ ws[v] \in {"connecting", "open"} THEN "closing"
                                                                  ELSE ws[v]]
  /\ UNCHANGED <<timer, retryDelay, retryCount, connectionFailed>>

WorldPageNext == \E v \in Visits : Opened(v) \/ Closed(v) \/ Reconnect(v)

(***************************************************************************)
(* Properties.                                                             *)
(***************************************************************************)

Live(v) == ws[v] \in {"connecting", "open", "closing"}
Settled(v) == ws[v] \in {"none", "open"} \/ connectionFailed[v]

\* A visit that began has a socket, or a retry that is coming, or has set
\* connectionFailed: exactly one of them.  It never waits for nothing, and
\* never has two sockets.  What it draws then: the loss when it has no snapshot.
OneAttempt ==
  \A v \in Visits :
    ws[v] # "none" =>
      \E one \in {"socket", "retry", "lost"} :
        /\ Live(v) <=> one = "socket"
        /\ timer[v] <=> one = "retry"
        /\ connectionFailed[v] <=> one = "lost"

\* However often the stream is closed, the retries of every visit end: it
\* keeps a connection, or gives up.
Settles == \A v \in Visits : <>[]Settled(v)
=============================================================================
