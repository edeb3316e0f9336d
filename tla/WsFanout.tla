------------------------------ MODULE WsFanout ------------------------------
(***************************************************************************)
(* The fan-out of snapshots to browsers (ws/router.py): broadcast puts a   *)
(* snapshot on the queue of every subscriber, world_stream runs once for   *)
(* each connection and interleaves with the others where it awaits.        *)
(* Snapshots are numbered in the order of the broadcasts.                  *)
(***************************************************************************)
EXTENDS Naturals, Sequences, FiniteSets, SequencesExt

CONSTANTS
  Clients,        \* connections; each runs world_stream once
  MaxConnections, \* MAX_WS_CONNECTIONS
  QueueSize,      \* maxsize of a subscriber's queue
  MaxBroadcasts   \* bound: snapshots broadcast

ASSUME FanoutAssumption ==
  /\ MaxConnections \in Nat \ {0}
  /\ QueueSize \in Nat \ {0}
  /\ MaxBroadcasts \in Nat

VARIABLES
  broadcasts,   \* snapshots broadcast so far
  conn,         \* where world_stream is, for each connection
  gone,         \* the browser has left: the next send to it raises
  queue,        \* the subscriber's queue
  last          \* the latest snapshot taken for sending, or the latest
                \* broadcast when the connection subscribed

vars == <<broadcasts, conn, gone, queue, last>>

\* The connections whose queue is in the list _subscribers.
Subscribers == {c \in Clients : conn[c] \in {"waiting", "sending"}}

\* Mutant: a full queue drops what comes.
PutOrDropNewest(q, n) == IF Len(q) < QueueSize THEN Append(q, n) ELSE q
Put(q, n) == Append(IF Len(q) >= QueueSize THEN Tail(q) ELSE q, n)

Init ==
  /\ broadcasts = 0
  /\ conn = [c \in Clients |-> "new"]
  /\ gone = [c \in Clients |-> FALSE]
  /\ queue = [c \in Clients |-> << >>]
  /\ last = [c \in Clients |-> 0]

(* broadcast(snapshot), called by the snapshot bridge without an await.    *)
Broadcast ==
  /\ broadcasts < MaxBroadcasts
  /\ broadcasts' = broadcasts + 1
  /\ queue' = [c \in Clients |->
                 IF c \in Subscribers THEN Put(queue[c], broadcasts + 1) ELSE queue[c]]
  /\ UNCHANGED <<conn, gone, last>>

(* The test of the cap, up to `await ws.accept()`.                         *)
HasRoom == Cardinality(Subscribers) < MaxConnections

Connect(c) ==
  /\ conn[c] = "new"
  /\ conn' = [conn EXCEPT ![c] = IF HasRoom THEN "accepting" ELSE "rejected"]
  /\ UNCHANGED <<broadcasts, gone, queue, last>>

(* The handshake is done: the queue is subscribed.                         *)
Accept(c) ==
  /\ conn[c] = "accepting"
  /\ conn' = [conn EXCEPT ![c] = "waiting"]
  /\ last' = [last EXCEPT ![c] = broadcasts]
  /\ UNCHANGED <<broadcasts, gone, queue>>

(* The browser left during the handshake: accept raises.                   *)
AcceptFails(c) ==
  /\ conn[c] = "accepting"
  /\ gone[c]
  /\ conn' = [conn EXCEPT ![c] = "closed"]
  /\ UNCHANGED <<broadcasts, gone, queue, last>>

(* q.get() returns and the snapshot is being sent.                         *)
Get(c) ==
  /\ conn[c] = "waiting"
  /\ queue[c] # << >>
  /\ conn' = [conn EXCEPT ![c] = "sending"]
  /\ last' = [last EXCEPT ![c] = Head(queue[c])]
  /\ queue' = [queue EXCEPT ![c] = Tail(@)]
  /\ UNCHANGED <<broadcasts, gone>>

\* send_text returns.
Sent(c) ==
  /\ conn[c] = "sending"
  /\ ~gone[c]
  /\ conn' = [conn EXCEPT ![c] = "waiting"]
  /\ UNCHANGED <<broadcasts, gone, queue, last>>

(* send_text raises: the finally clause removes the queue.                 *)
\* Mutant: the exception is swallowed inside of the loop.
SendFailsAndRetries(c) ==
  /\ conn[c] = "sending"
  /\ gone[c]
  /\ conn' = [conn EXCEPT ![c] = "waiting"]
  /\ UNCHANGED <<broadcasts, gone, queue, last>>
SendFails(c) ==
  /\ conn[c] = "sending"
  /\ gone[c]
  /\ conn' = [conn EXCEPT ![c] = "closed"]
  /\ queue' = [queue EXCEPT ![c] = << >>]
  /\ UNCHANGED <<broadcasts, gone, last>>

\* The browser goes away: world_stream learns it from a send only.
Leave(c) ==
  /\ conn[c] \in {"accepting", "waiting", "sending"}
  /\ ~gone[c]
  /\ gone' = [gone EXCEPT ![c] = TRUE]
  /\ UNCHANGED <<broadcasts, conn, queue, last>>

Serve(c) ==
  Connect(c) \/ Accept(c) \/ AcceptFails(c) \/ Get(c) \/ Sent(c) \/ SendFails(c)

Next == Broadcast \/ \E c \in Clients : Serve(c) \/ Leave(c)

Spec == Init /\ [][Next]_vars

\* The event loop runs a coroutine whose queue has an item, and a send ends:
\* the browser reads, or has left.  Nothing makes a snapshot come.
FairSpec == Spec /\ \A c \in Clients : WF_vars(Get(c)) /\ WF_vars(Sent(c) \/ SendFails(c))
-----------------------------------------------------------------------------
(* Types *)

TypeOK ==
  /\ broadcasts \in Nat
  /\ conn \in [Clients -> {"new", "rejected", "accepting", "waiting", "sending", "closed"}]
  /\ gone \in [Clients -> BOOLEAN]
  /\ queue \in [Clients -> Seq(Nat)]
  /\ last \in [Clients -> Nat]
  /\ \A c \in Clients : Len(queue[c]) <= QueueSize

-----------------------------------------------------------------------------
(* Properties *)

(* What is on a subscriber's queue are the latest broadcasts without a gap: *)
(* dropping the oldest loses frames at one end only.                       *)
QueueIsLatest ==
  \A c \in Subscribers : \A i \in DOMAIN queue[c] :
    queue[c][i] = broadcasts - Len(queue[c]) + i

(* Every connection is given its frames as LossyFeed promises: in order,   *)
(* none twice, none from before it subscribed, none that has QueueSize or  *)
(* more behind it.                                                         *)
Feed == INSTANCE LossyFeed WITH
  Followers <- Clients, Lag <- QueueSize,
  published <- broadcasts, following <- Subscribers, received <- last

FeedPromise == Feed!Spec

(* A browser that reads catches up with what was broadcast while it was    *)
(* slow.                                                                   *)
CatchesUp ==
  \A c \in Clients, n \in 1 .. MaxBroadcasts :
    queue[c] # << >> /\ broadcasts = n ~> last[c] >= n \/ c \notin Subscribers

(* The place of a browser that left is freed by the next snapshot.         *)
PlacesAreFreed ==
  \A c \in Clients : gone[c] /\ queue[c] # << >> ~> c \notin Subscribers

(* "Global cap to prevent resource exhaustion": at most MAX_WS_CONNECTIONS *)
(* subscribers.                                                            *)
ConnectionCap == Cardinality(Subscribers) <= MaxConnections
=============================================================================
