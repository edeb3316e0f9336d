--------------------------- MODULE WsFanoutProofs ---------------------------
(***************************************************************************)
(* Proofs about WsFanout: the queues hold the latest broadcasts, and the   *)
(* fan-out implements LossyFeed, for any number of connections, any cap    *)
(* and any queue size.                                                     *)
(***************************************************************************)
EXTENDS WsFanout, TLAPS

(* A subscriber has not been given what is on its queue; whoever is not a  *)
(* subscriber has nothing on it.                                           *)
Behind ==
  \A c \in Clients :
    IF c \in Subscribers THEN last[c] + Len(queue[c]) <= broadcasts ELSE queue[c] = << >>

IInv == TypeOK /\ QueueIsLatest /\ Behind

(* Nobody has subscribed before the application serves.                    *)
LEMMA InitInv == Init => IInv
BY FanoutAssumption DEF Init, IInv, TypeOK, QueueIsLatest, Behind, Subscribers

(* The tail of consecutive numbers that end with n ends with n too.        *)
LEMMA TailConsecutive ==
  ASSUME NEW q \in Seq(Nat), NEW n \in Nat, q # << >>,
         \A i \in DOMAIN q : q[i] = n - Len(q) + i
  PROVE  /\ Tail(q) \in Seq(Nat) /\ Len(Tail(q)) = Len(q) - 1 /\ Len(q) \in Nat \ {0}
         /\ \A i \in DOMAIN Tail(q) : Tail(q)[i] = n - Len(Tail(q)) + i
<1>1. Tail(q) \in Seq(Nat) /\ Len(Tail(q)) = Len(q) - 1 /\ Len(q) \in Nat \ {0}
  OBVIOUS
<1>2. ASSUME NEW i \in DOMAIN Tail(q) PROVE Tail(q)[i] = n - Len(Tail(q)) + i
  <2>1. i \in 1 .. Len(q) - 1
    BY <1>1
  <2>2. Tail(q)[i] = q[i + 1]
    BY <2>1
  <2>3. i + 1 \in DOMAIN q /\ q[i + 1] = n - Len(q) + (i + 1)
    BY <2>1, <1>1
  <2>. QED  BY <1>1, <2>1, <2>2, <2>3
<1>. QED  BY <1>1, <1>2

(* put after the drop of the oldest: the queue still ends with the latest  *)
(* broadcasts, and does not outgrow its size.                              *)
LEMMA PutLatest ==
  ASSUME NEW q \in Seq(Nat), NEW n \in Nat, Len(q) <= QueueSize,
         \A i \in DOMAIN q : q[i] = n - Len(q) + i
  PROVE  /\ Put(q, n + 1) \in Seq(Nat)
         /\ Len(Put(q, n + 1)) <= QueueSize
         /\ Len(Put(q, n + 1)) <= Len(q) + 1
         /\ \A i \in DOMAIN Put(q, n + 1) :
              Put(q, n + 1)[i] = (n + 1) - Len(Put(q, n + 1)) + i
<1>. DEFINE kept == IF Len(q) >= QueueSize THEN Tail(q) ELSE q
<1>1. kept \in Seq(Nat) /\ Len(kept) < QueueSize /\ Len(kept) <= Len(q)
  BY FanoutAssumption
<1>2. \A i \in DOMAIN kept : kept[i] = n - Len(kept) + i
  <2>1. CASE Len(q) >= QueueSize
    <3>1. kept = Tail(q) /\ q # << >>
      BY <2>1, FanoutAssumption
    <3>. QED  BY <3>1, TailConsecutive
  <2>2. CASE ~(Len(q) >= QueueSize)
    BY <2>2
  <2>. QED  BY <2>1, <2>2
<1>3. Put(q, n + 1) = Append(kept, n + 1)
  BY DEF Put
<1>. HIDE DEF kept
<1>4. Len(Append(kept, n + 1)) = Len(kept) + 1 /\ Append(kept, n + 1) \in Seq(Nat)
  BY <1>1
<1>5. ASSUME NEW i \in DOMAIN Append(kept, n + 1)
      PROVE  Append(kept, n + 1)[i] = (n + 1) - (Len(kept) + 1) + i
  BY <1>1, <1>2
<1>6. Len(Put(q, n + 1)) = Len(kept) + 1 /\ Put(q, n + 1) \in Seq(Nat)
  BY <1>3, <1>4
<1>7. Len(kept) \in Nat /\ Len(q) \in Nat /\ QueueSize \in Nat
  BY <1>1, FanoutAssumption
<1>8. \A i \in DOMAIN Put(q, n + 1) :
        Put(q, n + 1)[i] = (n + 1) - Len(Put(q, n + 1)) + i
  BY <1>3, <1>5, <1>6
<1>. QED
  BY <1>1, <1>6, <1>7, <1>8

(* A broadcast keeps every queue consecutive.                              *)
LEMMA BroadcastInv == IInv /\ Broadcast => IInv'
<1>. SUFFICES ASSUME IInv, Broadcast PROVE IInv'
  OBVIOUS
<1>. USE DEF IInv
<1>1. Subscribers' = Subscribers /\ broadcasts \in Nat /\ broadcasts' = broadcasts + 1
  BY DEF Broadcast, Subscribers, TypeOK
<1>2. ASSUME NEW c \in Clients
      PROVE  /\ queue'[c] \in Seq(Nat) /\ Len(queue'[c]) <= QueueSize
             /\ c \in Subscribers =>
                  /\ Len(queue'[c]) <= Len(queue[c]) + 1
                  /\ \A i \in DOMAIN queue'[c] :
                       queue'[c][i] = broadcasts' - Len(queue'[c]) + i
             /\ c \notin Subscribers => queue'[c] = queue[c]
  <2>1. queue[c] \in Seq(Nat) /\ Len(queue[c]) <= QueueSize
    BY DEF TypeOK
  <2>2. CASE c \in Subscribers
    <3>1. queue'[c] = Put(queue[c], broadcasts + 1)
      BY <2>2 DEF Broadcast
    <3>2. \A i \in DOMAIN queue[c] : queue[c][i] = broadcasts - Len(queue[c]) + i
      BY <2>2 DEF QueueIsLatest
    <3>3. LET p == Put(queue[c], broadcasts + 1)
          IN  /\ p \in Seq(Nat) /\ Len(p) <= QueueSize /\ Len(p) <= Len(queue[c]) + 1
              /\ \A i \in DOMAIN p : p[i] = (broadcasts + 1) - Len(p) + i
      BY <1>1, <2>1, <3>2, PutLatest
    <3>. QED
      BY <1>1, <2>2, <3>1, <3>3
  <2>3. CASE c \notin Subscribers
    BY <2>1, <2>3 DEF Broadcast
  <2>. QED  BY <2>2, <2>3
<1>3. TypeOK'
  <2>1. queue' \in [Clients -> Seq(Nat)]
    BY <1>2 DEF Broadcast
  <2>2. \A c \in Clients : Len(queue'[c]) <= QueueSize
    BY <1>2
  <2>3. broadcasts' \in Nat
    BY <1>1
  <2>. QED  BY <2>1, <2>2, <2>3 DEF TypeOK, Broadcast
<1>4. QueueIsLatest'
  BY <1>1, <1>2 DEF QueueIsLatest, Subscribers
<1>5. Behind'
  <2>1. ASSUME NEW c \in Subscribers
        PROVE  last'[c] + Len(queue'[c]) <= broadcasts'
    <3>1. c \in Clients
      BY DEF Subscribers
    <3>2. last[c] + Len(queue[c]) <= broadcasts /\ last[c] \in Nat /\ Len(queue[c]) \in Nat
      BY <3>1 DEF Behind, TypeOK
    <3>3. last'[c] = last[c]
      BY DEF Broadcast
    <3>4. Len(queue'[c]) \in Nat /\ Len(queue'[c]) <= Len(queue[c]) + 1
      BY <1>2, <3>1
    <3>. QED  BY <1>1, <3>2, <3>3, <3>4
  <2>2. \A c \in Clients : c \notin Subscribers => queue'[c] = << >>
    BY <1>2 DEF Behind
  <2>. QED  BY <1>1, <2>1, <2>2 DEF Behind
<1>. QED  BY <1>3, <1>4, <1>5

(* What a connection does leaves the other queues alone, and takes only    *)
(* the oldest snapshot of its own.                                         *)
LEMMA ServeInv == ASSUME IInv, NEW c \in Clients, Serve(c) \/ Leave(c) PROVE IInv'
<1>. USE DEF IInv
<1>1. CASE Connect(c)
  BY <1>1 DEF Connect, TypeOK, QueueIsLatest, Behind, Subscribers
<1>2. CASE Accept(c)
  BY <1>2 DEF Accept, TypeOK, QueueIsLatest, Behind, Subscribers
<1>3. CASE AcceptFails(c)
  BY <1>3 DEF AcceptFails, TypeOK, QueueIsLatest, Behind, Subscribers
<1>4. CASE Get(c)
  <2>. DEFINE q == queue[c]
  <2>1. q \in Seq(Nat) /\ q # << >> /\ Len(q) <= QueueSize
    BY <1>4 DEF Get, TypeOK
  <2>2. c \in Subscribers /\ Subscribers' = Subscribers
    BY <1>4 DEF Get, Subscribers, TypeOK
  <2>3. /\ queue' = [queue EXCEPT ![c] = Tail(q)]
        /\ last' = [last EXCEPT ![c] = Head(q)]
        /\ broadcasts' = broadcasts
    BY <1>4 DEF Get
  <2>4. \A i \in DOMAIN q : q[i] = broadcasts - Len(q) + i
    BY <2>2 DEF QueueIsLatest
  <2>. HIDE DEF q
  <2>5. /\ Tail(q) \in Seq(Nat) /\ Len(Tail(q)) = Len(q) - 1 /\ Len(q) \in Nat \ {0}
        /\ \A i \in DOMAIN Tail(q) : Tail(q)[i] = broadcasts - Len(Tail(q)) + i
    BY <2>1, <2>4, TailConsecutive DEF TypeOK
  <2>6. Head(q) = broadcasts - Len(q) + 1 /\ Head(q) \in Nat
    BY <2>1, <2>4
  <2>8. TypeOK'
    BY <1>4, <2>1, <2>3, <2>5, <2>6, FanoutAssumption DEF TypeOK, Get
  <2>9. QueueIsLatest'
    BY <2>2, <2>3, <2>5 DEF QueueIsLatest, Subscribers, TypeOK
  <2>10. Behind'
    BY <2>2, <2>3, <2>5, <2>6 DEF Behind, Subscribers, TypeOK
  <2>. QED  BY <2>8, <2>9, <2>10
<1>5. CASE Sent(c)
  BY <1>5 DEF Sent, TypeOK, QueueIsLatest, Behind, Subscribers
<1>6. CASE SendFails(c)
  <2>1. Subscribers' = Subscribers \ {c}
    BY <1>6 DEF SendFails, Subscribers, TypeOK
  <2>2. TypeOK'
    BY <1>6, FanoutAssumption DEF SendFails, TypeOK
  <2>. QED
    BY <1>6, <2>1, <2>2 DEF SendFails, TypeOK, QueueIsLatest, Behind
<1>7. CASE Leave(c)
  BY <1>7 DEF Leave, TypeOK, QueueIsLatest, Behind, Subscribers
<1>. QED
  BY <1>1, <1>2, <1>3, <1>4, <1>5, <1>6, <1>7 DEF Serve

(* Every step of the fan-out keeps the inductive invariant.                *)
LEMMA NextInv == IInv /\ [Next]_vars => IInv'
<1>. SUFFICES ASSUME IInv, [Next]_vars PROVE IInv'
  OBVIOUS
<1>1. CASE UNCHANGED vars
  BY <1>1 DEF vars, IInv, TypeOK, QueueIsLatest, Behind, Subscribers
<1>. QED
  BY <1>1, BroadcastInv, ServeInv DEF Next

(* The inductive invariant holds in every state of the fan-out.            *)
THEOREM AlwaysInv == Spec => []IInv
BY InitInv, NextInv, PTL DEF Spec

(* Types, and the bound of every queue, for any number of clients.         *)
THEOREM TypeCorrect == Spec => []TypeOK
BY AlwaysInv, PTL DEF IInv

(* A subscriber's queue is always the latest broadcasts without a gap.     *)
THEOREM QueueAlwaysLatest == Spec => []QueueIsLatest
BY AlwaysInv, PTL DEF IInv

-----------------------------------------------------------------------------
(* Refinement of LossyFeed.                                                *)

(* The steps of world_stream are steps of the feed, or stutter.            *)
LEMMA ServeRefines ==
  ASSUME IInv, NEW c \in Clients, Serve(c) \/ Leave(c)
  PROVE  [Feed!Next]_(Feed!feed)
<1>. USE DEF IInv
<1>. DEFINE stutter == UNCHANGED <<broadcasts, Subscribers, last>>
<1>0. stutter => [Feed!Next]_(Feed!feed)
  BY DEF Feed!feed
<1>1. CASE Connect(c)
  BY <1>0, <1>1 DEF Connect, Subscribers, TypeOK
<1>2. CASE Accept(c)
  <2>1. c \notin Subscribers /\ Subscribers' = Subscribers \union {c}
    BY <1>2 DEF Accept, Subscribers, TypeOK
  <2>2. Feed!Join(c)
    BY <1>2, <2>1 DEF Accept, Feed!Join
  <2>. QED  BY <2>2 DEF Feed!Next
<1>3. CASE AcceptFails(c)
  BY <1>0, <1>3 DEF AcceptFails, Subscribers, TypeOK
<1>4. CASE Get(c)
  <2>1. c \in Subscribers /\ Subscribers' = Subscribers
    BY <1>4 DEF Get, Subscribers, TypeOK
  <2>2. /\ queue[c] \in Seq(Nat) /\ queue[c] # << >> /\ Len(queue[c]) <= QueueSize
        /\ broadcasts \in Nat /\ last[c] \in Nat
    BY <1>4 DEF Get, TypeOK
  <2>3. Head(queue[c]) = broadcasts - Len(queue[c]) + 1
    BY <2>1, <2>2 DEF QueueIsLatest
  <2>4. last[c] + Len(queue[c]) <= broadcasts
    BY <2>1 DEF Behind
  <2>5. Len(queue[c]) \in Nat \ {0} /\ QueueSize \in Nat
    BY <2>2, FanoutAssumption
  <2>6. /\ Head(queue[c]) \in last[c] + 1 .. broadcasts
        /\ broadcasts < Head(queue[c]) + QueueSize
    <3>. DEFINE k == Len(queue[c])  n == Head(queue[c])  l == last[c]
    <3>1. k \in Nat \ {0} /\ k <= QueueSize /\ QueueSize \in Nat /\ l \in Nat
          /\ broadcasts \in Nat /\ n = broadcasts - k + 1 /\ l + k <= broadcasts
      BY <2>2, <2>3, <2>4, <2>5
    <3>. HIDE DEF k, n, l
    <3>2. n \in l + 1 .. broadcasts /\ broadcasts < n + QueueSize
      BY <3>1
    <3>. QED  BY <3>2 DEF k, n, l
  <2>7. last' = [last EXCEPT ![c] = Head(queue[c])] /\ broadcasts' = broadcasts
    BY <1>4 DEF Get
  <2>8. Feed!Deliver(c)
    BY <2>1, <2>6, <2>7 DEF Feed!Deliver
  <2>. QED  BY <2>8 DEF Feed!Next
<1>5. CASE Sent(c)
  BY <1>0, <1>5 DEF Sent, Subscribers, TypeOK
<1>6. CASE SendFails(c)
  <2>1. c \in Subscribers /\ Subscribers' = Subscribers \ {c}
    BY <1>6 DEF SendFails, Subscribers, TypeOK
  <2>2. Feed!Leave(c)
    BY <1>6, <2>1 DEF SendFails, Feed!Leave
  <2>. QED  BY <2>2 DEF Feed!Next
<1>7. CASE Leave(c)
  BY <1>0, <1>7 DEF Leave, Subscribers, TypeOK
<1>. QED
  BY <1>1, <1>2, <1>3, <1>4, <1>5, <1>6, <1>7 DEF Serve

(* The fan-out gives every connection what LossyFeed promises.             *)
THEOREM FanoutIsLossyFeed == Spec => FeedPromise
<1>1. Init => Feed!Init
  BY DEF Init, Feed!Init, Subscribers
<1>2. IInv /\ [Next]_vars => [Feed!Next]_(Feed!feed)
  <2>. SUFFICES ASSUME IInv, [Next]_vars PROVE [Feed!Next]_(Feed!feed)
    OBVIOUS
  <2>1. CASE Broadcast
    <3>1. Feed!Publish
      BY <2>1 DEF Broadcast, Subscribers, Feed!Publish
    <3>. QED  BY <3>1 DEF Feed!Next
  <2>2. CASE UNCHANGED vars
    BY <2>2 DEF vars, Subscribers, Feed!feed
  <2>. QED
    BY <2>1, <2>2, ServeRefines DEF Next
<1>. QED
  BY <1>1, <1>2, AlwaysInv, PTL DEF Spec, FeedPromise, Feed!Spec
=============================================================================
