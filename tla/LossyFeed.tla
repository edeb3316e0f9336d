----------------------------- MODULE LossyFeed -----------------------------
(***************************************************************************)
(* What a follower of a live feed is promised when slow followers lose     *)
(* frames: frames come in order, none twice, none from before it joined,   *)
(* and never one with Lag or more frames published after it.               *)
(***************************************************************************)
EXTENDS Naturals

CONSTANTS
  Followers,
  Lag         \* the number of the latest frames a follower may be given

VARIABLES
  published,  \* frames are numbered from 1; the number of the latest one
  following,
  received    \* the latest frame a follower was given, or the latest
              \* published when it joined

feed == <<published, following, received>>

Init ==
  /\ published = 0
  /\ following = {}
  /\ received = [f \in Followers |-> 0]

Publish ==
  /\ published' = published + 1
  /\ UNCHANGED <<following, received>>

Join(f) ==
  /\ f \notin following
  /\ following' = following \union {f}
  /\ received' = [received EXCEPT ![f] = published]
  /\ UNCHANGED published

Deliver(f) ==
  /\ f \in following
  /\ \E n \in received[f] + 1 .. published :
       /\ published < n + Lag
       /\ received' = [received EXCEPT ![f] = n]
  /\ UNCHANGED <<published, following>>

Leave(f) ==
  /\ f \in following
  /\ following' = following \ {f}
  /\ UNCHANGED <<published, received>>

Next == Publish \/ \E f \in Followers : Join(f) \/ Deliver(f) \/ Leave(f)

Spec == Init /\ [][Next]_feed
=============================================================================
