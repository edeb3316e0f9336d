----------------------------- MODULE Playback ------------------------------
(***************************************************************************)
(* The playback of a recording as playback.test.ts describes it: an index  *)
(* into snapshots 0 .. maxIndex that ticks forward while playing and stops *)
(* at the end; around it, what opens a recording, moves in it and leaves.  *)
(***************************************************************************)
EXTENDS Integers

CONSTANT Speeds

VARIABLES
  playing,
  speed,
  currentIndex,
  maxIndex       \* -1: there is no snapshot

playback == <<playing, speed, currentIndex, maxIndex>>

Init == ~playing /\ speed = 1 /\ currentIndex = 0 /\ maxIndex = -1

Tick ==
  /\ playing
  /\ IF currentIndex + 1 > maxIndex
       THEN playing' = FALSE /\ UNCHANGED currentIndex
       ELSE currentIndex' = currentIndex + 1 /\ UNCHANGED playing
  /\ UNCHANGED <<speed, maxIndex>>

SetSpeed ==
  /\ speed' \in Speeds
  /\ UNCHANGED <<playing, currentIndex, maxIndex>>

TogglePlay ==
  /\ playing' = ~playing
  /\ UNCHANGED <<speed, currentIndex, maxIndex>>

Scrub ==
  /\ currentIndex' \in 0 .. maxIndex /\ playing' = FALSE
  /\ UNCHANGED <<speed, maxIndex>>

Open ==
  /\ maxIndex = -1 /\ maxIndex' \in Nat
  /\ UNCHANGED <<playing, speed, currentIndex>>

Leave == Init'

Next == Tick \/ SetSpeed \/ TogglePlay \/ Scrub \/ Open \/ Leave

Spec == Init /\ [][Next]_playback
=============================================================================
