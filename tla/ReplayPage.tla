---------------------------- MODULE ReplayPage -----------------------------
(***************************************************************************)
(* The page /replay: one listing when it is mounted, then snapshots by id, *)
(* kept in a cache and prefetched ahead.  A load that is not in the cache   *)
(* shows its answer when it arrives, whatever was loaded since.  Playback  *)
(* is an interval timer that loads the next index without waiting for the  *)
(* last load.                                                              *)
(***************************************************************************)
EXTENDS Integers, BagsExt, Archive

CONSTANTS
  Prefetch,    \* how many snapshots ahead are fetched
  Speeds,
  MaxInputs    \* bound: what the user does in one visit

ASSUME ReplayAssumption ==
  Prefetch \in Nat /\ 1 \in Speeds /\ MaxInputs \in Nat

VARIABLES
  phase,            \* "closed", "loading" (the listing), "ready"
  snapshots,        \* the ids of the listing; the code counts them from 0
  currentIndex,
  currentSnapshot,  \* what is shown: << >> or <<a content>>
  playing,
  speed,
  intervalId,       \* 0 for null
  intervals,        \* the live timers: id -> the speed it was started with
  cache,            \* id -> content
  flight,           \* bag of requests [id, show]
  inputs

replayVars == <<phase, snapshots, currentIndex, currentSnapshot, playing, speed,
                intervalId, intervals, cache, flight, inputs>>

\* Every visit makes a component with state of its own.
ReplayInit ==
  /\ phase = "closed"
  /\ snapshots = << >> /\ currentIndex = 0 /\ currentSnapshot = << >>
  /\ playing = FALSE /\ speed = 1 /\ intervalId = 0 /\ intervals = << >>
  /\ cache = << >> /\ flight = EmptyBag /\ inputs = 0

OpenReplay ==
  /\ phase = "closed" /\ phase' = "loading"
  /\ UNCHANGED <<snapshots, currentIndex, currentSnapshot, playing, speed,
                 intervalId, intervals, cache, flight, inputs>>

Prefetches(i, cached) ==
  SetToBag({[id |-> snapshots[j + 1], show |-> FALSE] :
    j \in {j \in i + 1 .. i + Prefetch : j < Len(snapshots)
                                         /\ snapshots[j + 1] \notin cached}})

loadSnapshot(i) ==
  LET id == snapshots[i + 1] IN
  /\ currentIndex' = i
  /\ \/ /\ id \in DOMAIN cache
        /\ currentSnapshot' = <<cache[id]>>
        /\ flight' = flight (+) Prefetches(i, DOMAIN cache)
     \/ /\ id \notin DOMAIN cache
        /\ flight' = flight (+) SetToBag({[id |-> id, show |-> TRUE]})
        /\ UNCHANGED currentSnapshot

\* The listing arrives (one that failed leaves the page empty); the first
\* snapshot is loaded.
ListArrives ==
  /\ phase = "loading" /\ phase' = "ready"
  /\ snapshots' \in Listings \union {<< >>}
  /\ flight' = SetToBag({[id |-> snapshots'[1], show |-> TRUE] :
                           i \in {1} \intersect DOMAIN snapshots'})
  /\ UNCHANGED <<currentIndex, currentSnapshot, playing, speed, intervalId,
                 intervals, cache, inputs>>

Show(r, content) ==
  IF r.show THEN currentSnapshot' = <<content>> ELSE UNCHANGED currentSnapshot

\* The snapshots ahead are fetched when a shown one has arrived.
After(r, cached) ==
  flight' = (flight (-) SetToBag({r}))
            (+) (IF r.show
                   THEN Prefetches((CHOOSE i \in DOMAIN snapshots :
                                      snapshots[i] = r.id) - 1, cached)
                   ELSE EmptyBag)

\* A request is answered: with the snapshot, or 404.
Answer(r) ==
  /\ r \in BagToSet(flight)
  /\ IF Found(r.id)
       THEN /\ cache' = With(cache, r.id, Content(r.id))
            /\ Show(r, Content(r.id))
       ELSE UNCHANGED <<cache, currentSnapshot>>
  /\ After(r, DOMAIN cache')
  /\ UNCHANGED <<phase, snapshots, currentIndex, playing, speed, intervalId,
                 intervals, inputs>>

\* fetch rejects: the load ends there.
FetchFails(r) ==
  /\ r \in BagToSet(flight)
  /\ flight' = flight (-) SetToBag({r})
  /\ UNCHANGED <<phase, snapshots, currentIndex, currentSnapshot, playing,
                 speed, intervalId, intervals, cache, inputs>>

\* stopPlayback and the start of playback, as functions of the timers.
Stopped(live, id) == [i \in DOMAIN live \ {id} |-> live[i]]
NewTimer(live) == CHOOSE i \in 1 .. Cardinality(DOMAIN live) + 1 : i \notin DOMAIN live

stopPlayback ==
  /\ playing' = FALSE
  /\ intervals' = Stopped(intervals, intervalId)
  /\ intervalId' = 0

StartPlayback(live, s) ==
  /\ playing' = TRUE
  /\ intervalId' = NewTimer(live)
  /\ intervals' = With(live, intervalId', s)

Input ==
  /\ phase = "ready" /\ snapshots # << >>
  /\ inputs < MaxInputs /\ inputs' = inputs + 1
  /\ UNCHANGED <<phase, snapshots, cache>>

togglePlay ==
  /\ Input
  /\ IF playing THEN stopPlayback ELSE StartPlayback(intervals, speed)
  /\ UNCHANGED <<currentIndex, currentSnapshot, speed, flight>>

\* Mutant: the new timer is started over the one that runs.
SpeedUpOver(s) ==
  IF playing THEN StartPlayback(intervals, s)
             ELSE UNCHANGED <<playing, intervalId, intervals>>

\* Mutant: to set the speed starts playback.
SpeedUpAnyway(s) == StartPlayback(Stopped(intervals, intervalId), s)

\* A playback that runs is stopped and started again with the new speed.
SpeedUp(s) ==
  IF playing THEN StartPlayback(Stopped(intervals, intervalId), s)
             ELSE UNCHANGED <<playing, intervalId, intervals>>

setSpeed(s) ==
  /\ Input
  /\ speed' = s
  /\ SpeedUp(s)
  /\ UNCHANGED <<currentIndex, currentSnapshot, flight>>

onScrub(i) ==
  /\ Input
  /\ stopPlayback
  /\ loadSnapshot(i)
  /\ UNCHANGED speed

\* A live timer fires.
AtEnd == currentIndex >= Len(snapshots) - 1

\* Mutant: playback starts again at the end.
IntervalLoops ==
  /\ intervals # << >>
  /\ loadSnapshot(IF AtEnd THEN 0 ELSE currentIndex + 1)
  /\ UNCHANGED <<phase, snapshots, playing, speed, intervalId, intervals, cache,
                 inputs>>

IntervalFires ==
  /\ intervals # << >>
  /\ IF AtEnd
       THEN stopPlayback /\ UNCHANGED <<currentIndex, currentSnapshot, flight>>
       ELSE loadSnapshot(currentIndex + 1)
            /\ UNCHANGED <<playing, intervalId, intervals>>
  /\ UNCHANGED <<phase, snapshots, speed, cache, inputs>>

\* onDestroy: a timer stopPlayback does not clear would go on; answers that
\* arrive later reach no page.
LeaveReplay ==
  /\ phase # "closed" /\ phase' = "closed"
  /\ intervals' = Stopped(intervals, intervalId)
  /\ snapshots' = << >> /\ currentIndex' = 0 /\ currentSnapshot' = << >>
  /\ playing' = FALSE /\ speed' = 1 /\ intervalId' = 0
  /\ cache' = << >> /\ flight' = EmptyBag /\ inputs' = 0

ReplayNext ==
  \/ ListArrives \/ IntervalFires
  \/ \E r \in BagToSet(flight) : Answer(r) \/ FetchFails(r)
  \/ togglePlay
  \/ \E s \in Speeds : setSpeed(s)
  \/ \E i \in 0 .. Len(snapshots) - 1 : onScrub(i)

(***************************************************************************)
(* Properties.                                                             *)
(***************************************************************************)

\* While it plays the page has exactly one timer, the one it can clear and
\* of the chosen speed; otherwise, and after it is left, it has none.
OneTimer ==
  intervals = [i \in IF playing THEN {intervalId} ELSE {} |-> speed]

\* The page implements the playback that playback.test.ts describes.
PlaysBack == INSTANCE Playback WITH maxIndex <- Len(snapshots) - 1
ImplementsPlayback == PlaysBack!Spec

\* Playback ends by itself or by the user, and never runs on forever.
PlaybackEnds == playing ~> ~playing
=============================================================================
