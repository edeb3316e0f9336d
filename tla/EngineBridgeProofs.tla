------------------------- MODULE EngineBridgeProofs ------------------------
(***************************************************************************)
(* Proofs about EngineBridge, for any number of engines, crashes and       *)
(* failures, any commands and any queue sizes: an engine that passes for   *)
(* running is read, and what is shown of an engine goes forward.           *)
(***************************************************************************)
EXTENDS EngineBridge, TLAPS

AllCommands == Commands \union {"shutdown"}
Lines ==
  [event : {"banner", "ready", "ack", "error", "snapshot"}, cmd : AllCommands \union {""}, tick : Nat]
Events == [line : Lines, from : Engines]

Types ==
  /\ current \in Engines \union {NoEngine}
  /\ reader \in [Engines -> {"none", "created", "reading", "done"}]
  /\ readFrom \in [Engines -> Engines \union {NoEngine}]
  /\ \A t \in Engines : reader[t] \in {"created", "reading"} => current \in Engines
  /\ \A t \in Engines : reader[t] = "reading" => readFrom[t] \in Engines
  /\ tick \in [Engines -> Nat] /\ seen \in [Engines -> Nat]
  /\ stdin \in [Engines -> Seq(AllCommands)]
  /\ stdout \in [Engines -> Seq(Lines)]
  /\ events \in Seq(Events)

(* The snapshots of an engine on their way from its pipe to the bridge:    *)
(* each is at most as old as the last one shown and at most as new as the  *)
(* engine, and none overtakes another.                                     *)
IsSnapshot(line) == line.event = "snapshot"
From(e, i) == events[i].from = e /\ IsSnapshot(events[i].line)
Bounded(e) ==
  /\ seen[e] <= tick[e]
  /\ \A i \in DOMAIN stdout[e] : IsSnapshot(stdout[e][i]) =>
       seen[e] <= stdout[e][i].tick /\ stdout[e][i].tick <= tick[e]
  /\ \A i \in DOMAIN events : From(e, i) =>
       seen[e] <= events[i].line.tick /\ events[i].line.tick <= tick[e]
InPipe(e) ==
  \A i, j \in DOMAIN stdout[e] :
    i < j /\ IsSnapshot(stdout[e][i]) /\ IsSnapshot(stdout[e][j])
      => stdout[e][i].tick <= stdout[e][j].tick
InQueue(e) ==
  \A i, j \in DOMAIN events :
    i < j /\ From(e, i) /\ From(e, j) => events[i].line.tick <= events[j].line.tick
QueueFirst(e) ==
  \A i \in DOMAIN events, j \in DOMAIN stdout[e] :
    From(e, i) /\ IsSnapshot(stdout[e][j]) => events[i].line.tick <= stdout[e][j].tick

Forward == \A e \in Engines : Bounded(e) /\ InPipe(e) /\ InQueue(e) /\ QueueFirst(e)

BridgeInv == Types /\ RunningMeansRead /\ Forward

(***************************************************************************)
(* Sequences.                                                              *)
(***************************************************************************)
LEMMA TailFacts ==
  ASSUME NEW S, NEW q \in Seq(S), q # << >>
  PROVE  /\ Head(q) \in S /\ Head(q) = q[1] /\ 1 \in DOMAIN q
         /\ Tail(q) \in Seq(S)
         /\ \A i \in DOMAIN Tail(q) : i + 1 \in DOMAIN q /\ Tail(q)[i] = q[i + 1] /\ i \in Nat
OBVIOUS

(* Put keeps the order of what it does not drop.                           *)
Appended(r, q, item) ==
  \E d \in {0, 1} : \A i \in DOMAIN r :
    \/ i = Len(r) /\ r[i] = item
    \/ i < Len(r) /\ i + d \in DOMAIN q /\ r[i] = q[i + d]

LEMMA PutFacts ==
  ASSUME NEW q \in Seq(Events), NEW item \in Events,
         NEW r, r = PutDropOldest(q, item, QueueSize)
  PROVE  r \in Seq(Events) /\ Appended(r, q, item)
<1>. USE BridgeAssumption
<1>. DEFINE kept == IF Len(q) >= QueueSize THEN Tail(q) ELSE q
<1>1. kept \in Seq(Events)
  BY TailFacts
<1>2. PICK d \in {0, 1} : \A i \in DOMAIN kept : i + d \in DOMAIN q /\ kept[i] = q[i + d]
  <2>1. CASE Len(q) >= QueueSize
    <3>1. q # << >>
      BY <2>1
    <3>. QED  BY <2>1, <3>1, TailFacts
  <2>2. CASE ~(Len(q) >= QueueSize)
    BY <2>2
  <2>. QED  BY <2>1, <2>2
<1>. HIDE DEF kept
<1>0. r = Append(kept, item)
  BY DEF PutDropOldest, kept
<1>3. /\ r \in Seq(Events) /\ Len(r) = Len(kept) + 1 /\ DOMAIN r = 1 .. Len(r)
      /\ r[Len(r)] = item
      /\ \A i \in DOMAIN kept : r[i] = kept[i]
      /\ DOMAIN kept = 1 .. Len(kept) /\ Len(kept) \in Nat
  BY <1>0, <1>1
<1>4. \A i \in DOMAIN r :
        \/ i = Len(r) /\ r[i] = item
        \/ i < Len(r) /\ i + d \in DOMAIN q /\ r[i] = q[i + d]
  BY <1>2, <1>3
<1>. QED  BY <1>3, <1>4 DEF Appended

(* Lines that are no snapshots.                                            *)
LEMMA QuietLines ==
  /\ Banner \in Lines /\ ~IsSnapshot(Banner) /\ Ready \in Lines /\ ~IsSnapshot(Ready)
  /\ \A cmd \in AllCommands :
       \E l \in Lines : Reply(cmd) = <<l>> /\ ~IsSnapshot(l)
<1>1. ASSUME NEW ev \in {"banner", "ready", "ack", "error"}, NEW cmd \in AllCommands \union {""}
      PROVE  Line(ev, cmd, 0) \in Lines /\ ~IsSnapshot(Line(ev, cmd, 0))
  BY DEF Line, Lines, IsSnapshot
<1>. QED  BY <1>1 DEF Banner, Ready, Reply

(***************************************************************************)
(* The flag and the readers.                                               *)
(***************************************************************************)
LEMMA AwaitReads ==
  ASSUME Types, RunningMeansRead, NEW t \in Engines, UNCHANGED current,
         reader[t] \in {"created", "reading"},
         AwaitLine(t) \/ (EndReader(t) /\ UNCHANGED readFrom)
  PROVE  /\ RunningMeansRead'
         /\ reader' \in [Engines -> {"none", "created", "reading", "done"}]
         /\ readFrom' \in [Engines -> Engines \union {NoEngine}]
         /\ \A u \in Engines : reader'[u] \in {"created", "reading"} => current \in Engines
         /\ \A u \in Engines : reader'[u] = "reading" => readFrom'[u] \in Engines
<1>1. current \in Engines
  BY DEF Types
<1>2. CASE EndReader(t) /\ UNCHANGED readFrom
  BY <1>2 DEF EndReader, Types, RunningMeansRead
<1>3. CASE /\ reader' = [reader EXCEPT ![t] = "reading"]
           /\ readFrom' = [readFrom EXCEPT ![t] = current]
           /\ UNCHANGED running
  BY <1>1, <1>3 DEF Types, RunningMeansRead
<1>. QED  BY <1>2, <1>3 DEF AwaitLine

(***************************************************************************)
(* What happens to the lines.                                              *)
(***************************************************************************)
Data == <<tick, seen, stdout, events>>

LEMMA LineTypes ==
  ASSUME Types
  PROVE  /\ \A e \in Engines : \A i \in DOMAIN stdout[e] :
              stdout[e][i] \in Lines /\ stdout[e][i].tick \in Nat
         /\ \A i \in DOMAIN events :
              /\ events[i] \in Events /\ events[i].from \in Engines
              /\ events[i].line \in Lines /\ events[i].line.tick \in Nat
<1>1. \A l \in Lines : l.tick \in Nat
  BY DEF Lines
<1>2. \A e \in Engines : stdout[e] \in Seq(Lines)
  BY DEF Types
<1>3. \A e \in Engines : \A i \in DOMAIN stdout[e] : stdout[e][i] \in Lines
  BY <1>2
<1>4. \A i \in DOMAIN events : events[i] \in Events
  BY DEF Types
<1>5. \A ev \in Events : ev.from \in Engines /\ ev.line \in Lines
  BY DEF Events
<1>. QED  BY <1>1, <1>3, <1>4, <1>5

LEMMA SameLines ==
  ASSUME Types, Forward, UNCHANGED Data
  PROVE  Forward'
BY DEF Forward, Bounded, InPipe, InQueue, QueueFirst, From, Data

(* An engine writes lines that are no snapshots.                           *)
LEMMA QuietWrite ==
  ASSUME Types, Forward, NEW e \in Engines, NEW out \in Seq(Lines),
         \A i \in DOMAIN out : ~IsSnapshot(out[i]),
         stdout' = [stdout EXCEPT ![e] = stdout[e] \o out], UNCHANGED <<tick, seen, events>>
  PROVE  Forward' /\ stdout' \in [Engines -> Seq(Lines)]
<1>. DEFINE q == stdout[e]
            r == q \o out
<1>1. q \in Seq(Lines) /\ stdout'[e] = r /\ \A f \in Engines \ {e} : stdout'[f] = stdout[f]
  BY DEF Types
<1>2. r \in Seq(Lines) /\ \A i \in DOMAIN r : IsSnapshot(r[i]) => i \in DOMAIN q /\ r[i] = q[i]
  <2>1. /\ r \in Seq(Lines) /\ Len(r) = Len(q) + Len(out) /\ DOMAIN r = 1 .. Len(r)
        /\ Len(q) \in Nat /\ Len(out) \in Nat /\ DOMAIN q = 1 .. Len(q)
        /\ \A i \in 1 .. Len(q) : r[i] = q[i]
        /\ \A i \in 1 .. Len(r) : i > Len(q) => i - Len(q) \in DOMAIN out /\ r[i] = out[i - Len(q)]
    BY <1>1
  <2>. HIDE DEF q, r
  <2>. QED  BY <2>1
<1>. HIDE DEF r
<1>3. stdout' \in [Engines -> Seq(Lines)]
  BY <1>1, <1>2 DEF Types
<1>4. ASSUME NEW f \in Engines PROVE (Bounded(f) /\ InPipe(f) /\ InQueue(f) /\ QueueFirst(f))'
  <2>1. Bounded(f) /\ InPipe(f) /\ InQueue(f) /\ QueueFirst(f)
    BY DEF Forward
  <2>2. CASE f = e
    BY <1>1, <1>2, <2>1, <2>2 DEF Bounded, InPipe, InQueue, QueueFirst, From
  <2>3. CASE f # e
    BY <1>1, <2>1, <2>3 DEF Bounded, InPipe, InQueue, QueueFirst, From
  <2>. QED  BY <2>2, <2>3
<1>. QED  BY <1>3, <1>4 DEF Forward

(* A tick: the newest snapshot goes behind all others.                     *)
LEMMA TickWrite ==
  ASSUME Types, Forward, NEW e \in Engines, tick' = [tick EXCEPT ![e] = @ + 1],
         stdout' = [stdout EXCEPT ![e] = Append(@, Snapshot(tick[e] + 1))],
         UNCHANGED <<seen, events>>
  PROVE  /\ Forward' /\ stdout' \in [Engines -> Seq(Lines)] /\ tick' \in [Engines -> Nat]
<1>. DEFINE q == stdout[e]
            n == tick[e] + 1
            new == Snapshot(n)
            r == Append(q, new)
<1>1. /\ q \in Seq(Lines) /\ stdout'[e] = r /\ \A f \in Engines \ {e} : stdout'[f] = stdout[f]
      /\ n \in Nat /\ tick[e] \in Nat /\ tick'[e] = n
      /\ \A f \in Engines \ {e} : tick'[f] = tick[f]
      /\ tick' \in [Engines -> Nat] /\ seen[e] \in Nat
  BY DEF Types
<1>2. new \in Lines /\ new.tick = n
  BY <1>1 DEF Snapshot, Line, Lines
<1>. HIDE DEF new
<1>3. /\ r \in Seq(Lines) /\ DOMAIN r = 1 .. Len(q) + 1 /\ DOMAIN q = 1 .. Len(q)
      /\ Len(q) \in Nat /\ r[Len(q) + 1] = new /\ \A i \in DOMAIN q : r[i] = q[i]
  BY <1>1, <1>2
<1>5. \A i \in DOMAIN q : q[i] \in Lines /\ q[i].tick \in Nat
  BY LineTypes
<1>6. \A i \in DOMAIN events : events[i].line.tick \in Nat
  BY LineTypes
<1>. HIDE DEF q, r, n
<1>4. \A i \in DOMAIN r : (i \in DOMAIN q /\ r[i] = q[i]) \/ (i = Len(q) + 1 /\ r[i] = new)
  BY <1>3
<1>7. stdout' \in [Engines -> Seq(Lines)]
  BY <1>1, <1>3 DEF Types
<1>8. n = tick[e] + 1
  BY DEF n
<1>9. /\ \A i \in DOMAIN q : IsSnapshot(q[i]) => seen[e] <= q[i].tick /\ q[i].tick <= tick[e]
      /\ \A i \in DOMAIN events : From(e, i) =>
           seen[e] <= events[i].line.tick /\ events[i].line.tick <= tick[e]
      /\ seen[e] <= tick[e]
  BY DEF Forward, Bounded, q
<1>10. Bounded(e)'
  <2>1. seen[e] <= n
    BY <1>1, <1>8, <1>9
  <2>2. ASSUME NEW i \in DOMAIN r, IsSnapshot(r[i]) PROVE seen[e] <= r[i].tick /\ r[i].tick <= n
    <3>1. CASE i \in DOMAIN q /\ r[i] = q[i]
      <4>1. seen[e] <= q[i].tick /\ q[i].tick <= tick[e] /\ q[i].tick \in Nat
        BY <1>5, <1>9, <2>2, <3>1
      <4>. QED  BY <1>1, <1>8, <3>1, <4>1
    <3>2. CASE r[i] = new
      BY <1>1, <1>2, <2>1, <3>2
    <3>. QED  BY <1>4, <3>1, <3>2
  <2>3. ASSUME NEW i \in DOMAIN events, From(e, i)
        PROVE  seen[e] <= events[i].line.tick /\ events[i].line.tick <= n
    <3>1. seen[e] <= events[i].line.tick /\ events[i].line.tick <= tick[e]
      BY <1>9, <2>3
    <3>. QED  BY <1>1, <1>6, <1>8, <3>1
  <2>4. \A i \in DOMAIN events : From(e, i)' = From(e, i)
    BY DEF From
  <2>. QED  BY <1>1, <2>1, <2>2, <2>3, <2>4 DEF Bounded
<1>11. InPipe(e)'
  <2>1. \A i, j \in DOMAIN q :
          i < j /\ IsSnapshot(q[i]) /\ IsSnapshot(q[j]) => q[i].tick <= q[j].tick
    BY DEF Forward, InPipe, q
  <2>2. ASSUME NEW i \in DOMAIN r, NEW j \in DOMAIN r, i < j, IsSnapshot(r[i]), IsSnapshot(r[j])
        PROVE  r[i].tick <= r[j].tick
    <3>1. i \in DOMAIN q /\ r[i] = q[i]
      BY <1>3, <1>4, <2>2
    <3>2. CASE j \in DOMAIN q /\ r[j] = q[j]
      BY <2>1, <2>2, <3>1, <3>2
    <3>3. CASE r[j] = new
      <4>1. q[i].tick <= tick[e] /\ q[i].tick \in Nat
        BY <1>5, <1>9, <2>2, <3>1
      <4>. QED  BY <1>1, <1>2, <1>8, <3>1, <3>3, <4>1
    <3>. QED  BY <1>4, <3>2, <3>3
  <2>. QED  BY <1>1, <2>2 DEF InPipe
<1>12. QueueFirst(e)' /\ InQueue(e)'
  <2>1. /\ \A i \in DOMAIN events, j \in DOMAIN q :
             From(e, i) /\ IsSnapshot(q[j]) => events[i].line.tick <= q[j].tick
        /\ InQueue(e)
    BY DEF Forward, QueueFirst, q
  <2>. QED  BY <1>1, <1>2, <1>4, <1>6, <1>8, <1>9, <2>1 DEF QueueFirst, InQueue, From
<1>13. ASSUME NEW f \in Engines, f # e
       PROVE  (Bounded(f) /\ InPipe(f) /\ InQueue(f) /\ QueueFirst(f))'
  BY <1>1, <1>13 DEF Forward, Bounded, InPipe, InQueue, QueueFirst, From
<1>. QED  BY <1>1, <1>7, <1>10, <1>11, <1>12, <1>13 DEF Forward

(* The next line of a pipe is taken by a reader, and queued or not.        *)
LEMMA TakeLine ==
  ASSUME Types, Forward, NEW e \in Engines, stdout[e] # << >>,
         stdout' = [stdout EXCEPT ![e] = Tail(@)], UNCHANGED <<tick, seen, events>>
  PROVE  Forward' /\ stdout' \in [Engines -> Seq(Lines)]
<1>. DEFINE q == stdout[e]
            r == Tail(q)
<1>1. /\ q \in Seq(Lines) /\ stdout'[e] = r /\ \A f \in Engines \ {e} : stdout'[f] = stdout[f]
  BY DEF Types
<1>2. r \in Seq(Lines) /\ \A i \in DOMAIN r : i + 1 \in DOMAIN q /\ r[i] = q[i + 1] /\ i \in Nat
  BY <1>1, TailFacts
<1>. HIDE DEF r
<1>3. stdout' \in [Engines -> Seq(Lines)]
  BY <1>1, <1>2 DEF Types
<1>4. Bounded(e) /\ InPipe(e) /\ InQueue(e) /\ QueueFirst(e)
  BY DEF Forward
<1>5. \A i \in DOMAIN r, j \in DOMAIN r : i < j => i + 1 < j + 1
  BY <1>2
<1>6. Bounded(e)'
  BY <1>1, <1>2, <1>4 DEF Bounded, From
<1>7. InPipe(e)'
  BY <1>1, <1>2, <1>4, <1>5 DEF InPipe
<1>8. InQueue(e)' /\ QueueFirst(e)'
  BY <1>1, <1>2, <1>4 DEF InQueue, QueueFirst, From
<1>9. ASSUME NEW f \in Engines, f # e
      PROVE  (Bounded(f) /\ InPipe(f) /\ InQueue(f) /\ QueueFirst(f))'
  BY <1>1, <1>9 DEF Forward, Bounded, InPipe, InQueue, QueueFirst, From
<1>. QED  BY <1>3, <1>6, <1>7, <1>8, <1>9 DEF Forward

LEMMA QueueLine ==
  ASSUME Types, Forward, NEW e \in Engines, stdout[e] # << >>,
         stdout' = [stdout EXCEPT ![e] = Tail(@)], UNCHANGED <<tick, seen>>,
         events' = PutDropOldest(events, [line |-> Head(stdout[e]), from |-> e], QueueSize)
  PROVE  /\ Forward' /\ stdout' \in [Engines -> Seq(Lines)] /\ events' \in Seq(Events)
<1>. DEFINE q == stdout[e]
            r == Tail(q)
            new == [line |-> q[1], from |-> e]
<1>1. /\ q \in Seq(Lines) /\ stdout'[e] = r /\ \A f \in Engines \ {e} : stdout'[f] = stdout[f]
  BY DEF Types
<1>2. /\ r \in Seq(Lines) /\ \A i \in DOMAIN r : i + 1 \in DOMAIN q /\ r[i] = q[i + 1] /\ i \in Nat
      /\ Head(q) = q[1] /\ 1 \in DOMAIN q /\ q[1] \in Lines
  BY <1>1, TailFacts
<1>3. new \in Events /\ new.line = q[1] /\ new.from = e
  BY <1>2 DEF Events
<1>. HIDE DEF r, new
<1>4. /\ events' \in Seq(Events)
      /\ \E d \in {0, 1} : \A i \in DOMAIN events' :
           \/ i = Len(events') /\ events'[i] = new
           \/ i < Len(events') /\ i + d \in DOMAIN events /\ events'[i] = events[i + d]
  <2>1. events' = PutDropOldest(events, new, QueueSize) /\ events \in Seq(Events)
    BY <1>2 DEF new, Types
  <2>2. events' \in Seq(Events) /\ Appended(events', events, new)
    BY <1>3, <2>1, PutFacts
  <2>. QED  BY <2>2 DEF Appended
<1>5. PICK d \in {0, 1} : \A i \in DOMAIN events' :
        \/ i = Len(events') /\ events'[i] = new
        \/ i < Len(events') /\ i + d \in DOMAIN events /\ events'[i] = events[i + d]
  BY <1>4
<1>6. DOMAIN events' \subseteq Nat /\ Len(events') \in Nat
  BY <1>4
<1>7. /\ \A i \in DOMAIN q : q[i].tick \in Nat
      /\ \A i \in DOMAIN events : events[i].line.tick \in Nat
      /\ \A i \in DOMAIN r : 1 < i + 1
  BY <1>2, LineTypes
<1>8. stdout' \in [Engines -> Seq(Lines)]
  BY <1>1, <1>2 DEF Types
<1>9. ASSUME NEW f \in Engines PROVE (Bounded(f) /\ InPipe(f) /\ InQueue(f) /\ QueueFirst(f))'
  <2>1. Bounded(f) /\ InPipe(f) /\ InQueue(f) /\ QueueFirst(f)
    BY DEF Forward
  <2>2. Bounded(f)'
    <3>1. \A i \in DOMAIN events' : From(f, i)' =>
            seen[f] <= events'[i].line.tick /\ events'[i].line.tick <= tick[f]
      <4>. SUFFICES ASSUME NEW i \in DOMAIN events', From(f, i)'
                    PROVE  seen[f] <= events'[i].line.tick /\ events'[i].line.tick <= tick[f]
        OBVIOUS
      <4>1. CASE events'[i] = new
        BY <1>2, <1>3, <2>1, <4>1 DEF Bounded, From
      <4>2. CASE i + d \in DOMAIN events /\ events'[i] = events[i + d]
        BY <2>1, <4>2 DEF Bounded, From
      <4>. QED  BY <1>5, <4>1, <4>2
    <3>2. \A i \in DOMAIN stdout'[f] : \E k \in DOMAIN stdout[f] : stdout'[f][i] = stdout[f][k]
      BY <1>1, <1>2
    <3>. QED  BY <2>1, <3>1, <3>2 DEF Bounded
  <2>3. InPipe(f)'
    <3>1. CASE f = e
      <4>1. \A i \in DOMAIN r, j \in DOMAIN r : i < j => i + 1 < j + 1
        BY <1>2
      <4>2. /\ stdout'[f] = r
            /\ \A i, j \in DOMAIN q :
                 i < j /\ IsSnapshot(q[i]) /\ IsSnapshot(q[j]) => q[i].tick <= q[j].tick
        BY <1>1, <2>1, <3>1 DEF InPipe
      <4>. QED  BY <1>2, <4>1, <4>2 DEF InPipe
    <3>2. CASE f # e
      BY <1>1, <2>1, <3>2 DEF InPipe
    <3>. QED  BY <3>1, <3>2
  <2>4. InQueue(f)'
    <3>. SUFFICES ASSUME NEW i \in DOMAIN events', NEW j \in DOMAIN events', i < j,
                         From(f, i)', From(f, j)'
                  PROVE  events'[i].line.tick <= events'[j].line.tick
      BY DEF InQueue
    <3>1. i < Len(events') /\ i + d \in DOMAIN events /\ events'[i] = events[i + d] /\ From(f, i + d)
      <4>1. j <= Len(events')
        BY <1>4
      <4>2. i < Len(events')
        BY <1>6, <4>1
      <4>3. i + d \in DOMAIN events /\ events'[i] = events[i + d]
        BY <1>5, <1>6, <4>2
      <4>. QED  BY <4>2, <4>3 DEF From
    <3>2. CASE events'[j] = new
      <4>1. f = e /\ IsSnapshot(q[1])
        BY <1>3, <3>2 DEF From
      <4>. QED  BY <1>2, <1>3, <2>1, <3>1, <3>2, <4>1 DEF QueueFirst
    <3>3. CASE j + d \in DOMAIN events /\ events'[j] = events[j + d]
      <4>1. From(f, j + d) /\ i + d < j + d
        BY <1>6, <3>3 DEF From
      <4>. QED  BY <2>1, <3>1, <3>3, <4>1 DEF InQueue
    <3>. QED  BY <1>5, <3>2, <3>3
  <2>5. QueueFirst(f)'
    <3>. SUFFICES ASSUME NEW i \in DOMAIN events', NEW j \in DOMAIN stdout'[f],
                         From(f, i)', IsSnapshot(stdout'[f][j])
                  PROVE  events'[i].line.tick <= stdout'[f][j].tick
      BY DEF QueueFirst
    <3>1. CASE events'[i] = new
      <4>1. f = e /\ IsSnapshot(q[1])
        BY <1>3, <3>1 DEF From
      <4>2. j \in DOMAIN r /\ j + 1 \in DOMAIN q /\ r[j] = q[j + 1] /\ 1 < j + 1
        BY <1>1, <1>2, <1>7, <4>1
      <4>3. \A k \in DOMAIN q : 1 < k /\ IsSnapshot(q[1]) /\ IsSnapshot(q[k]) => q[1].tick <= q[k].tick
        BY <1>2, <2>1, <4>1 DEF InPipe
      <4>4. stdout'[f] = r
        BY <1>1, <4>1
      <4>. QED  BY <1>3, <3>1, <4>1, <4>2, <4>3, <4>4
    <3>2. CASE i + d \in DOMAIN events /\ events'[i] = events[i + d]
      <4>1. From(f, i + d)
        BY <3>2 DEF From
      <4>2. PICK k \in DOMAIN stdout[f] : stdout'[f][j] = stdout[f][k]
        BY <1>1, <1>2
      <4>. QED  BY <2>1, <3>2, <4>1, <4>2 DEF QueueFirst
    <3>. QED  BY <1>5, <3>1, <3>2
  <2>. QED  BY <2>2, <2>3, <2>4, <2>5
<1>. QED  BY <1>4, <1>8, <1>9 DEF Forward

(* The oldest event is dispatched, and shown if it is a snapshot.          *)
LEMMA ShowEvent ==
  ASSUME Types, Forward, events # << >>, events' = Tail(events), UNCHANGED <<tick, stdout>>,
         Deliver(Head(events).line, Head(events).from)
  PROVE  /\ Forward' /\ events' \in Seq(Events) /\ seen' \in [Engines -> Nat]
         /\ \A e \in Engines : seen'[e] >= seen[e]
<1>1. /\ events' \in Seq(Events) /\ Head(events) = events[1] /\ 1 \in DOMAIN events
      /\ \A i \in DOMAIN events' :
           i + 1 \in DOMAIN events /\ events'[i] = events[i + 1] /\ i \in Nat /\ 1 < i + 1
  <2>1. events \in Seq(Events)
    BY DEF Types
  <2>2. /\ events' \in Seq(Events) /\ Head(events) = events[1] /\ 1 \in DOMAIN events
        /\ \A i \in DOMAIN events' : i + 1 \in DOMAIN events /\ events'[i] = events[i + 1] /\ i \in Nat
    BY <2>1, TailFacts
  <2>. QED  BY <2>2
<1>2. \A i \in DOMAIN events' : \A f \in Engines :
        (events'[i].from = f /\ IsSnapshot(events'[i].line)) = From(f, i + 1)
  BY <1>1 DEF From
<1>3. seen \in [Engines -> Nat] /\ tick \in [Engines -> Nat]
  BY DEF Types
<1>4. ASSUME NEW f \in Engines PROVE (InPipe(f) /\ InQueue(f) /\ QueueFirst(f))'
  <2>1. InPipe(f) /\ InQueue(f) /\ QueueFirst(f)
    BY DEF Forward
  <2>2. InPipe(f)'
    BY <2>1 DEF InPipe
  <2>3. InQueue(f)'
    <3>1. \A i \in DOMAIN events', j \in DOMAIN events' : i < j => i + 1 < j + 1
      BY <1>1
    <3>. QED  BY <1>1, <1>2, <2>1, <3>1 DEF InQueue, From
  <2>4. QueueFirst(f)'
    BY <1>1, <1>2, <2>1 DEF QueueFirst, From
  <2>. QED  BY <2>2, <2>3, <2>4
<1>6. CASE UNCHANGED seen
  <2>1. \A f \in Engines : Bounded(f)'
    BY <1>1, <1>2, <1>6 DEF Forward, Bounded, From
  <2>. QED  BY <1>1, <1>3, <1>4, <1>6, <2>1 DEF Forward
<1>7. CASE /\ IsSnapshot(events[1].line)
           /\ seen' = [seen EXCEPT ![events[1].from] = events[1].line.tick]
  <2>. DEFINE n == events[1].line.tick
  <2>0. PICK e \in Engines : e = events[1].from
    BY <1>1, LineTypes
  <2>1. n \in Nat /\ From(e, 1)
    BY <1>1, <1>7, <2>0, LineTypes DEF From
  <2>2. seen'[e] = n /\ \A f \in Engines \ {e} : seen'[f] = seen[f]
    BY <1>3, <1>7, <2>0
  <2>3. seen' \in [Engines -> Nat]
    BY <1>3, <1>7, <2>0, <2>1
  <2>4. Bounded(e) /\ InQueue(e) /\ QueueFirst(e)
    BY <2>1 DEF Forward
  <2>5. seen[e] <= n /\ n <= tick[e]
    BY <1>1, <2>1, <2>4 DEF Bounded
  <2>6. \A i \in DOMAIN events' : From(e, i + 1) => n <= events[i + 1].line.tick
    BY <1>1, <2>1, <2>4 DEF InQueue
  <2>7. \A j \in DOMAIN stdout[e] : IsSnapshot(stdout[e][j]) => n <= stdout[e][j].tick
    BY <1>1, <2>1, <2>4 DEF QueueFirst
  <2>8. Bounded(e)'
    <3>1. /\ seen'[e] \in Nat /\ seen[e] <= seen'[e] /\ seen'[e] <= tick[e]
          /\ \A i \in DOMAIN events' : From(e, i + 1) => seen'[e] <= events[i + 1].line.tick
          /\ \A j \in DOMAIN stdout[e] :
               IsSnapshot(stdout[e][j]) => seen'[e] <= stdout[e][j].tick
      BY <2>1, <2>2, <2>5, <2>6, <2>7
    <3>. QED  BY <1>1, <1>2, <2>1, <2>4, <3>1 DEF Bounded, From
  <2>9. ASSUME NEW f \in Engines, f # e PROVE Bounded(f)'
    <3>1. Bounded(f) /\ seen'[f] = seen[f]
      BY <2>2, <2>9 DEF Forward
    <3>. QED  BY <1>1, <1>2, <3>1 DEF Bounded, From
  <2>10. \A f \in Engines : seen'[f] >= seen[f]
    BY <1>3, <2>1, <2>2, <2>5
  <2>11. ASSUME NEW f \in Engines
         PROVE  (Bounded(f) /\ InPipe(f) /\ InQueue(f) /\ QueueFirst(f))'
    <3>1. CASE f = e
      BY <1>4, <2>8, <3>1
    <3>2. CASE f # e
      BY <1>4, <2>9, <3>2
    <3>. QED  BY <3>1, <3>2
  <2>. QED  BY <1>1, <2>3, <2>10, <2>11 DEF Forward
<1>. QED  BY <1>1, <1>6, <1>7 DEF Deliver, IsSnapshot

(***************************************************************************)
(* The actions.                                                            *)
(***************************************************************************)
LEMMA SameTypes ==
  ASSUME BridgeInv, UNCHANGED <<current, running, reader, readFrom, stdin, Data>>
  PROVE  BridgeInv'
<1>1. Forward'
  BY SameLines DEF BridgeInv
<1>. QED  BY <1>1 DEF BridgeInv, Types, RunningMeansRead, Data

LEMMA EngineSteps ==
  ASSUME BridgeInv, NEW e \in Engines, RunEngine(e)
  PROVE  BridgeInv'
<1>1. /\ Types /\ Forward /\ RunningMeansRead
      /\ UNCHANGED <<current, running, reader, readFrom, events, seen>>
  BY DEF BridgeInv, RunEngine, processVars, serviceVars
<1>2. RunningMeansRead'
  BY <1>1 DEF RunningMeansRead
<1>3. CASE Boot(e)
  <2>1. <<Banner, Ready>> \in Seq(Lines) /\ \A i \in DOMAIN <<Banner, Ready>> :
           ~IsSnapshot(<<Banner, Ready>>[i])
    BY QuietLines
  <2>2. /\ stdout' = [stdout EXCEPT ![e] = stdout[e] \o <<Banner, Ready>>]
        /\ UNCHANGED <<tick, stdin>>
    BY <1>3 DEF Boot
  <2>3. Forward' /\ stdout' \in [Engines -> Seq(Lines)]
    BY <1>1, <2>1, <2>2, QuietWrite
  <2>. QED  BY <1>1, <1>2, <2>2, <2>3 DEF BridgeInv, Types
<1>4. CASE HandleCommand(e)
  <2>1. Head(stdin[e]) \in AllCommands /\ Tail(stdin[e]) \in Seq(AllCommands)
    <3>1. stdin[e] \in Seq(AllCommands) /\ stdin[e] # << >>
      BY <1>1, <1>4 DEF HandleCommand, Types
    <3>. QED  BY <3>1, TailFacts
  <2>2. PICK l \in Lines : Reply(Head(stdin[e])) = <<l>> /\ ~IsSnapshot(l)
    BY <2>1, QuietLines
  <2>3. <<l>> \in Seq(Lines) /\ \A i \in DOMAIN <<l>> : ~IsSnapshot(<<l>>[i])
    BY <2>2
  <2>4. stdout' = [stdout EXCEPT ![e] = stdout[e] \o <<l>>] /\ UNCHANGED tick
        /\ stdin' = [stdin EXCEPT ![e] = Tail(stdin[e])]
    BY <1>4, <2>2 DEF HandleCommand
  <2>5. Forward' /\ stdout' \in [Engines -> Seq(Lines)]
    BY <1>1, <2>3, <2>4, QuietWrite
  <2>6. stdin' \in [Engines -> Seq(AllCommands)]
    BY <1>1, <2>1, <2>4 DEF Types
  <2>. QED  BY <1>1, <1>2, <2>4, <2>5, <2>6 DEF BridgeInv, Types
<1>5. CASE ReadEof(e)
  BY <1>1, <1>5, SameTypes DEF ReadEof, Data
<1>6. CASE Tick(e)
  <2>1. /\ tick' = [tick EXCEPT ![e] = @ + 1]
        /\ stdout' = [stdout EXCEPT ![e] = Append(@, Snapshot(tick[e] + 1))] /\ UNCHANGED stdin
    BY <1>6 DEF Tick
  <2>2. Forward' /\ stdout' \in [Engines -> Seq(Lines)] /\ tick' \in [Engines -> Nat]
    BY <1>1, <2>1, TickWrite
  <2>. QED  BY <1>1, <1>2, <2>1, <2>2 DEF BridgeInv, Types
<1>. QED  BY <1>3, <1>4, <1>5, <1>6 DEF RunEngine, EngineStep

LEMMA ReaderSteps ==
  ASSUME BridgeInv, NEW t \in Engines, ReaderStep(t)
  PROVE  BridgeInv'
<1>1. /\ Types /\ Forward /\ RunningMeansRead
      /\ UNCHANGED <<current, tick, seen, stdin>> /\ reader[t] \in {"created", "reading"}
  BY DEF BridgeInv, ReaderStep, BeginReading, ReadLine, ReadOversizedLine, ReadEndOfStream,
         ipcVars, serviceVars
<1>2. AwaitLine(t) \/ (EndReader(t) /\ UNCHANGED readFrom)
  BY DEF ReaderStep, BeginReading, ReadLine, ReadOversizedLine, ReadEndOfStream
<1>3. /\ RunningMeansRead'
      /\ reader' \in [Engines -> {"none", "created", "reading", "done"}]
      /\ readFrom' \in [Engines -> Engines \union {NoEngine}]
      /\ \A u \in Engines : reader'[u] \in {"created", "reading"} => current \in Engines
      /\ \A u \in Engines : reader'[u] = "reading" => readFrom'[u] \in Engines
  BY <1>1, <1>2, AwaitReads
<1>4. ASSUME Forward', stdout' \in [Engines -> Seq(Lines)], events' \in Seq(Events)
      PROVE  BridgeInv'
  BY <1>1, <1>3, <1>4 DEF BridgeInv, Types
<1>5. CASE UNCHANGED <<stdout, events>>
  <2>1. Forward'
    BY <1>1, <1>5, SameLines DEF Data
  <2>. QED  BY <1>1, <1>4, <1>5, <2>1 DEF Types
<1>6. CASE ReadLine(t) \/ ReadOversizedLine(t)
  <2>. DEFINE e == readFrom[t]
  <2>1. e \in Engines
    BY <1>1, <1>6 DEF ReadLine, ReadOversizedLine, Types
  <2>2. stdout[e] # << >> /\ stdout' = [stdout EXCEPT ![e] = Tail(@)]
    BY <1>6 DEF ReadLine, ReadOversizedLine
  <2>3. CASE UNCHANGED events
    <3>1. Forward' /\ stdout' \in [Engines -> Seq(Lines)]
      BY <1>1, <2>1, <2>2, <2>3, TakeLine
    <3>. QED  BY <1>1, <1>4, <2>3, <3>1 DEF Types
  <2>4. CASE events' = PutDropOldest(events, [line |-> Head(stdout[e]), from |-> e], QueueSize)
    <3>1. Forward' /\ stdout' \in [Engines -> Seq(Lines)] /\ events' \in Seq(Events)
      BY <1>1, <2>1, <2>2, <2>4, QueueLine
    <3>. QED  BY <1>4, <3>1
  <2>. QED  BY <1>6, <2>3, <2>4 DEF ReadLine, ReadOversizedLine
<1>. QED  BY <1>5, <1>6 DEF ReaderStep, BeginReading, ReadEndOfStream, ipcVars

LEMMA ProcessSteps ==
  ASSUME BridgeInv, Start \/ Restart \/ FinishStop
  PROVE  BridgeInv'
<1>1. Types /\ Forward /\ UNCHANGED <<readFrom, stdin, Data>>
  BY DEF BridgeInv, Start, Restart, FinishStop, StartProcess, Spawn, Data, ipcVars, serviceVars
<1>2. Forward'
  BY <1>1, SameLines
<1>3. CASE \E e \in Engines : StartProcess(e)
  <2>1. PICK e \in Engines : StartProcess(e)
    BY <1>3
  <2>. QED  BY <1>1, <1>2, <2>1 DEF StartProcess, BridgeInv, Types, RunningMeansRead, Data
<1>4. CASE FinishStop
  BY <1>1, <1>2, <1>4 DEF FinishStop, BridgeInv, Types, RunningMeansRead, Data
<1>. QED  BY <1>3, <1>4 DEF Start, Restart

LEMMA DispatchSteps ==
  ASSUME BridgeInv, Dispatch
  PROVE  BridgeInv' /\ \A e \in Engines : seen'[e] >= seen[e]
<1>1. /\ Types /\ Forward /\ events # << >> /\ events' = Tail(events)
      /\ UNCHANGED <<tick, stdout, stdin, current, running, reader, readFrom>>
      /\ Deliver(Head(events).line, Head(events).from)
  BY DEF BridgeInv, Dispatch, ipcVars, processVars
<1>2. /\ Forward' /\ events' \in Seq(Events) /\ seen' \in [Engines -> Nat]
      /\ \A e \in Engines : seen'[e] >= seen[e]
  BY <1>1, ShowEvent
<1>. QED  BY <1>1, <1>2 DEF BridgeInv, Types, RunningMeansRead

LEMMA CommandSteps ==
  ASSUME BridgeInv, BeginStop \/ \E cmd \in Commands : SendCommand(cmd)
  PROVE  BridgeInv'
<1>1. /\ UNCHANGED <<current, running, reader, readFrom, Data>>
      /\ \/ UNCHANGED stdin
         \/ \E cmd \in AllCommands : stdin' = [stdin EXCEPT ![current] = Append(@, cmd)]
  BY DEF BeginStop, SendCommand, processVars, serviceVars, Data, AllCommands
<1>2. stdin' \in [Engines -> Seq(AllCommands)]
  <2>1. CASE UNCHANGED stdin
    BY <2>1 DEF BridgeInv, Types
  <2>2. ASSUME NEW cmd \in AllCommands, stdin' = [stdin EXCEPT ![current] = Append(@, cmd)]
        PROVE  stdin' \in [Engines -> Seq(AllCommands)]
    <3>1. CASE current \in Engines
      <4>1. stdin[current] \in Seq(AllCommands)
        BY <3>1 DEF BridgeInv, Types
      <4>2. Append(stdin[current], cmd) \in Seq(AllCommands)
        BY <4>1
      <4>. QED  BY <2>2, <3>1, <4>2 DEF BridgeInv, Types
    <3>2. CASE current \notin Engines
      BY <2>2, <3>2 DEF BridgeInv, Types
    <3>. QED  BY <3>1, <3>2
  <2>. QED  BY <1>1, <2>1, <2>2
<1>3. Forward'
  BY <1>1, SameLines DEF BridgeInv
<1>. QED  BY <1>1, <1>2, <1>3 DEF BridgeInv, Types, RunningMeansRead, Data

LEMMA OtherSteps ==
  ASSUME BridgeInv,
         \/ \E e \in Engines : Crash(e)
         \/ NoticeExit \/ RestartFails \/ Serve \/ Broadcast \/ BeginStopFails
         \/ StopTimesOut \/ StopKillFails
  PROVE  BridgeInv' /\ UNCHANGED seen
<1>1. UNCHANGED <<current, running, reader, readFrom, stdin, Data>>
  BY DEF Crash, Die, NoticeExit, RestartFails, Serve, Broadcast, BeginStopFails, StopTimesOut,
         StopKillFails, ipcVars, processVars, serviceVars, Data
<1>. QED  BY <1>1, SameTypes DEF Data

LEMMA InitInv ==
  ASSUME Init
  PROVE  BridgeInv
<1>1. << >> \in Seq(Lines) /\ << >> \in Seq(Events) /\ << >> \in Seq(AllCommands)
  OBVIOUS
<1>2. Types /\ RunningMeansRead
  BY <1>1 DEF Init, IpcInit, Types, RunningMeansRead
<1>3. Forward
  BY DEF Init, IpcInit, Forward, Bounded, InPipe, InQueue, QueueFirst
<1>. QED  BY <1>2, <1>3 DEF BridgeInv

LEMMA NextInv ==
  ASSUME BridgeInv, [Next]_vars
  PROVE  BridgeInv' /\ \A e \in Engines : seen'[e] >= seen[e]
<1>1. \A e \in Engines : seen[e] \in Nat
  BY DEF BridgeInv, Types
<1>2. ASSUME UNCHANGED seen PROVE \A e \in Engines : seen'[e] >= seen[e]
  BY <1>1, <1>2
<1>3. CASE UNCHANGED vars
  BY <1>2, <1>3, SameTypes DEF vars, ipcVars, processVars, serviceVars, Data
<1>4. ASSUME NEW e \in Engines, RunEngine(e) PROVE BridgeInv' /\ UNCHANGED seen
  BY <1>4, EngineSteps DEF RunEngine, serviceVars
<1>5. ASSUME NEW e \in Engines, ReaderStep(e) PROVE BridgeInv' /\ UNCHANGED seen
  BY <1>5, ReaderSteps DEF ReaderStep, BeginReading, ReadLine, ReadOversizedLine,
     ReadEndOfStream, serviceVars
<1>6. CASE Start \/ Restart \/ FinishStop
  BY <1>2, <1>6, ProcessSteps DEF Start, Restart, FinishStop, serviceVars
<1>7. CASE BeginStop \/ \E cmd \in Commands : SendCommand(cmd)
  BY <1>2, <1>7, CommandSteps DEF BeginStop, SendCommand, serviceVars
<1>8. CASE Dispatch
  BY <1>8, DispatchSteps
<1>9. CASE \/ \E e \in Engines : Crash(e)
           \/ NoticeExit \/ RestartFails \/ Serve \/ Broadcast \/ BeginStopFails
           \/ StopTimesOut \/ StopKillFails
  BY <1>2, <1>9, OtherSteps
<1>. QED  BY <1>2, <1>3, <1>4, <1>5, <1>6, <1>7, <1>8, <1>9 DEF Next, DispatcherStep, StopStep

(***************************************************************************)
(* An engine that passes for running has a reader: whatever ends a reader, *)
(* the flag goes with it.                                                  *)
(***************************************************************************)
THEOREM RunningEnginesAreRead == Spec => []RunningMeansRead
<1>1. Init => BridgeInv
  BY InitInv
<1>2. BridgeInv /\ [Next]_vars => BridgeInv'
  BY NextInv
<1>3. BridgeInv => RunningMeansRead
  BY DEF BridgeInv
<1>. QED  BY <1>1, <1>2, <1>3, PTL DEF Spec

(***************************************************************************)
(* What the clients are shown of an engine goes forward, whatever was      *)
(* dropped on the way and however many tasks read its output.              *)
(***************************************************************************)
THEOREM FeedAlwaysGoesForward == Spec => FeedGoesForward
<1>1. Init => BridgeInv
  BY InitInv
<1>2. BridgeInv /\ [Next]_vars => BridgeInv'
  BY NextInv
<1>3. BridgeInv /\ [Next]_vars => [\A e \in Engines : seen'[e] >= seen[e]]_vars
  BY NextInv
<1>. QED  BY <1>1, <1>2, <1>3, PTL DEF Spec, FeedGoesForward

(***************************************************************************)
(* The process stop() waits for was started, and never starts again.       *)
(***************************************************************************)
LifeInv ==
  /\ proc \in [Engines -> {"unborn", "booting", "looping", "exited"}]
  /\ lifespan # "starting" => current \in Engines /\ proc[current] # "unborn"
  /\ lifespan = "stopping" => stopped \in Engines /\ proc[stopped] # "unborn"

(* stop() has one process to wait for, and another one, which is dead, at  *)
(* most once: when it has exited nothing but the end of stop() is left,    *)
(* whatever the dispatcher starts meanwhile.                               *)
StopNears ==
  lifespan = "stopping" =>
    \/ lifespan' \in {"stopped", "failed"}
    \/ /\ lifespan' = "stopping"
       /\ UNCHANGED stopped \/ ~Live(stopped)'
       /\ ~Live(stopped) => UNCHANGED stopped /\ ~Live(stopped)'

\* The life of a process: nothing brings it back.
GrowsOld(e) ==
  /\ proc[e] # "unborn" => proc'[e] # "unborn"
  /\ proc[e] = "exited" => proc'[e] = "exited"

LEMMA ProcessesGrowOld ==
  ASSUME LifeInv, [Next]_vars
  PROVE  /\ proc' \in [Engines -> {"unborn", "booting", "looping", "exited"}]
         /\ \A e \in Engines : GrowsOld(e)
<1>. USE DEF LifeInv, GrowsOld
<1>1. ASSUME NEW e \in Engines, Spawn(e) \/ Die(e) \/ EngineStep(e) \/ UNCHANGED proc
      PROVE  /\ proc' \in [Engines -> {"unborn", "booting", "looping", "exited"}]
             /\ \A x \in Engines : GrowsOld(x)
  <2>1. CASE Spawn(e)
    BY <2>1 DEF Spawn
  <2>2. CASE Die(e)
    BY <2>2 DEF Die, Live
  <2>3. CASE Boot(e)
    BY <2>3 DEF Boot
  <2>4. CASE HandleCommand(e)
    BY <2>4 DEF HandleCommand
  <2>5. CASE ReadEof(e)
    BY <2>5 DEF ReadEof
  <2>6. CASE Tick(e) \/ UNCHANGED proc
    BY <2>6 DEF Tick
  <2>. QED  BY <1>1, <2>1, <2>2, <2>3, <2>4, <2>5, <2>6 DEF EngineStep
<1>2. CASE UNCHANGED proc
  BY <1>2
<1>3. ASSUME NEW e \in Engines, RunEngine(e) \/ Crash(e) \/ ReaderStep(e)
      PROVE  Die(e) \/ EngineStep(e) \/ UNCHANGED proc
  BY <1>3 DEF RunEngine, Crash, ReaderStep, BeginReading, ReadLine, ReadOversizedLine,
              ReadEndOfStream, ipcVars
<1>4. CASE Start \/ Restart
  BY <1>1, <1>4 DEF Start, Restart, StartProcess
<1>5. CASE StopTimesOut
  <2>1. CASE current \in Engines
    BY <1>1, <1>5, <2>1 DEF StopTimesOut
  <2>. QED  BY <1>5, <2>1 DEF StopTimesOut
<1>6. CASE \/ Dispatch \/ NoticeExit \/ RestartFails \/ Serve \/ Broadcast
           \/ \E cmd \in Commands : SendCommand(cmd)
           \/ BeginStop \/ BeginStopFails \/ StopKillFails \/ FinishStop \/ UNCHANGED vars
  <2>1. UNCHANGED proc
    BY <1>6 DEF Dispatch, NoticeExit, RestartFails, Serve, Broadcast, SendCommand, BeginStop,
                BeginStopFails, StopKillFails, FinishStop, vars, ipcVars
  <2>. QED  BY <1>2, <2>1
<1>. QED
  BY <1>1, <1>3, <1>4, <1>5, <1>6 DEF Next, DispatcherStep, StopStep

LEMMA LifeStep ==
  ASSUME LifeInv, [Next]_vars
  PROVE  LifeInv' /\ [StopNears]_vars
<1>1. /\ proc' \in [Engines -> {"unborn", "booting", "looping", "exited"}]
      /\ \A e \in Engines : GrowsOld(e)
  BY ProcessesGrowOld
<1>2. ASSUME NEW e \in Engines, proc[e] # "unborn", ~Live(e) PROVE ~Live(e)'
  <2>1. proc[e] = "exited"
    BY <1>2 DEF LifeInv, Live
  <2>. QED  BY <1>1, <2>1 DEF GrowsOld, Live
<1>3. CASE UNCHANGED <<current, lifespan, stopped>>
  <2>1. LifeInv'
    BY <1>1, <1>3 DEF LifeInv, GrowsOld
  <2>2. StopNears
    BY <1>2, <1>3 DEF LifeInv, StopNears
  <2>. QED  BY <2>1, <2>2
<1>4. CASE Start \/ Restart
  <2>1. PICK e \in Engines : StartProcess(e)
    BY <1>4 DEF Start, Restart
  <2>2. current' = e /\ proc'[e] = "booting"
    BY <2>1 DEF StartProcess, Spawn, LifeInv
  <2>3. LifeInv'
    BY <1>1, <1>4, <2>2 DEF LifeInv, GrowsOld, Start, Restart
  <2>4. StopNears
    BY <1>2, <1>4 DEF LifeInv, StopNears, Start, Restart
  <2>. QED  BY <2>3, <2>4
<1>5. CASE Serve
  BY <1>1, <1>5 DEF Serve, LifeInv, GrowsOld, StopNears, processVars
<1>6. CASE BeginStop \/ BeginStopFails
  BY <1>1, <1>6 DEF BeginStop, BeginStopFails, LifeInv, GrowsOld, StopNears, processVars
<1>7. CASE StopTimesOut
  <2>1. /\ lifespan = "stopping" /\ current \in Engines /\ Live(stopped)
        /\ UNCHANGED <<current, lifespan>> /\ stopped' = current
    BY <1>7 DEF StopTimesOut, LifeInv, processVars
  <2>2. proc'[current] = "exited"
    BY <1>7, <2>1 DEF StopTimesOut, Die, LifeInv
  <2>3. LifeInv'
    BY <1>1, <2>1, <2>2 DEF LifeInv
  <2>4. StopNears
    BY <2>1, <2>2 DEF StopNears, Live
  <2>. QED  BY <2>3, <2>4
<1>8. CASE StopKillFails \/ FinishStop
  BY <1>1, <1>8 DEF StopKillFails, FinishStop, LifeInv, GrowsOld, StopNears, processVars
<1>9. CASE \/ \E e \in Engines : RunEngine(e) \/ Crash(e) \/ ReaderStep(e)
           \/ Dispatch \/ NoticeExit \/ RestartFails \/ Broadcast
           \/ \E cmd \in Commands : SendCommand(cmd)
           \/ UNCHANGED vars
  <2>1. UNCHANGED <<current, lifespan, stopped>>
    BY <1>9 DEF RunEngine, Crash, ReaderStep, BeginReading, ReadLine, ReadOversizedLine,
                ReadEndOfStream, Dispatch, NoticeExit, RestartFails, Broadcast, SendCommand,
                vars, processVars
  <2>. QED  BY <1>3, <2>1
<1>. QED
  BY <1>4, <1>5, <1>6, <1>7, <1>8, <1>9 DEF Next, DispatcherStep, StopStep

(***************************************************************************)
(* A stop that began ends, or comes nearer to its end, with every step     *)
(* that concerns it: what StopEnds needs beside fairness.                  *)
(***************************************************************************)
THEOREM StopsComeNearer == Spec => [][StopNears]_vars
<1>1. Init => LifeInv
  BY DEF Init, IpcInit, LifeInv
<1>. QED  BY <1>1, LifeStep, PTL DEF Spec
=============================================================================
