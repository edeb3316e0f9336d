-------------------------- MODULE EngineIpcRunProofs --------------------------
(***************************************************************************)
(* Proofs about EngineIpcRun: whatever a parent writes and whenever it     *)
(* reads, what the engine's answers tell it, for any commands, any number  *)
(* of engines and any capacity of the pipes.                               *)
(***************************************************************************)
EXTENDS EngineIpcRun, SequenceTheorems, FiniteSetTheorems, TLAPS

Events == {"banner", "ready", "snapshot", "ack", "error"}
Lines == [event : Events, cmd : Commands \union {""}, tick : Nat]

Types ==
  /\ proc \in [Engines -> {"unborn", "booting", "looping", "exited"}]
  /\ sent \in [Engines -> Seq(Commands)]
  /\ stdin \in [Engines -> Seq(Commands)]
  /\ stdout \in [Engines -> Seq(Lines)]
  /\ received \in [Engines -> Seq(Lines)]
  /\ paused \in [Engines -> BOOLEAN]
  /\ tick \in [Engines -> Nat]

\* The answers in an output answer the first n commands.
Answered(out, cmds, n) ==
  /\ Cardinality(Answers(out)) = n
  /\ \A i \in Answers(out) : /\ out[i].cmd = cmds[Rank(out, i)]
                             /\ out[i].event = "ack" <=> out[i].cmd \in KnownCommands

\* What is in stdin is the rest of what was sent.
IsRest(waiting, cmds) ==
  /\ Len(waiting) <= Len(cmds)
  /\ \A i \in 1 .. Len(waiting) : waiting[i] = cmds[Len(cmds) - Len(waiting) + i]

\* Snapshots between a pause and the next resume, and what a shutdown leaves.
Honours(out) ==
  /\ \A i \in Acks(out, "pause"), j \in DOMAIN out :
       i < j /\ out[j].event = "snapshot" => \E k \in Acks(out, "resume") : i < k /\ k < j
  /\ \A i \in Acks(out, "shutdown") : i = Len(out)

(* An engine that has acknowledged a pause and no resume since is paused,  *)
(* and one that has acknowledged a shutdown has exited.                    *)
Obeys(out, isPaused, state) ==
  /\ \A i \in Acks(out, "pause") : isPaused \/ \E k \in Acks(out, "resume") : i < k
  /\ Acks(out, "shutdown") # {} => state = "exited"

Good(out, cmds, waiting, isPaused, state) ==
  /\ Answered(out, cmds, Len(cmds) - Len(waiting))
  /\ IsRest(waiting, cmds)
  /\ Honours(out)
  /\ Obeys(out, isPaused, state)

EngineInv(e) == Good(Output(e), sent[e], stdin[e], paused[e], proc[e])

IpcInv == Types /\ \A e \in Engines : EngineInv(e)

-----------------------------------------------------------------------------
(* Outputs that grow by a line *)

LEMMA OneMore ==
  ASSUME NEW out \in Seq(Lines), NEW line \in Lines
  PROVE  LET more == Append(out, line) IN
         /\ more \in Seq(Lines) /\ Len(more) = Len(out) + 1 /\ Len(out) \in Nat
         /\ DOMAIN out = 1 .. Len(out) /\ DOMAIN more = 1 .. Len(out) + 1
         /\ more[Len(out) + 1] = line
         /\ \A i \in DOMAIN out : more[i] = out[i]
BY AppendProperties, LenProperties

LEMMA AnswersFinite ==
  ASSUME NEW out \in Seq(Lines)
  PROVE  /\ IsFiniteSet(Answers(out)) /\ Cardinality(Answers(out)) \in Nat
         /\ \A i : /\ IsFiniteSet({j \in Answers(out) : j <= i})
                   /\ Rank(out, i) \in Nat /\ Rank(out, i) <= Cardinality(Answers(out))
         /\ \A i \in Answers(out) : Rank(out, i) >= 1
<1>1. Len(out) \in Nat /\ DOMAIN out = 1 .. Len(out)
  BY LenProperties
<1>2. IsFiniteSet(1 .. Len(out))
  <2>1. 1 \in Int /\ Len(out) \in Int
    BY <1>1
  <2>. QED  BY <2>1, FS_Interval
<1>3. Answers(out) \subseteq 1 .. Len(out)
  BY <1>1 DEF Answers
<1>4. IsFiniteSet(Answers(out)) /\ Cardinality(Answers(out)) \in Nat
  BY <1>2, <1>3, FS_Subset, FS_CardinalityType
<1>5. ASSUME NEW i
      PROVE  /\ IsFiniteSet({j \in Answers(out) : j <= i})
             /\ Rank(out, i) \in Nat /\ Rank(out, i) <= Cardinality(Answers(out))
  <2>. DEFINE upTo == {j \in Answers(out) : j <= i}
  <2>1. upTo \subseteq Answers(out)
    OBVIOUS
  <2>. HIDE DEF upTo
  <2>2. IsFiniteSet(upTo) /\ Cardinality(upTo) \in Nat
        /\ Cardinality(upTo) <= Cardinality(Answers(out))
    BY <1>4, <2>1, FS_Subset, FS_CardinalityType
  <2>. QED  BY <2>2 DEF Rank, upTo
<1>6. ASSUME NEW i \in Answers(out) PROVE Rank(out, i) >= 1
  <2>. DEFINE upTo == {j \in Answers(out) : j <= i}
  <2>1. i \in upTo
    BY <1>1, <1>3
  <2>2. IsFiniteSet(upTo) /\ Cardinality(upTo) \in Nat
    BY <1>5 DEF Rank
  <2>. HIDE DEF upTo
  <2>3. Cardinality(upTo) # 0
    BY <2>1, <2>2, FS_EmptySet
  <2>. QED  BY <2>2, <2>3 DEF Rank, upTo
<1>. QED  BY <1>4, <1>5, <1>6

\* The answers that were there keep their rank.
LEMMA RankKept ==
  ASSUME NEW out \in Seq(Lines), NEW line \in Lines
  PROVE  LET more == Append(out, line) IN
         /\ Answers(more) = IF line.event \in Replies THEN Answers(out) \union {Len(out) + 1}
                                                     ELSE Answers(out)
         /\ \A i \in Answers(out) : Rank(more, i) = Rank(out, i)
<1>. DEFINE more == Append(out, line)
<1>1. /\ Len(out) \in Nat /\ DOMAIN out = 1 .. Len(out) /\ DOMAIN more = 1 .. Len(out) + 1
      /\ more[Len(out) + 1] = line /\ \A i \in 1 .. Len(out) : more[i] = out[i]
  BY OneMore
<1>. HIDE DEF more
<1>2. Answers(more) = IF line.event \in Replies THEN Answers(out) \union {Len(out) + 1}
                                                ELSE Answers(out)
  BY <1>1 DEF Answers
<1>3. ASSUME NEW i \in Answers(out)
      PROVE  Rank(more, i) = Rank(out, i)
  <2>1. i \in 1 .. Len(out)
    BY <1>1 DEF Answers
  <2>2. {j \in Answers(more) : j <= i} = {j \in Answers(out) : j <= i}
    BY <1>1, <1>2, <2>1
  <2>. QED  BY <2>2 DEF Rank
<1>. QED  BY <1>2, <1>3 DEF more

LEMMA SilenceAnswersNothing ==
  ASSUME NEW out \in Seq(Lines), NEW line \in Lines, line.event \notin Replies,
         NEW cmds, NEW n, Answered(out, cmds, n)
  PROVE  Answered(Append(out, line), cmds, n)
<1>1. /\ Answers(Append(out, line)) = Answers(out)
      /\ \A i \in Answers(out) : Rank(Append(out, line), i) = Rank(out, i)
  BY RankKept
<1>2. \A i \in Answers(out) : Append(out, line)[i] = out[i]
  BY OneMore DEF Answers
<1>. QED  BY <1>1, <1>2 DEF Answered

LEMMA ReplyAnswersNext ==
  ASSUME NEW out \in Seq(Lines), NEW cmds \in Seq(Commands), NEW n \in 0 .. Len(cmds) - 1,
         Answered(out, cmds, n), NEW line \in Lines,
         line.event = IF cmds[n + 1] \in KnownCommands THEN "ack" ELSE "error",
         line.cmd = cmds[n + 1]
  PROVE  Answered(Append(out, line), cmds, n + 1)
<1>. DEFINE more == Append(out, line)
            last == Len(out) + 1
<1>1. line.event \in Replies
  BY DEF Replies
<1>2. /\ Answers(more) = Answers(out) \union {last}
      /\ \A i \in Answers(out) : Rank(more, i) = Rank(out, i)
  BY <1>1, RankKept
<1>3. /\ Len(out) \in Nat /\ DOMAIN out = 1 .. Len(out) /\ more \in Seq(Lines)
      /\ more[last] = line /\ \A i \in Answers(out) : more[i] = out[i]
  BY OneMore DEF Answers
<1>4. last \notin Answers(out) /\ \A i \in Answers(out) : i <= last
  BY <1>3 DEF Answers
<1>5. Cardinality(Answers(more)) = n + 1
  <2>1. IsFiniteSet(Answers(out)) /\ Cardinality(Answers(out)) = n
    BY AnswersFinite DEF Answered
  <2>2. Cardinality(Answers(out) \union {last}) = Cardinality(Answers(out)) + 1
    BY <1>4, <2>1, FS_AddElement
  <2>. QED  BY <1>2, <2>1, <2>2
<1>6. Rank(more, last) = n + 1
  <2>1. {j \in Answers(more) : j <= last} = Answers(more)
    BY <1>2, <1>3, <1>4
  <2>. QED  BY <1>5, <2>1 DEF Rank
<1>. HIDE DEF more, last
<1>7. \A i \in Answers(more) : /\ more[i].cmd = cmds[Rank(more, i)]
                               /\ more[i].event = "ack" <=> more[i].cmd \in KnownCommands
  BY <1>2, <1>3, <1>6 DEF Answered
<1>8. Answered(more, cmds, n + 1)
  BY <1>5, <1>7 DEF Answered
<1>. QED  BY <1>8 DEF more

\* Another command leaves the answers to the earlier ones.
LEMMA CommandWaits ==
  ASSUME NEW out \in Seq(Lines), NEW cmds \in Seq(Commands), NEW c \in Commands,
         NEW n \in 0 .. Len(cmds), Answered(out, cmds, n)
  PROVE  Answered(out, Append(cmds, c), n)
<1>1. \A k \in 1 .. Len(cmds) : Append(cmds, c)[k] = cmds[k]
  BY AppendProperties, LenProperties
<1>2. \A i \in Answers(out) : Rank(out, i) \in 1 .. Len(cmds)
  <2>1. Len(cmds) \in Nat
    BY LenProperties
  <2>2. Cardinality(Answers(out)) = n
    BY DEF Answered
  <2>3. \A i \in Answers(out) : Rank(out, i) \in Nat /\ Rank(out, i) <= n /\ Rank(out, i) >= 1
    BY <2>2, AnswersFinite
  <2>. QED  BY <2>1, <2>3
<1>. QED  BY <1>1, <1>2 DEF Answered

-----------------------------------------------------------------------------
(* What one engine does *)

LEMMA AcksGrow ==
  ASSUME NEW out \in Seq(Lines), NEW line \in Lines, NEW cmd
  PROVE  Acks(Append(out, line), cmd)
           = Acks(out, cmd) \union IF line.event = "ack" /\ line.cmd = cmd THEN {Len(out) + 1} ELSE {}
BY OneMore DEF Acks

\* A line that is no answer: after a pause only if it is no snapshot.
LEMMA LineIsGood ==
  ASSUME NEW out \in Seq(Lines), NEW cmds, NEW waiting, NEW isPaused, NEW state,
         Good(out, cmds, waiting, isPaused, state), state # "exited",
         NEW line \in Lines, line.event \notin Replies,
         line.event = "snapshot" => ~isPaused,
         NEW next, next = "exited" \/ next # "exited"
  PROVE  Good(Append(out, line), cmds, waiting, isPaused, next)
<1>. DEFINE more == Append(out, line)
            last == Len(out) + 1
<1>1. /\ Len(out) \in Nat /\ DOMAIN out = 1 .. Len(out) /\ DOMAIN more = 1 .. last
      /\ more[last] = line /\ \A i \in 1 .. Len(out) : more[i] = out[i]
  BY OneMore
<1>2. \A cmd : Acks(more, cmd) = Acks(out, cmd) /\ Acks(out, cmd) \subseteq 1 .. Len(out)
  BY <1>1, AcksGrow DEF Replies, Acks
<1>3. Acks(out, "shutdown") = {}
  BY DEF Good, Obeys
<1>4. Answered(more, cmds, Len(cmds) - Len(waiting))
  BY SilenceAnswersNothing DEF Good
<1>. HIDE DEF more
<1>5. Honours(more)
  <2>1. ASSUME NEW i \in Acks(out, "pause"), NEW j \in 1 .. last, i < j, more[j].event = "snapshot"
        PROVE  \E k \in Acks(out, "resume") : i < k /\ k < j
    <3>1. CASE j \in 1 .. Len(out)
      BY <1>1, <2>1, <3>1 DEF Good, Honours
    <3>2. CASE j = last
      <4>1. ~isPaused
        BY <1>1, <2>1, <3>2
      <4>2. PICK k \in Acks(out, "resume") : i < k
        BY <4>1 DEF Good, Obeys
      <4>. QED  BY <1>1, <1>2, <3>2, <4>2
    <3>. QED  BY <1>1, <3>1, <3>2
  <2>. QED  BY <1>1, <1>2, <1>3, <2>1 DEF Honours
<1>6. Obeys(more, isPaused, next)
  BY <1>2, <1>3 DEF Good, Obeys
<1>7. IsRest(waiting, cmds)
  BY DEF Good
<1>8. Good(more, cmds, waiting, isPaused, next)
  BY <1>4, <1>5, <1>6, <1>7 DEF Good
<1>. QED  BY <1>8 DEF more

\* The answer to the first command that waits.
LEMMA ReplyIsGood ==
  ASSUME NEW out \in Seq(Lines), NEW cmds \in Seq(Commands), NEW waiting \in Seq(Commands),
         waiting # << >>, NEW isPaused \in BOOLEAN, NEW state,
         Good(out, cmds, waiting, isPaused, state), state # "exited",
         NEW cmd \in Commands, cmd = Head(waiting)
  PROVE  LET event == IF cmd \in KnownCommands THEN "ack" ELSE "error"
             next == IF cmd = "shutdown" THEN "exited" ELSE state
         IN  Good(Append(out, Line(event, cmd, 0)), cmds, Tail(waiting),
                  PausedBy(cmd, isPaused), next)
<1>. DEFINE event == IF cmd \in KnownCommands THEN "ack" ELSE "error"
            line == Line(event, cmd, 0)
            more == Append(out, line)
            last == Len(out) + 1
            next == IF cmd = "shutdown" THEN "exited" ELSE state
            n == Len(cmds) - Len(waiting)
<1>0. /\ line \in Lines /\ line.event = event /\ line.cmd = cmd
      /\ event \in {"ack", "error"} /\ (event = "ack" <=> cmd \in KnownCommands)
  BY DEF Line, Lines, Events
<1>. HIDE DEF line, event
<1>1. /\ Len(out) \in Nat /\ DOMAIN out = 1 .. Len(out) /\ DOMAIN more = 1 .. last
      /\ more[last] = line /\ \A i \in 1 .. Len(out) : more[i] = out[i]
  BY <1>0, OneMore
<1>2. /\ Len(cmds) \in Nat /\ Len(waiting) \in Nat \ {0} /\ waiting[1] = cmd
      /\ Tail(waiting) \in Seq(Commands) /\ Len(Tail(waiting)) = Len(waiting) - 1
      /\ \A i \in 1 .. Len(waiting) - 1 : Tail(waiting)[i] = waiting[i + 1]
  BY HeadTailProperties, LenProperties, EmptySeq
<1>3. n \in 0 .. Len(cmds) - 1 /\ cmds[n + 1] = cmd /\ Answered(out, cmds, n)
  BY <1>2 DEF Good, IsRest
<1>4. Answered(more, cmds, n + 1)
  <2>1. line.event = IF cmds[n + 1] \in KnownCommands THEN "ack" ELSE "error"
    BY <1>0, <1>3
  <2>. HIDE DEF n
  <2>. QED  BY <1>0, <1>3, <2>1, ReplyAnswersNext
<1>5. IsRest(Tail(waiting), cmds) /\ n + 1 = Len(cmds) - Len(Tail(waiting))
  <2>1. n + 1 = Len(cmds) - Len(Tail(waiting)) /\ Len(Tail(waiting)) <= Len(cmds)
    BY <1>2, <1>3
  <2>2. ASSUME NEW i \in 1 .. Len(waiting) - 1
        PROVE  Tail(waiting)[i] = cmds[Len(cmds) - (Len(waiting) - 1) + i]
    <3>1. i + 1 \in 1 .. Len(waiting) /\ Tail(waiting)[i] = waiting[i + 1]
      BY <1>2
    <3>2. waiting[i + 1] = cmds[n + (i + 1)]
      BY <3>1 DEF Good, IsRest
    <3>3. n + (i + 1) = Len(cmds) - (Len(waiting) - 1) + i
      BY <1>2
    <3>. QED  BY <3>1, <3>2, <3>3
  <2>. QED  BY <1>2, <2>1, <2>2 DEF IsRest
<1>6. /\ Acks(out, "shutdown") = {}
      /\ \A c : Acks(out, c) \subseteq 1 .. Len(out)
      /\ \A c : Acks(more, c) = Acks(out, c) \union IF event = "ack" /\ cmd = c THEN {last} ELSE {}
  BY <1>0, <1>1, AcksGrow DEF Good, Obeys, Acks
<1>. HIDE DEF more
<1>7. Honours(more)
  <2>1. ASSUME NEW i \in Acks(more, "pause"), NEW j \in 1 .. last, i < j, more[j].event = "snapshot"
        PROVE  \E k \in Acks(more, "resume") : i < k /\ k < j
    <3>1. j # last
      BY <1>0, <1>1, <2>1
    <3>2. j \in 1 .. Len(out) /\ i \in Acks(out, "pause") /\ out[j].event = "snapshot"
      BY <1>1, <1>6, <2>1, <3>1
    <3>. QED  BY <1>1, <1>6, <2>1, <3>2 DEF Good, Honours
  <2>2. \A i \in Acks(more, "shutdown") : i = Len(more)
    BY <1>0, <1>6, OneMore DEF more
  <2>. QED  BY <1>1, <2>1, <2>2 DEF Honours
<1>8. Obeys(more, PausedBy(cmd, isPaused), next)
  <2>1. ASSUME NEW i \in Acks(more, "pause"), ~PausedBy(cmd, isPaused)
        PROVE  \E k \in Acks(more, "resume") : i < k
    <3>1. cmd # "pause" /\ i \in Acks(out, "pause")
      BY <1>6, <2>1 DEF PausedBy
    <3>2. CASE cmd = "resume"
      <4>1. last \in Acks(more, "resume")
        BY <1>0, <1>6, <3>2 DEF KnownCommands
      <4>. QED  BY <1>1, <1>6, <3>1, <4>1
    <3>3. CASE cmd # "resume"
      <4>1. ~isPaused
        BY <2>1, <3>3 DEF PausedBy
      <4>. QED  BY <1>6, <3>1, <4>1 DEF Good, Obeys
    <3>. QED  BY <3>2, <3>3
  <2>2. Acks(more, "shutdown") # {} => next = "exited"
    BY <1>6
  <2>. QED  BY <2>1, <2>2 DEF Obeys
<1>9. Good(more, cmds, Tail(waiting), PausedBy(cmd, isPaused), next)
  BY <1>4, <1>5, <1>7, <1>8 DEF Good
<1>. QED  BY <1>9 DEF more, line, event

\* The parent writes another command.
LEMMA SendIsGood ==
  ASSUME NEW out \in Seq(Lines), NEW cmds \in Seq(Commands), NEW waiting \in Seq(Commands),
         NEW isPaused, NEW state, Good(out, cmds, waiting, isPaused, state), NEW c \in Commands
  PROVE  Good(out, Append(cmds, c), Append(waiting, c), isPaused, state)
<1>. DEFINE m == Len(cmds)
            w == Len(waiting)
<1>1. /\ m \in Nat /\ w \in Nat /\ w <= m
      /\ \A i \in 1 .. w : waiting[i] = cmds[m - w + i]
  BY LenProperties DEF Good, IsRest
<1>2. /\ Len(Append(cmds, c)) = m + 1 /\ Len(Append(waiting, c)) = w + 1
      /\ Append(cmds, c)[m + 1] = c /\ Append(waiting, c)[w + 1] = c
      /\ \A i \in 1 .. m : Append(cmds, c)[i] = cmds[i]
      /\ \A i \in 1 .. w : Append(waiting, c)[i] = waiting[i]
  BY AppendProperties
<1>. HIDE DEF m, w
<1>3. ASSUME NEW i \in 1 .. w + 1
      PROVE  Append(waiting, c)[i] = Append(cmds, c)[(m + 1) - (w + 1) + i]
  <2>1. (m + 1) - (w + 1) + i = m - w + i
    BY <1>1
  <2>2. CASE i = w + 1
    <3>1. m - w + i = m + 1
      BY <1>1, <2>2
    <3>. QED  BY <1>2, <2>1, <2>2, <3>1
  <2>3. CASE i \in 1 .. w
    <3>1. m - w + i \in 1 .. m
      BY <1>1, <2>3
    <3>. QED  BY <1>1, <1>2, <2>1, <2>3, <3>1
  <2>4. i = w + 1 \/ i \in 1 .. w
    BY <1>1
  <2>. QED  BY <2>2, <2>3, <2>4, Zenon
<1>4. IsRest(Append(waiting, c), Append(cmds, c))
  BY <1>1, <1>2, <1>3 DEF IsRest
<1>5. Answered(out, Append(cmds, c), m - w)
  <2>1. m - w \in 0 .. Len(cmds) /\ Answered(out, cmds, m - w)
    BY <1>1 DEF Good, m, w
  <2>. QED  BY <2>1, CommandWaits
<1>6. (m + 1) - (w + 1) = m - w
  BY <1>1
<1>. QED  BY <1>2, <1>4, <1>5, <1>6 DEF Good

-----------------------------------------------------------------------------
(* Every step *)

LEMMA OutputIs ==
  ASSUME Types, NEW e \in Engines
  PROVE  Output(e) \in Seq(Lines)
BY ConcatProperties DEF Types, Output

LEMMA Assoc ==
  ASSUME NEW r \in Seq(Lines), NEW s \in Seq(Lines), NEW t \in Seq(Lines)
  PROVE  (r \o s) \o t = r \o (s \o t)
<1>. DEFINE left == (r \o s) \o t
            right == r \o (s \o t)
            m == Len(r)
            n == Len(s)
            k == Len(t)
<1>1. m \in Nat /\ n \in Nat /\ k \in Nat
  BY LenProperties
<1>2. /\ r \o s \in Seq(Lines) /\ Len(r \o s) = m + n
      /\ s \o t \in Seq(Lines) /\ Len(s \o t) = n + k
      /\ \A i \in 1 .. m + n : (r \o s)[i] = IF i <= m THEN r[i] ELSE s[i - m]
      /\ \A i \in 1 .. n + k : (s \o t)[i] = IF i <= n THEN s[i] ELSE t[i - n]
  BY ConcatProperties
<1>3. /\ left \in Seq(Lines) /\ Len(left) = (m + n) + k
      /\ \A i \in 1 .. (m + n) + k : left[i] = IF i <= m + n THEN (r \o s)[i] ELSE t[i - (m + n)]
  BY <1>2, ConcatProperties
<1>4. /\ right \in Seq(Lines) /\ Len(right) = m + (n + k)
      /\ \A i \in 1 .. m + (n + k) : right[i] = IF i <= m THEN r[i] ELSE (s \o t)[i - m]
  BY <1>2, ConcatProperties
<1>. HIDE DEF left, right, m, n, k
<1>5. ASSUME NEW i \in 1 .. (m + n) + k
      PROVE  left[i] = right[i]
  <2>0. /\ i \in Int /\ m \in Int /\ n \in Int /\ i \in 1 .. m + (n + k)
        /\ left[i] = IF i <= m + n THEN (r \o s)[i] ELSE t[i - (m + n)]
        /\ right[i] = IF i <= m THEN r[i] ELSE (s \o t)[i - m]
    <3>1. (m + n) + k = m + (n + k) /\ i \in Int /\ m \in Int /\ n \in Int
      BY <1>1
    <3>2. i \in 1 .. m + (n + k)
      BY <3>1
    <3>. QED  BY <1>3, <1>4, <3>1, <3>2
  <2>1. CASE i <= m
    <3>1. i \in 1 .. m + n /\ i <= m + n
      BY <1>1, <2>1
    <3>2. (r \o s)[i] = r[i]
      BY <1>2, <2>1, <3>1
    <3>. QED  BY <2>0, <2>1, <3>1, <3>2, Zenon
  <2>2. CASE i > m /\ i <= m + n
    <3>1. i - m \in 1 .. n + k /\ i - m <= n /\ i \in 1 .. m + n /\ ~(i <= m)
      BY <1>1, <2>2
    <3>2. (r \o s)[i] = s[i - m] /\ (s \o t)[i - m] = s[i - m]
      BY <1>2, <3>1
    <3>. QED  BY <2>0, <2>2, <3>1, <3>2, Zenon
  <2>3. CASE i > m + n
    <3>1. /\ i - m \in 1 .. n + k /\ ~(i - m <= n) /\ (i - m) - n = i - (m + n)
          /\ ~(i <= m) /\ ~(i <= m + n)
      BY <1>1, <2>3
    <3>2. (s \o t)[i - m] = t[i - (m + n)]
      BY <1>2, <3>1
    <3>. QED  BY <2>0, <3>1, <3>2, Zenon
  <2>4. i <= m \/ (i > m /\ i <= m + n) \/ i > m + n
    BY <2>0
  <2>. QED  BY <2>1, <2>2, <2>3, <2>4, Zenon
<1>6. Len(left) = Len(right) /\ Len(left) = (m + n) + k
  BY <1>1, <1>3, <1>4
<1>7. left = right
  BY <1>3, <1>4, <1>5, <1>6, SeqEqual
<1>. QED  BY <1>7 DEF left, right

\* What is written comes after what was written before.
LEMMA Written ==
  ASSUME Types, NEW e \in Engines, NEW line \in Lines,
         received'[e] = received[e], stdout'[e] = stdout[e] \o <<line>>
  PROVE  Output(e)' = Append(Output(e), line) /\ stdout'[e] \in Seq(Lines)
<1>1. /\ received[e] \in Seq(Lines) /\ stdout[e] \in Seq(Lines) /\ <<line>> \in Seq(Lines)
      /\ Output(e) \in Seq(Lines)
  BY OutputIs DEF Types
<1>2. (received[e] \o stdout[e]) \o <<line>> = received[e] \o (stdout[e] \o <<line>>)
  BY <1>1, Assoc, Zenon
<1>3. Append(Output(e), line) = Output(e) \o <<line>>
  BY <1>1, AppendIsConcat
<1>4. stdout[e] \o <<line>> \in Seq(Lines)
  BY <1>1, ConcatProperties
<1>5. Output(e)' = received[e] \o (stdout[e] \o <<line>>)
  BY Zenon DEF Output
<1>6. Output(e) \o <<line>> = received[e] \o (stdout[e] \o <<line>>)
  BY <1>2, Zenon DEF Output
<1>7. stdout'[e] \in Seq(Lines)
  BY <1>4, Zenon
<1>. QED  BY <1>3, <1>5, <1>6, <1>7, Zenon

\* Reading a line moves it from the pipe to the parent.
LEMMA ReadingKeeps ==
  ASSUME NEW r \in Seq(Lines), NEW s \in Seq(Lines), s # << >>
  PROVE  /\ Append(r, Head(s)) \o Tail(s) = r \o s
         /\ Append(r, Head(s)) \in Seq(Lines) /\ Tail(s) \in Seq(Lines)
<1>. DEFINE h == Head(s)
            t == Tail(s)
            a == Append(r, h)
<1>1. /\ h \in Lines /\ t \in Seq(Lines) /\ Len(s) \in Nat \ {0} /\ Len(t) = Len(s) - 1
      /\ s[1] = h /\ \A i \in 1 .. Len(t) : t[i] = s[i + 1]
  BY HeadTailProperties, LenProperties, EmptySeq
<1>. HIDE DEF h, t
<1>2. /\ a \in Seq(Lines) /\ Len(a) = Len(r) + 1 /\ a[Len(r) + 1] = h /\ Len(r) \in Nat
      /\ \A i \in 1 .. Len(r) : a[i] = r[i]
  BY <1>1, AppendProperties, LenProperties
<1>. HIDE DEF a
<1>3. /\ a \o t \in Seq(Lines) /\ r \o s \in Seq(Lines)
      /\ Len(a \o t) = Len(a) + Len(t) /\ Len(r \o s) = Len(r) + Len(s)
      /\ \A i \in 1 .. Len(a) + Len(t) : (a \o t)[i] = IF i <= Len(a) THEN a[i] ELSE t[i - Len(a)]
      /\ \A i \in 1 .. Len(r) + Len(s) : (r \o s)[i] = IF i <= Len(r) THEN r[i] ELSE s[i - Len(r)]
  BY <1>1, <1>2, ConcatProperties
<1>4. ASSUME NEW i \in 1 .. Len(r) + Len(s)
      PROVE  (a \o t)[i] = (r \o s)[i]
  <2>1. i \in 1 .. Len(a) + Len(t) /\ i \in Nat
    BY <1>1, <1>2
  <2>2. CASE i <= Len(r)
    BY <1>2, <1>3, <2>1, <2>2
  <2>3. CASE i = Len(r) + 1
    <3>1. (a \o t)[i] = h
      BY <1>2, <1>3, <2>1, <2>3
    <3>2. (r \o s)[i] = s[1]
      BY <1>2, <1>3, <2>3
    <3>. QED  BY <1>1, <3>1, <3>2
  <2>4. CASE i > Len(r) + 1
    <3>1. i - Len(a) \in 1 .. Len(t) /\ (i - Len(a)) + 1 = i - Len(r)
      BY <1>1, <1>2, <2>1, <2>4
    <3>2. (a \o t)[i] = t[i - Len(a)] /\ (r \o s)[i] = s[i - Len(r)]
      BY <1>2, <1>3, <2>1, <2>4
    <3>. QED  BY <1>1, <3>1, <3>2
  <2>. QED  BY <1>2, <2>1, <2>2, <2>3, <2>4
<1>5. Len(a \o t) = Len(r \o s)
  BY <1>1, <1>2, <1>3
<1>6. a \o t = r \o s
  BY <1>3, <1>4, <1>5, SeqEqual
<1>. QED  BY <1>1, <1>2, <1>6 DEF a, h, t

LEMMA InitInv == Init => IpcInv
<1>. SUFFICES ASSUME Init PROVE IpcInv
  OBVIOUS
<1>1. Types
  BY DEF Init, IpcInit, Types
<1>2. ASSUME NEW e \in Engines PROVE EngineInv(e)
  <2>1. /\ Output(e) = << >> /\ sent[e] = << >> /\ stdin[e] = << >>
    BY <1>2 DEF Init, IpcInit, Output
  <2>2. Answers(<< >>) = {} /\ Cardinality({}) = 0 /\ \A cmd : Acks(<< >>, cmd) = {}
    BY FS_EmptySet DEF Answers, Acks
  <2>3. Answered(<< >>, << >>, 0) /\ IsRest(<< >>, << >>)
        /\ Honours(<< >>) /\ Obeys(<< >>, paused[e], proc[e])
    <3>1. Answered(<< >>, << >>, 0)
      BY <2>2 DEF Answered
    <3>2. Honours(<< >>) /\ Obeys(<< >>, paused[e], proc[e])
      <4>1. \A cmd : Acks(<< >>, cmd) = {}
        BY <2>2
      <4>. QED  BY <4>1, Zenon DEF Honours, Obeys
    <3>3. IsRest(<< >>, << >>)
      BY DEF IsRest
    <3>. QED  BY <3>1, <3>2, <3>3
  <2>. QED  BY <2>1, <2>3 DEF EngineInv, Good
<1>. QED  BY <1>1, <1>2 DEF IpcInv

\* The engines that do nothing.
LEMMA Elsewhere ==
  ASSUME NEW e \in Engines, EngineInv(e), received'[e] = received[e], stdout'[e] = stdout[e],
         sent'[e] = sent[e], stdin'[e] = stdin[e], paused'[e] = paused[e], proc'[e] = proc[e]
  PROVE  EngineInv(e)'
BY DEF EngineInv, Output

\* The end of a process leaves its output.
LEMMA ExitIsGood ==
  ASSUME NEW out, NEW cmds, NEW waiting, NEW isPaused, NEW state,
         Good(out, cmds, waiting, isPaused, state), NEW next,
         next = "exited" \/ state # "exited"
  PROVE  Good(out, cmds, waiting, isPaused, next)
BY DEF Good, Obeys

LEMMA EngineRunsInv ==
  ASSUME IpcInv, NEW e \in Engines, EngineRuns(e)
  PROVE  Types' /\ EngineInv(e)'
<1>1. /\ Types /\ EngineInv(e) /\ Output(e) \in Seq(Lines)
      /\ sent' = sent /\ received' = received
      /\ sent[e] \in Seq(Commands) /\ stdin[e] \in Seq(Commands) /\ paused[e] \in BOOLEAN
      /\ stdout[e] \in Seq(Lines) /\ tick[e] \in Nat
  BY OutputIs DEF IpcInv, EngineRuns, Types
<1>2. CASE Boot(e)
  <2>1. Banner \in Lines /\ Ready \in Lines
        /\ Banner.event \notin Replies \union {"snapshot"}
        /\ Ready.event \notin Replies \union {"snapshot"}
    BY DEF Banner, Ready, Line, Lines, Events, Replies
  <2>. DEFINE once == Append(Output(e), Banner)
  <2>2. /\ once \in Seq(Lines) /\ proc[e] = "booting" /\ proc'[e] = "looping"
        /\ stdout'[e] = stdout[e] \o <<Banner, Ready>>
        /\ stdin' = stdin /\ paused' = paused
    BY <1>1, <1>2, <2>1, AppendProperties DEF Boot, Types
  <2>3. /\ stdout'[e] \in Seq(Lines) /\ Output(e)' = Append(once, Ready)
    <3>1. /\ <<Banner>> \in Seq(Lines) /\ <<Ready>> \in Seq(Lines)
          /\ <<Banner, Ready>> \in Seq(Lines)
          /\ <<Banner, Ready>> = <<Banner>> \o <<Ready>>
      <4>. DEFINE b == Banner
                  n == Ready
      <4>1. b \in Lines /\ n \in Lines
        BY <2>1
      <4>. HIDE DEF b, n
      <4>2. <<b>> \in Seq(Lines) /\ <<n>> \in Seq(Lines) /\ <<b, n>> \in Seq(Lines)
        BY <4>1
      <4>3. <<b, n>> = <<b>> \o <<n>>
        <5>1. <<b, n>> = Append(<<b>>, n)
          OBVIOUS
        <5>2. Append(<<b>>, n) = <<b>> \o <<n>>
          BY <4>1, <4>2, AppendIsConcat
        <5>. QED  BY <5>1, <5>2, Zenon
      <4>. QED  BY <4>2, <4>3, Zenon DEF b, n
    <3>2. Output(e)' = Output(e) \o <<Banner, Ready>>
      <4>1. Output(e)' = received[e] \o (stdout[e] \o <<Banner, Ready>>)
        BY <1>1, <2>2, Zenon DEF Output
      <4>2. received[e] \in Seq(Lines)
        BY <1>1 DEF Types
      <4>3. (received[e] \o stdout[e]) \o <<Banner, Ready>>
              = received[e] \o (stdout[e] \o <<Banner, Ready>>)
        BY <1>1, <3>1, <4>2, Assoc, Zenon
      <4>. QED  BY <4>1, <4>3, Zenon DEF Output
    <3>3. Output(e) \o <<Banner, Ready>> = (Output(e) \o <<Banner>>) \o <<Ready>>
      <4>1. (Output(e) \o <<Banner>>) \o <<Ready>> = Output(e) \o (<<Banner>> \o <<Ready>>)
        BY <1>1, <3>1, Assoc
      <4>2. <<Banner, Ready>> = <<Banner>> \o <<Ready>>
        BY <3>1
      <4>. QED  BY <4>1, <4>2, Zenon
    <3>4. once = Output(e) \o <<Banner>> /\ Append(once, Ready) = once \o <<Ready>>
      BY <1>1, <2>1, <2>2, AppendIsConcat
    <3>5. stdout[e] \o <<Banner, Ready>> \in Seq(Lines)
      BY <1>1, <3>1, ConcatProperties
    <3>. QED  BY <2>2, <3>2, <3>3, <3>4, <3>5
  <2>4. Good(once, sent[e], stdin[e], paused[e], "booting")
    BY <1>1, <2>1, <2>2, LineIsGood DEF EngineInv
  <2>. HIDE DEF once
  <2>5. Good(Append(once, Ready), sent[e], stdin[e], paused[e], "looping")
    BY <2>1, <2>2, <2>4, LineIsGood
  <2>6. Types'
    BY <1>1, <1>2, <2>3 DEF Boot, Types
  <2>. QED  BY <1>1, <2>2, <2>3, <2>5, <2>6 DEF EngineInv
<1>3. CASE HandleCommand(e)
  <2>. DEFINE cmd == Head(stdin[e])
              event == IF cmd \in KnownCommands THEN "ack" ELSE "error"
              line == Line(event, cmd, 0)
              next == IF cmd = "shutdown" THEN "exited" ELSE proc[e]
  <2>1. /\ stdin[e] # << >> /\ proc[e] = "looping" /\ cmd \in Commands /\ Tail(stdin[e]) \in Seq(Commands)
        /\ Reply(cmd) = <<line>> /\ line \in Lines
    <3>1. stdin[e] # << >> /\ proc[e] = "looping"
      BY <1>3 DEF HandleCommand
    <3>2. cmd \in Commands /\ Tail(stdin[e]) \in Seq(Commands)
      BY <1>1, <3>1, HeadTailProperties
    <3>. HIDE DEF cmd
    <3>. QED  BY <3>1, <3>2 DEF Reply, Line, Lines, Events
  <2>2. /\ stdout'[e] = stdout[e] \o Reply(cmd) /\ paused'[e] = PausedBy(cmd, paused[e])
        /\ proc'[e] = next /\ stdin'[e] = Tail(stdin[e]) /\ PausedBy(cmd, paused[e]) \in BOOLEAN
    BY <1>1, <1>3 DEF HandleCommand, Types, PausedBy
  <2>3. Output(e)' = Append(Output(e), line) /\ stdout'[e] \in Seq(Lines)
    <3>. HIDE DEF line
    <3>. QED  BY <1>1, <2>1, <2>2, Written
  <2>4. Good(Append(Output(e), line), sent[e], Tail(stdin[e]), PausedBy(cmd, paused[e]), next)
    <3>1. cmd = Head(stdin[e]) /\ proc[e] # "exited"
      BY <2>1
    <3>. HIDE DEF cmd
    <3>. QED  BY <1>1, <2>1, <3>1, ReplyIsGood DEF EngineInv
  <2>5. Types'
    BY <1>1, <1>3, <2>1, <2>2, <2>3 DEF HandleCommand, Types
  <2>. HIDE DEF cmd, line, next
  <2>. QED  BY <1>1, <2>2, <2>3, <2>4, <2>5 DEF EngineInv
<1>4. CASE ReadEof(e)
  <2>1. Types'
    BY <1>1, <1>4 DEF ReadEof, Types
  <2>2. /\ proc'[e] = "exited" /\ Output(e)' = Output(e) /\ stdin' = stdin /\ paused' = paused
    BY <1>1, <1>4 DEF ReadEof, Types, Output
  <2>. QED  BY <1>1, <2>1, <2>2, ExitIsGood DEF EngineInv
<1>5. CASE Tick(e)
  <2>. DEFINE line == Snapshot(tick[e] + 1)
  <2>1. line \in Lines /\ line.event = "snapshot" /\ line.event \notin Replies
    <3>1. tick[e] + 1 \in Nat /\ "" \in Commands \union {""}
      BY <1>1
    <3>2. line.event = "snapshot"
      BY DEF Snapshot, Line
    <3>. QED  BY <3>1, <3>2 DEF Snapshot, Line, Lines, Events, Replies
  <2>. HIDE DEF line
  <2>2. stdout'[e] = stdout[e] \o <<line>>
    <3>1. stdout'[e] = Append(stdout[e], line)
      BY <1>1, <1>5 DEF Tick, Types, line
    <3>. QED  BY <1>1, <2>1, <3>1, AppendIsConcat
  <2>3. Output(e)' = Append(Output(e), line) /\ stdout'[e] \in Seq(Lines)
    BY <1>1, <2>1, <2>2, Written
  <2>4. /\ proc[e] = "looping" /\ ~paused[e] /\ proc' = proc /\ stdin' = stdin /\ paused' = paused
    BY <1>5 DEF Tick
  <2>5. Good(Append(Output(e), line), sent[e], stdin[e], paused[e], proc[e])
    BY <1>1, <2>1, <2>4, LineIsGood DEF EngineInv
  <2>6. Types'
    BY <1>1, <1>5, <2>3 DEF Tick, Types
  <2>. QED  BY <1>1, <2>3, <2>4, <2>5, <2>6 DEF EngineInv
<1>. QED  BY <1>2, <1>3, <1>4, <1>5 DEF EngineRuns, EngineStep

LEMMA ParentInv ==
  ASSUME IpcInv, NEW e \in Engines,
         Start(e) \/ (\E cmd \in Commands : Send(e, cmd)) \/ Close(e) \/ Receive(e)
  PROVE  Types' /\ EngineInv(e)'
<1>1. Types /\ EngineInv(e)
  BY DEF IpcInv
<1>2. CASE Start(e)
  <2>1. Types'
    BY <1>1, <1>2 DEF Start, Spawn, Types
  <2>2. /\ proc[e] = "unborn" /\ Output(e)' = Output(e) /\ stdin' = stdin /\ paused' = paused
        /\ sent' = sent
    BY <1>2 DEF Start, Spawn, Output
  <2>. QED  BY <1>1, <2>1, <2>2, ExitIsGood DEF EngineInv
<1>3. ASSUME NEW cmd \in Commands, Send(e, cmd) PROVE Types' /\ EngineInv(e)'
  <2>1. /\ sent[e] \in Seq(Commands) /\ stdin[e] \in Seq(Commands)
        /\ sent'[e] = Append(sent[e], cmd) /\ stdin'[e] = Append(stdin[e], cmd)
        /\ Append(sent[e], cmd) \in Seq(Commands) /\ Append(stdin[e], cmd) \in Seq(Commands)
    BY <1>1, <1>3, AppendProperties DEF Send, Types
  <2>2. Types'
    BY <1>1, <1>3, <2>1 DEF Send, Types
  <2>3. Output(e)' = Output(e) /\ proc' = proc /\ paused' = paused /\ Output(e) \in Seq(Lines)
    BY <1>1, <1>3, OutputIs DEF Send, Output
  <2>. QED  BY <1>1, <2>1, <2>2, <2>3, SendIsGood DEF EngineInv
<1>4. CASE Close(e)
  <2>1. Types'
    BY <1>1, <1>4 DEF Close, Types
  <2>. QED  BY <1>1, <1>4, <2>1, Elsewhere DEF Close
<1>5. CASE Receive(e)
  <2>1. /\ received[e] \in Seq(Lines) /\ stdout[e] \in Seq(Lines) /\ stdout[e] # << >>
        /\ received'[e] = Append(received[e], Head(stdout[e])) /\ stdout'[e] = Tail(stdout[e])
    BY <1>1, <1>5 DEF Receive, Types
  <2>2. /\ Output(e)' = Output(e)
        /\ received'[e] \in Seq(Lines) /\ stdout'[e] \in Seq(Lines)
    BY <2>1, ReadingKeeps DEF Output
  <2>3. Types'
    BY <1>1, <1>5, <2>1, <2>2 DEF Receive, Types
  <2>. QED  BY <1>1, <1>5, <2>2, <2>3 DEF Receive, EngineInv
<1>. QED  BY <1>2, <1>3, <1>4, <1>5

LEMMA NextInv == IpcInv /\ [Next]_runVars => IpcInv'
<1>. SUFFICES ASSUME IpcInv, [Next]_runVars PROVE IpcInv'
  OBVIOUS
<1>1. CASE UNCHANGED runVars
  <2>1. Types'
    BY <1>1 DEF IpcInv, Types, runVars, ipcVars
  <2>2. \A e \in Engines : EngineInv(e)'
    BY <1>1, Elsewhere DEF IpcInv, runVars, ipcVars
  <2>. QED  BY <2>1, <2>2 DEF IpcInv
<1>2. CASE Next
  <2>1. PICK e \in Engines : \/ Start(e)
                             \/ \E cmd \in Commands : Send(e, cmd)
                             \/ Close(e)
                             \/ Receive(e)
                             \/ EngineRuns(e)
    BY <1>2 DEF Next
  <2>2. Types' /\ EngineInv(e)'
    BY <2>1, EngineRunsInv, ParentInv
  <2>3. ASSUME NEW f \in Engines, f # e PROVE EngineInv(f)'
    <3>1. /\ received'[f] = received[f] /\ stdout'[f] = stdout[f] /\ sent'[f] = sent[f]
          /\ stdin'[f] = stdin[f] /\ paused'[f] = paused[f] /\ proc'[f] = proc[f]
      <4>1. CASE Start(e) \/ Close(e) \/ Receive(e) \/ \E cmd \in Commands : Send(e, cmd)
        BY <2>3, <4>1 DEF Start, Spawn, Close, Receive, Send, IpcInv, Types
      <4>2. CASE EngineRuns(e)
        BY <2>3, <4>2 DEF EngineRuns, EngineStep, Boot, HandleCommand, ReadEof, Tick, IpcInv, Types
      <4>. QED  BY <2>1, <4>1, <4>2
    <3>. QED  BY <3>1, Elsewhere DEF IpcInv
  <2>. QED  BY <2>2, <2>3 DEF IpcInv
<1>. QED  BY <1>1, <1>2

-----------------------------------------------------------------------------
(* Theorems *)

\* The invariant holds through every order of writing, reading and ticking.
THEOREM AlwaysInv == Spec => []IpcInv
BY InitInv, NextInv, PTL DEF Spec

\* ipc.cpp: every command read is answered once, in order, by an ack that
\* names it, or by an error when it is not one of the protocol.
THEOREM AnswersAlwaysFollowCommands == Spec => []AnswersFollowCommands
<1>1. IpcInv => AnswersFollowCommands
  BY DEF IpcInv, EngineInv, Good, Answered, AnswersFollowCommands
<1>. QED  BY <1>1, AlwaysInv, PTL

\* ipc.cpp: between the ack of a pause and that of a resume there is no
\* snapshot, however the lines wait in the pipe, and a shutdown's is the last line.
THEOREM SnapshotsAlwaysHonourAcks == Spec => []SnapshotsHonourAcks
<1>1. IpcInv => SnapshotsHonourAcks
  BY DEF IpcInv, EngineInv, Good, Honours, SnapshotsHonourAcks
<1>. QED  BY <1>1, AlwaysInv, PTL
=============================================================================
