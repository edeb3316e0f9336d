----------------------------- MODULE WebProofs -----------------------------
(***************************************************************************)
(* Proofs about Web, for any number of visits, retries, rows, days and     *)
(* inputs.                                                                 *)
(***************************************************************************)
EXTENDS Web, SequenceTheorems, TLAPS

-----------------------------------------------------------------------------
(* The world page *)

(* With the types, a visit that has not begun waits for nothing.           *)
AttemptInv ==
  /\ ws \in [Visits -> {"none", "connecting", "open", "closing", "closed"}]
  /\ timer \in [Visits -> BOOLEAN] /\ connectionFailed \in [Visits -> BOOLEAN]
  /\ onWorld \subseteq Visits
  /\ \A v \in Visits : ws[v] = "none" => ~timer[v] /\ ~connectionFailed[v]
  /\ OneAttempt

LEMMA AttemptFromWorldPage ==
  ASSUME AttemptInv, WorldPageNext
  PROVE  AttemptInv'
<1>1. ASSUME NEW v \in Visits, Opened(v)
      PROVE  AttemptInv'
  BY <1>1 DEF AttemptInv, OneAttempt, Live, Opened
<1>2. ASSUME NEW v \in Visits, Closed(v)
      PROVE  AttemptInv'
  BY <1>2 DEF AttemptInv, OneAttempt, Live, Closed
<1>3. ASSUME NEW v \in Visits, Reconnect(v)
      PROVE  AttemptInv'
  BY <1>3 DEF AttemptInv, OneAttempt, Live, Reconnect
<1>. QED  BY <1>1, <1>2, <1>3 DEF WorldPageNext

LEMMA AttemptStep ==
  ASSUME AttemptInv, [WebNext]_webVars
  PROVE  AttemptInv'
<1>1. CASE OnWorldPage
  <2>1. CASE WorldPageNext
    BY <2>1, AttemptFromWorldPage
  <2>2. CASE LeaveWorld
    BY <2>2 DEF AttemptInv, OneAttempt, Live, LeaveWorld
  <2>3. ASSUME NEW v \in Visits, OpenWorld(v)
        PROVE  AttemptInv'
    BY <2>3 DEF AttemptInv, OneAttempt, Live, OpenWorld
  <2>. QED  BY <1>1, <2>1, <2>2, <2>3 DEF OnWorldPage
<1>2. CASE UNCHANGED worldPageVars
  BY <1>2 DEF worldPageVars, AttemptInv, OneAttempt, Live
<1>. QED  BY <1>1, <1>2 DEF WebNext, OnArchive, OnReplay, webVars

(***************************************************************************)
(* A visit to the world page has a socket, a retry that is coming, or has  *)
(* set connectionFailed, and never two of them.                            *)
(***************************************************************************)
THEOREM VisitsTryOnce == WebSpec => []OneAttempt
<1>1. WebInit => AttemptInv
  BY DEF WebInit, WorldPageInit, AttemptInv, OneAttempt, Live
<1>2. AttemptInv => OneAttempt
  BY DEF AttemptInv
<1>. QED  BY <1>1, <1>2, AttemptStep, PTL DEF WebSpec

-----------------------------------------------------------------------------
(* How often a visit can go on                                             *)

Stage(v) ==
  CASE ws[v] = "none"       -> 5
    [] ws[v] = "connecting" -> 3
    [] ws[v] = "open"       -> 2
    [] ws[v] = "closing"    -> 1
    [] ws[v] = "closed"     -> IF timer[v] THEN 4 ELSE 0

\* Bounds what a visit still has before it: a retry costs a round of its own.
ToCome(v) == 4 * (MaxRetries - retryCount[v]) + Stage(v)

(* A visit stays as it is, or has less before it.                          *)
VisitsRunDown ==
  \A v \in Visits : \/ UNCHANGED <<ws[v], timer[v], retryCount[v]>>
                    \/ ToCome(v)' < ToCome(v)

CountInv == retryCount \in [Visits -> 0 .. MaxRetries]

LEMMA VisitStep ==
  ASSUME AttemptInv, CountInv, [WebNext]_webVars
  PROVE  CountInv' /\ VisitsRunDown
<1>. USE WorldPageAssumption
<1>1. ASSUME NEW v \in Visits, UNCHANGED retryCount,
             \A q \in Visits : q # v => UNCHANGED <<ws[q], timer[q]>>,
             Stage(v)' < Stage(v), Stage(v) \in 0 .. 5, Stage(v)' \in 0 .. 5
      PROVE  CountInv' /\ VisitsRunDown
  BY <1>1 DEF CountInv, VisitsRunDown, ToCome
<1>2. ASSUME NEW v \in Visits
      PROVE  Stage(v) \in 0 .. 5
  BY DEF Stage, AttemptInv
<1>3. ASSUME NEW v \in Visits, OpenWorld(v)
      PROVE  CountInv' /\ VisitsRunDown
  <2>1. /\ Stage(v) = 5 /\ ws'[v] = "connecting" /\ UNCHANGED <<timer, retryCount>>
        /\ \A q \in Visits : q # v => UNCHANGED <<ws[q], timer[q]>>
        /\ ~timer[v]
    BY <1>3 DEF OpenWorld, Stage, AttemptInv
  <2>2. Stage(v)' = 3
    BY <2>1 DEF Stage
  <2>. QED  BY <1>1, <2>1, <2>2
<1>4. ASSUME NEW v \in Visits, Opened(v)
      PROVE  CountInv' /\ VisitsRunDown
  <2>1. ~timer[v]
    BY <1>4 DEF Opened, AttemptInv, OneAttempt, Live
  <2>2. /\ Stage(v) = 3 /\ ws'[v] = "open" /\ UNCHANGED <<timer, retryCount>>
        /\ \A q \in Visits : q # v => UNCHANGED <<ws[q], timer[q]>>
    BY <1>4, <2>1 DEF Opened, Stage, AttemptInv
  <2>3. Stage(v)' = 2
    BY <2>1, <2>2 DEF Stage
  <2>. QED  BY <1>1, <2>2, <2>3
<1>5. ASSUME NEW v \in Visits, Closed(v)
      PROVE  CountInv' /\ VisitsRunDown
  <2>1. ~timer[v] /\ ws[v] \in {"connecting", "open", "closing"}
    BY <1>5 DEF Closed, AttemptInv, OneAttempt, Live
  <2>2. Stage(v) \in 1 .. 3
    BY <2>1 DEF Stage
  <2>3. ws'[v] = "closed" /\ \A q \in Visits : q # v => UNCHANGED <<ws[q], timer[q], retryCount[q]>>
    BY <1>5 DEF Closed, AttemptInv, CountInv
  <2>4. CASE retryCount[v] < MaxRetries
    <3>1. retryCount' = [retryCount EXCEPT ![v] = @ + 1] /\ timer'[v] = TRUE
      BY <1>5, <2>4 DEF Closed, AttemptInv, CountInv
    <3>2. CountInv' /\ retryCount'[v] = retryCount[v] + 1
      BY <2>4, <3>1 DEF CountInv
    <3>3. Stage(v)' = 4
      BY <2>3, <3>1 DEF Stage
    <3>4. ToCome(v)' < ToCome(v)
      BY <2>2, <3>2, <3>3 DEF ToCome, CountInv
    <3>. QED  BY <2>3, <3>2, <3>4 DEF VisitsRunDown
  <2>5. CASE retryCount[v] >= MaxRetries
    <3>1. UNCHANGED <<timer, retryCount>>
      BY <1>5, <2>5 DEF Closed, CountInv
    <3>2. Stage(v)' = 0
      BY <2>1, <2>3, <3>1 DEF Stage
    <3>. QED  BY <1>1, <2>2, <2>3, <3>1, <3>2
  <2>. QED  BY <2>4, <2>5 DEF CountInv
<1>6. ASSUME NEW v \in Visits, Reconnect(v)
      PROVE  CountInv' /\ VisitsRunDown
  <2>1. timer[v] /\ ws[v] = "closed" /\ UNCHANGED retryCount
    BY <1>6 DEF Reconnect, AttemptInv, OneAttempt, Live
  <2>2. /\ ws'[v] = "connecting" /\ ~timer'[v]
        /\ \A q \in Visits : q # v => UNCHANGED <<ws[q], timer[q]>>
    BY <1>6 DEF Reconnect, AttemptInv
  <2>3. Stage(v) = 4
    BY <2>1 DEF Stage
  <2>4. Stage(v)' = 3
    BY <2>2 DEF Stage
  <2>. QED  BY <1>1, <2>1, <2>2, <2>3, <2>4
<1>7. CASE LeaveWorld
  <2>1. UNCHANGED <<timer, retryCount>>
    BY <1>7 DEF LeaveWorld
  <2>2. ASSUME NEW v \in Visits
        PROVE  UNCHANGED <<ws[v], timer[v], retryCount[v]>> \/ ToCome(v)' < ToCome(v)
    <3>1. CASE ~(v \in onWorld /\ ws[v] \in {"connecting", "open"})
      BY <1>7, <2>1, <3>1 DEF LeaveWorld
    <3>2. CASE v \in onWorld /\ ws[v] \in {"connecting", "open"}
      <4>1. ~timer[v] /\ ws'[v] = "closing"
        BY <1>7, <3>2 DEF LeaveWorld, AttemptInv, OneAttempt, Live
      <4>2. Stage(v) \in 2 .. 3 /\ Stage(v)' = 1
        BY <2>1, <3>2, <4>1 DEF Stage
      <4>. QED  BY <2>1, <4>2 DEF ToCome, CountInv
    <3>. QED  BY <3>1, <3>2
  <2>. QED  BY <2>1, <2>2 DEF CountInv, VisitsRunDown
<1>8. CASE UNCHANGED worldPageVars
  BY <1>8 DEF worldPageVars, CountInv, VisitsRunDown
<1>. QED
  BY <1>3, <1>4, <1>5, <1>6, <1>7, <1>8
  DEF WebNext, OnArchive, OnReplay, OnWorldPage, WorldPageNext, webVars

(***************************************************************************)
(* A visit opens, closes and retries at most 4 * MaxRetries + 5 times in    *)
(* all, however often the stream is closed and whatever page is shown:     *)
(* what Settles needs beside fairness.                                     *)
(***************************************************************************)
THEOREM VisitsRetryBoundedly ==
  WebSpec => /\ [](\A v \in Visits : ToCome(v) \in 0 .. 4 * MaxRetries + 5)
             /\ [][VisitsRunDown]_webVars
<1>1. WebInit => AttemptInv /\ CountInv
  BY WorldPageAssumption
     DEF WebInit, WorldPageInit, AttemptInv, OneAttempt, Live, CountInv
<1>2. AttemptInv /\ CountInv => \A v \in Visits : ToCome(v) \in 0 .. 4 * MaxRetries + 5
  <2>. SUFFICES ASSUME AttemptInv, CountInv, NEW v \in Visits
                PROVE  ToCome(v) \in 0 .. 4 * MaxRetries + 5
    OBVIOUS
  <2>1. Stage(v) \in 0 .. 5
    BY DEF Stage, AttemptInv
  <2>2. retryCount[v] \in 0 .. MaxRetries
    BY DEF CountInv
  <2>. QED  BY <2>1, <2>2, WorldPageAssumption DEF ToCome
<1>3. AttemptInv /\ CountInv /\ [WebNext]_webVars => CountInv' /\ [VisitsRunDown]_webVars
  BY VisitStep
<1>. QED  BY <1>1, <1>2, <1>3, AttemptStep, PTL DEF WebSpec

-----------------------------------------------------------------------------
(* The archive *)

Paths == Nat \X Nat
Rows == [tick : Nat, file_path : Paths, run : Nat]

(* Of a row, or of one whose commit is awaited.                            *)
Kept(row) ==
  /\ row.tick = row.file_path[2]
  /\ row.run <= run /\ (row.run = run => row.tick <= tick)
  /\ IF row.file_path \in DOMAIN files
       THEN files[row.file_path].whole \/ row.run + 1 < run
       ELSE row.file_path[1] + KeepDays <= day

(* A path names the day and the tick of what its file holds; a row never   *)
(* refers to a file that was not written, also while its commit is awaited, *)
(* and no run writes over a file of its own.                               *)
ArchiveInv ==
  /\ tick \in Nat /\ day \in Nat /\ run \in Nat
  /\ DOMAIN files \subseteq Paths
  /\ \A p \in DOMAIN files : files[p].day = p[1] /\ files[p].tick = p[2]
  /\ rows \in Seq(Rows) /\ storing \in Seq(Rows)
  /\ \A i \in 1 .. Len(rows) : Kept(rows[i])
  /\ \A i \in 1 .. Len(storing) : Kept(storing[i])

(* What a write makes of the files.                                        *)
LEMMA Written ==
  ASSUME ArchiveInv, NEW whole \in BOOLEAN, WriteFile(tick + 1, whole)
  PROVE  /\ DOMAIN files' = {<<day, tick + 1>>} \union DOMAIN files
         /\ files'[<<day, tick + 1>>].whole = whole
         /\ \A q \in DOMAIN files : q # <<day, tick + 1>> => files'[q] = files[q]
         /\ DOMAIN files' \subseteq Paths
         /\ \A q \in DOMAIN files' : files'[q].day = q[1] /\ files'[q].tick = q[2]
<1>. DEFINE p == <<day, tick + 1>>
            content == [tick |-> tick + 1, day |-> day, whole |-> whole]
<1>1. p \in Paths /\ p[1] = day /\ p[2] = tick + 1
  BY DEF ArchiveInv, Paths
<1>2. files' = With(files, p, content)
  BY DEF WriteFile, snapshot_path
<1>3. content.day = day /\ content.tick = tick + 1 /\ content.whole = whole
  OBVIOUS
<1>. HIDE DEF p, content
<1>4. /\ DOMAIN files' = {p} \union DOMAIN files
      /\ \A q \in DOMAIN files' : files'[q] = IF q = p THEN content ELSE files[q]
  BY <1>2 DEF With
<1>5. ASSUME NEW q \in DOMAIN files'
      PROVE  q \in Paths /\ files'[q].day = q[1] /\ files'[q].tick = q[2]
  <2>1. CASE q = p
    BY <1>1, <1>3, <1>4, <2>1
  <2>2. CASE q # p
    BY <1>4, <2>2 DEF ArchiveInv
  <2>. QED  BY <2>1, <2>2
<1>. QED  BY <1>3, <1>4, <1>5 DEF p

LEMMA StoreFileKeeps ==
  ASSUME ArchiveInv, StoreFile
  PROVE  ArchiveInv'
<1>. DEFINE p == <<day, tick + 1>>
            row == [tick |-> tick + 1, file_path |-> p, run |-> run]
<1>1. /\ tick' = tick + 1 /\ tick' \in Nat
      /\ UNCHANGED <<day, run, rows>> /\ storing' = <<row>> /\ WriteFile(tick + 1, TRUE)
  <2>1. tick' = tick + 1 /\ UNCHANGED <<day, run, rows>> /\ WriteFile(tick + 1, TRUE)
    BY DEF StoreFile
  <2>2. storing' = <<row>>
    BY DEF StoreFile, Row, snapshot_path
  <2>3. tick' \in Nat
    BY <2>1 DEF ArchiveInv
  <2>. QED  BY <2>1, <2>2, <2>3
<1>2. /\ DOMAIN files' = {p} \union DOMAIN files /\ files'[p].whole
      /\ \A q \in DOMAIN files : q # p => files'[q] = files[q]
      /\ DOMAIN files' \subseteq Paths
      /\ \A q \in DOMAIN files' : files'[q].day = q[1] /\ files'[q].tick = q[2]
  BY <1>1, Written
<1>3. p \in Paths /\ p[2] = tick' /\ run \in Nat
  BY <1>1 DEF Paths, ArchiveInv
<1>. HIDE DEF p
<1>4. row \in Rows /\ row.tick = p[2] /\ row.run = run /\ row.tick = tick' /\ row.file_path = p
  BY <1>1, <1>3 DEF Rows
<1>. HIDE DEF row
<1>5. storing' \in Seq(Rows) /\ (\A i \in 1 .. Len(storing) : Kept(storing[i]))'
  <2>1. storing' \in Seq(Rows) /\ Len(storing') = 1 /\ storing'[1] = row
    BY <1>1, <1>4
  <2>2. run' = run /\ row.run <= run' /\ row.tick <= tick' /\ row.file_path \in DOMAIN files'
    BY <1>1, <1>2, <1>3, <1>4
  <2>3. files'[row.file_path].whole /\ row.tick = row.file_path[2]
    BY <1>2, <1>4
  <2>4. \A i \in 1 .. Len(storing') :
          LET r == storing'[i] IN
          /\ r.tick = r.file_path[2] /\ r.run <= run' /\ r.tick <= tick'
          /\ r.file_path \in DOMAIN files' /\ files'[r.file_path].whole
    BY <2>1, <2>2, <2>3
  <2>5. (\A i \in 1 .. Len(storing) : Kept(storing[i]))'
    BY <2>4 DEF Kept
  <2>. QED  BY <2>1, <2>5
<1>6. (\A i \in 1 .. Len(rows) : Kept(rows[i]))'
  <2>1. ASSUME NEW r \in Rows, Kept(r) PROVE Kept(r)'
    <3>1. r.tick \in Nat /\ tick \in Nat /\ (r.run = run' => r.tick <= tick')
      BY <1>1, <2>1 DEF Kept, Rows, ArchiveInv
    <3>2. CASE r.file_path = p
      BY <1>1, <1>2, <2>1, <3>1, <3>2 DEF Kept
    <3>3. CASE r.file_path # p
      BY <1>1, <1>2, <2>1, <3>1, <3>3 DEF Kept
    <3>. QED  BY <3>2, <3>3
  <2>. QED  BY <1>1, <2>1, ElementOfSeq DEF ArchiveInv
<1>. QED  BY <1>1, <1>2, <1>5, <1>6 DEF ArchiveInv

(* A file cut short: the rows that name it are of former runs, as this one *)
(* has none of this tick.                                                  *)
LEMMA CrashInWriteKeeps ==
  ASSUME ArchiveInv, CrashInWrite
  PROVE  ArchiveInv'
<1>. DEFINE p == <<day, tick + 1>>
<1>1. /\ tick' = 0 /\ run' = run + 1 /\ storing' = << >>
      /\ UNCHANGED <<day, rows>> /\ WriteFile(tick + 1, FALSE)
  BY DEF CrashInWrite, Restart
<1>2. /\ DOMAIN files' = {p} \union DOMAIN files
      /\ \A q \in DOMAIN files : q # p => files'[q] = files[q]
      /\ DOMAIN files' \subseteq Paths
      /\ \A q \in DOMAIN files' : files'[q].day = q[1] /\ files'[q].tick = q[2]
  BY <1>1, Written
<1>3. p[2] = tick + 1 /\ tick \in Nat /\ run \in Nat
  BY DEF ArchiveInv
<1>. HIDE DEF p
<1>4. (\A i \in 1 .. Len(rows) : Kept(rows[i]))'
  <2>1. ASSUME NEW r \in Rows, Kept(r) PROVE Kept(r)'
    <3>1. r.run \in Nat /\ r.tick \in Nat
      BY DEF Rows
    <3>2. CASE r.file_path = p
      BY <1>1, <1>2, <1>3, <2>1, <3>1, <3>2 DEF Kept
    <3>3. CASE r.file_path # p
      BY <1>1, <1>2, <1>3, <2>1, <3>1, <3>3 DEF Kept
    <3>. QED  BY <3>2, <3>3
  <2>. QED  BY <1>1, <2>1, ElementOfSeq DEF ArchiveInv
<1>5. storing' \in Seq(Rows) /\ Len(storing') = 0
  BY <1>1, EmptySeq
<1>6. (\A i \in 1 .. Len(storing) : Kept(storing[i]))'
  BY <1>5
<1>. QED  BY <1>1, <1>2, <1>3, <1>4, <1>5, <1>6 DEF ArchiveInv

LEMMA PrunedAreOld ==
  ASSUME ArchiveInv, NEW p \in DOMAIN files, files[p].day + KeepDays < day
  PROVE  files[p].day + KeepDays <= day
<1>1. p \in Paths /\ files[p].day = p[1] /\ day \in Nat
  BY DEF ArchiveInv
<1>. QED  BY <1>1, ArchiveAssumption DEF Paths

LEMMA ArchiveKeeps ==
  ASSUME ArchiveInv, ArchiveNext
  PROVE  ArchiveInv'
<1>. USE ArchiveAssumption
<1>1. CASE StoreFile
  BY <1>1, StoreFileKeeps
<1>2. CASE Commit
  <2>1. /\ storing' \in Seq(Rows) /\ Len(storing') = 0
        /\ UNCHANGED <<tick, day, run, files>>
        /\ rows' = rows \/ rows' = rows \o storing
    BY <1>2, EmptySeq DEF Commit
  <2>2. rows' \in Seq(Rows) /\ \A i \in 1 .. Len(rows') : Kept(rows'[i])
    <3>1. CASE rows' = rows
      BY <3>1 DEF ArchiveInv
    <3>2. CASE rows' = rows \o storing
      <4>1. /\ rows' \in Seq(Rows) /\ Len(rows') = Len(rows) + Len(storing)
            /\ \A i \in 1 .. Len(rows') :
                 rows'[i] = IF i <= Len(rows) THEN rows[i] ELSE storing[i - Len(rows)]
        BY <3>2, ConcatProperties DEF ArchiveInv
      <4>2. Len(rows) \in Nat /\ Len(storing) \in Nat
        BY LenProperties DEF ArchiveInv
      <4>3. ASSUME NEW i \in 1 .. Len(rows')
            PROVE  Kept(rows'[i])
        <5>1. CASE i <= Len(rows)
          BY <4>1, <4>2, <5>1 DEF ArchiveInv
        <5>2. CASE ~(i <= Len(rows))
          <6>1. i - Len(rows) \in 1 .. Len(storing) /\ rows'[i] = storing[i - Len(rows)]
            BY <4>1, <4>2, <5>2
          <6>. QED  BY <6>1 DEF ArchiveInv
        <5>. QED  BY <5>1, <5>2
      <4>. QED  BY <4>1, <4>3
    <3>. QED  BY <2>1, <3>1, <3>2
  <2>3. (\A i \in 1 .. Len(rows) : Kept(rows[i]))'
    BY <2>1, <2>2 DEF Kept
  <2>4. (\A i \in 1 .. Len(storing) : Kept(storing[i]))'
    BY <2>1 DEF Kept
  <2>5. /\ tick' \in Nat /\ day' \in Nat /\ run' \in Nat
        /\ DOMAIN files' \subseteq Paths
        /\ \A p \in DOMAIN files' : files'[p].day = p[1] /\ files'[p].tick = p[2]
    BY <2>1 DEF ArchiveInv
  <2>. QED  BY <2>1, <2>2, <2>3, <2>4, <2>5 DEF ArchiveInv
<1>3. CASE Crash
  <2>1. /\ tick' = 0 /\ run' = run + 1 /\ storing' = << >>
        /\ UNCHANGED <<day, files, rows>>
    BY <1>3 DEF Crash, Restart
  <2>2. ASSUME NEW row \in Rows, Kept(row) PROVE Kept(row)'
    BY <2>1, <2>2 DEF Kept, Rows, ArchiveInv
  <2>3. storing' \in Seq(Rows) /\ Len(storing') = 0
    BY <2>1, EmptySeq
  <2>. QED  BY <2>1, <2>2, <2>3, ElementOfSeq DEF ArchiveInv
<1>4. CASE NextDay
  <2>1. day' = day + 1 /\ UNCHANGED <<tick, run, files, rows, storing>>
    BY <1>4 DEF NextDay
  <2>2. ASSUME NEW row \in Rows, Kept(row) PROVE Kept(row)'
    BY <2>1, <2>2 DEF Kept, Rows, Paths, ArchiveInv
  <2>. QED  BY <2>1, <2>2, ElementOfSeq DEF ArchiveInv
<1>5. CASE Prune
  <2>1. PICK gone : /\ gone \subseteq {p \in DOMAIN files : files[p].day + KeepDays <= day}
                    /\ files' = [p \in DOMAIN files \ gone |-> files[p]]
    BY <1>5, PrunedAreOld DEF Prune
  <2>2. UNCHANGED <<tick, day, run, rows, storing>>
    BY <1>5 DEF Prune
  <2>3. ASSUME NEW row \in Rows, Kept(row) PROVE Kept(row)'
    BY <2>1, <2>2, <2>3 DEF Kept, Rows, Paths, ArchiveInv
  <2>. QED  BY <2>1, <2>2, <2>3, ElementOfSeq DEF ArchiveInv
<1>6. CASE CrashInWrite
  BY <1>6, CrashInWriteKeeps
<1>. QED  BY <1>1, <1>2, <1>3, <1>4, <1>5, <1>6 DEF ArchiveNext

LEMMA ArchiveStep ==
  ASSUME ArchiveInv, [WebNext]_webVars
  PROVE  ArchiveInv'
<1>1. CASE UNCHANGED archiveVars
  BY <1>1 DEF archiveVars, ArchiveInv, Kept
<1>. QED  BY <1>1, ArchiveKeeps DEF WebNext, OnArchive, OnReplay, OnWorldPage, webVars

(***************************************************************************)
(* A row's file is missing only when it was old enough to be pruned; what  *)
(* is there is a snapshot of the row's day and tick, and cut short only by *)
(* a later run.                                                            *)
(***************************************************************************)
THEOREM RowsKeepTheirFiles == WebSpec => []RowsHaveFiles
<1>1. WebInit => ArchiveInv
  BY DEF WebInit, ArchiveInit, ArchiveInv
<1>2. ArchiveInv => RowsHaveFiles
  BY DEF ArchiveInv, Kept, RowsHaveFiles, Content
<1>. QED  BY <1>1, <1>2, ArchiveStep, PTL DEF WebSpec

-----------------------------------------------------------------------------
(* The replay page *)

LEMMA NoTimers == [i \in {} |-> speed] = << >>
  OBVIOUS

(* OneTimer, where what is not a timer has the value 0.                    *)
TimerInv ==
  /\ playing \in BOOLEAN
  /\ OneTimer

LEMMA TimerStarts ==
  ASSUME NEW live, live = << >>, NEW s, StartPlayback(live, s), speed' = s
  PROVE  TimerInv'
<1>1. playing' = TRUE /\ intervals' = With(live, intervalId', s) /\ DOMAIN live = {}
  BY DEF StartPlayback
<1>2. intervals' = [i \in {intervalId'} |-> s]
  BY <1>1 DEF With
<1>. QED  BY <1>1, <1>2 DEF TimerInv, OneTimer

LEMMA TimerStops ==
  ASSUME TimerInv, NEW next, next = Stopped(intervals, intervalId)
  PROVE  next = << >>
<1>1. DOMAIN intervals = IF playing THEN {intervalId} ELSE {}
  BY DEF TimerInv, OneTimer
<1>2. DOMAIN intervals \ {intervalId} = {}
  BY <1>1 DEF TimerInv
<1>. QED  BY <1>2 DEF Stopped

LEMMA NoTimerHolds ==
  ASSUME playing' = FALSE, intervals' = << >>
  PROVE  TimerInv'
<1>1. intervals' = [i \in {} |-> speed']
  OBVIOUS
<1>. QED  BY <1>1 DEF TimerInv, OneTimer

LEMMA TimerFromReplay ==
  ASSUME TimerInv, ReplayNext \/ LeaveReplay \/ OpenReplay
  PROVE  TimerInv'
<1>1. ASSUME stopPlayback PROVE TimerInv'
  BY <1>1, TimerStops, NoTimerHolds DEF stopPlayback
<1>2. ASSUME UNCHANGED <<playing, intervalId, intervals, speed>> PROVE TimerInv'
  BY <1>2 DEF TimerInv, OneTimer
<1>3. CASE togglePlay
  <2>1. CASE playing
    BY <1>1, <1>3, <2>1 DEF togglePlay
  <2>2. CASE ~playing
    BY <1>3, <2>2, TimerStarts DEF togglePlay, TimerInv, OneTimer
  <2>. QED  BY <2>1, <2>2 DEF TimerInv
<1>4. ASSUME NEW s \in Speeds, setSpeed(s)
      PROVE  TimerInv'
  <2>1. CASE playing
    BY <1>4, <2>1, TimerStarts, TimerStops DEF setSpeed, SpeedUp
  <2>2. CASE ~playing
    BY <1>4, <2>2 DEF setSpeed, SpeedUp, TimerInv, OneTimer
  <2>. QED  BY <2>1, <2>2 DEF TimerInv
<1>5. ASSUME NEW i \in 0 .. Len(snapshots) - 1, onScrub(i)
      PROVE  TimerInv'
  BY <1>1, <1>5 DEF onScrub
<1>6. CASE IntervalFires
  BY <1>1, <1>2, <1>6 DEF IntervalFires
<1>7. CASE LeaveReplay
  BY <1>7, TimerStops, NoTimerHolds DEF LeaveReplay
<1>8. CASE ListArrives \/ OpenReplay \/ \E r \in BagToSet(flight) : Answer(r) \/ FetchFails(r)
  BY <1>2, <1>8 DEF ListArrives, OpenReplay, Answer, FetchFails
<1>. QED  BY <1>3, <1>4, <1>5, <1>6, <1>7, <1>8 DEF ReplayNext

LEMMA TimerStep ==
  ASSUME TimerInv, [WebNext]_webVars
  PROVE  TimerInv'
<1>1. CASE UNCHANGED replayVars
  BY <1>1 DEF replayVars, TimerInv, OneTimer
<1>. QED  BY <1>1, TimerFromReplay DEF WebNext, OnArchive, OnReplay, OnWorldPage, webVars

(***************************************************************************)
(* While it plays the replay page has exactly one timer, the one it can    *)
(* clear and of the chosen speed; otherwise it has none.                   *)
(***************************************************************************)
THEOREM PlaybackHasOneTimer == WebSpec => []OneTimer
<1>1. WebInit => TimerInv
  <2>1. ReplayInit => playing = FALSE /\ intervals = [i \in {} |-> speed]
    BY DEF ReplayInit
  <2>. QED  BY <2>1 DEF WebInit, TimerInv, OneTimer
<1>2. TimerInv => OneTimer
  BY DEF TimerInv
<1>. QED  BY <1>1, <1>2, TimerStep, PTL DEF WebSpec

-----------------------------------------------------------------------------
(* The replay page implements Playback *)

(* A page without its listing has no snapshots.                            *)
ListingInv ==
  /\ Len(snapshots) \in Nat /\ currentIndex \in Nat
  /\ phase # "ready" => snapshots = << >>

LEMMA ListingsAreFinite ==
  ASSUME ArchiveInv, NEW l \in Listings \union {<< >>}
  PROVE  Len(l) \in Nat
<1>1. CASE l = << >>
  BY <1>1
<1>2. ASSUME l # << >> PROVE Len(l) \in Nat
  <2>. DEFINE n == IF Len(rows) < Limit THEN Len(rows) ELSE Limit
  <2>1. n \in Nat
    BY ArchiveAssumption, LenProperties DEF ArchiveInv
  <2>2. PICK s : l = SubSeq(s, 1, n)
    BY <1>2 DEF Listings
  <2>. HIDE DEF n
  <2>3. \A i \in 1 .. n : s[i] \in {s[j] : j \in 1 .. n}
    OBVIOUS
  <2>4. Len(SubSeq(s, 1, n)) = IF 1 <= n THEN n - 1 + 1 ELSE 0
    BY <2>1, <2>3, SubSeqProperties
  <2>. QED  BY <2>1, <2>2, <2>4
<1>. QED  BY <1>1, <1>2

LEMMA ListingFromReplay ==
  ASSUME ArchiveInv, ListingInv, ReplayNext \/ LeaveReplay \/ OpenReplay
  PROVE  ListingInv'
<1>1. ASSUME UNCHANGED <<phase, snapshots>>, currentIndex' \in Nat PROVE ListingInv'
  BY <1>1 DEF ListingInv
<1>2. CASE ListArrives
  BY <1>2, ListingsAreFinite DEF ListArrives, ListingInv
<1>3. CASE IntervalFires
  BY <1>1, <1>3 DEF IntervalFires, loadSnapshot, ListingInv
<1>4. CASE togglePlay \/ \E s \in Speeds : setSpeed(s)
  BY <1>1, <1>4 DEF togglePlay, setSpeed, Input, ListingInv
<1>5. ASSUME NEW i \in 0 .. Len(snapshots) - 1, onScrub(i)
      PROVE  ListingInv'
  BY <1>1, <1>5 DEF onScrub, Input, loadSnapshot, ListingInv
<1>6. CASE \E r \in BagToSet(flight) : Answer(r) \/ FetchFails(r)
  BY <1>1, <1>6 DEF Answer, FetchFails, ListingInv
<1>7. CASE LeaveReplay
  BY <1>7 DEF LeaveReplay, ListingInv
<1>8. CASE OpenReplay
  BY <1>8 DEF OpenReplay, ListingInv
<1>. QED  BY <1>2, <1>3, <1>4, <1>5, <1>6, <1>7, <1>8 DEF ReplayNext

LEMMA ListingStep ==
  ASSUME ArchiveInv, ListingInv, [WebNext]_webVars
  PROVE  ListingInv'
<1>1. CASE UNCHANGED replayVars
  BY <1>1 DEF replayVars, ListingInv
<1>. QED  BY <1>1, ListingFromReplay DEF WebNext, OnArchive, OnReplay, OnWorldPage, webVars

LEMMA ReplayPlaysBack ==
  ASSUME ArchiveInv, TimerInv, ListingInv, ReplayNext \/ LeaveReplay \/ OpenReplay
  PROVE  [PlaysBack!Next]_PlaysBack!playback
<1>. USE DEF PlaysBack!playback
<1>1. CASE ListArrives
  <2>1. Len(snapshots) = 0 /\ Len(snapshots') \in Nat /\ UNCHANGED <<playing, speed, currentIndex>>
    BY <1>1, ListingsAreFinite DEF ListArrives, ListingInv
  <2>2. CASE Len(snapshots') = 0
    BY <2>1, <2>2
  <2>3. CASE Len(snapshots') # 0
    BY <2>1, <2>3 DEF PlaysBack!Open, PlaysBack!Next
  <2>. QED  BY <2>2, <2>3
<1>2. CASE IntervalFires
  <2>1. playing
    <3>1. ASSUME ~playing PROVE intervals = << >>
      BY <3>1, NoTimers DEF TimerInv, OneTimer
    <3>. QED  BY <1>2, <3>1 DEF IntervalFires, TimerInv
  <2>2. CASE AtEnd
    <3>1. currentIndex + 1 > Len(snapshots) - 1
      BY <2>2 DEF AtEnd, ListingInv
    <3>2. playing' = FALSE /\ UNCHANGED <<currentIndex, speed, snapshots>>
      BY <1>2, <2>2 DEF IntervalFires, stopPlayback
    <3>. QED  BY <2>1, <3>1, <3>2 DEF PlaysBack!Tick, PlaysBack!Next
  <2>3. CASE ~AtEnd
    BY <1>2, <2>1, <2>3 DEF IntervalFires, loadSnapshot, AtEnd, ListingInv,
                            PlaysBack!Tick, PlaysBack!Next
  <2>. QED  BY <2>2, <2>3
<1>3. CASE togglePlay
  <2>1. playing' = ~playing
    BY <1>3 DEF togglePlay, stopPlayback, StartPlayback, TimerInv
  <2>. QED  BY <1>3, <2>1 DEF togglePlay, Input, PlaysBack!TogglePlay, PlaysBack!Next
<1>4. ASSUME NEW s \in Speeds, setSpeed(s)
      PROVE  PlaysBack!Next
  <2>1. playing' = playing
    BY <1>4 DEF setSpeed, SpeedUp, StartPlayback, TimerInv
  <2>. QED  BY <1>4, <2>1 DEF setSpeed, Input, PlaysBack!SetSpeed, PlaysBack!Next
<1>5. ASSUME NEW i \in 0 .. Len(snapshots) - 1, onScrub(i)
      PROVE  PlaysBack!Next
  BY <1>5 DEF onScrub, Input, stopPlayback, loadSnapshot, PlaysBack!Scrub, PlaysBack!Next
<1>6. CASE \E r \in BagToSet(flight) : Answer(r) \/ FetchFails(r)
  BY <1>6 DEF Answer, FetchFails
<1>7. CASE LeaveReplay
  BY <1>7 DEF LeaveReplay, PlaysBack!Leave, PlaysBack!Init, PlaysBack!Next
<1>8. CASE OpenReplay
  BY <1>8 DEF OpenReplay
<1>. QED  BY <1>1, <1>2, <1>3, <1>4, <1>5, <1>6, <1>7, <1>8 DEF ReplayNext

(***************************************************************************)
(* Whatever answers arrive, in whatever order, and whatever the archive    *)
(* does meanwhile, the replay page plays back as playback.test.ts tells.   *)
(***************************************************************************)
THEOREM ReplayIsPlayback == WebSpec => ImplementsPlayback
<1>1. WebInit => ArchiveInv /\ TimerInv /\ ListingInv /\ PlaysBack!Init
  <2>1. ReplayInit => playing = FALSE /\ intervals = [i \in {} |-> speed]
    BY DEF ReplayInit
  <2>2. WebInit => ArchiveInv
    BY DEF WebInit, ArchiveInit, ArchiveInv
  <2>3. WebInit => ListingInv /\ PlaysBack!Init
    BY DEF WebInit, ReplayInit, ListingInv, PlaysBack!Init
  <2>. QED  BY <2>1, <2>2, <2>3 DEF WebInit, TimerInv, OneTimer
<1>2. ArchiveInv /\ TimerInv /\ ListingInv /\ [WebNext]_webVars
        => [PlaysBack!Next]_PlaysBack!playback
  <2>. SUFFICES ASSUME ArchiveInv, TimerInv, ListingInv, [WebNext]_webVars
                PROVE  [PlaysBack!Next]_PlaysBack!playback
    OBVIOUS
  <2>1. CASE UNCHANGED replayVars
    BY <2>1 DEF replayVars, PlaysBack!playback
  <2>. QED  BY <2>1, ReplayPlaysBack DEF WebNext, OnArchive, OnReplay, OnWorldPage, webVars
<1>. QED
  BY <1>1, <1>2, ArchiveStep, TimerStep, ListingStep, PTL
  DEF WebSpec, ImplementsPlayback, PlaysBack!Spec
=============================================================================
