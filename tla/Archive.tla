------------------------------ MODULE Archive ------------------------------
(***************************************************************************)
(* The snapshot archive: compressed files named after the day and the tick, *)
(* and a table of rows that point at them.  A store writes its file, then   *)
(* awaits the commit of its row; a crash may fall between or cut the file   *)
(* short, and the world starts again from tick 0.  Once an hour files are   *)
(* pruned by age: rows are never deleted, so the snapshot of a row may be   *)
(* missing.                                                                 *)
(***************************************************************************)
EXTENDS Naturals, Sequences, SequencesExt

CONSTANTS
  KeepDays,   \* keep_days of _periodic_prune
  Limit,      \* rows in an answer to a listing
  LastTick,   \* bound: ticks of one run of the world
  LastRow,    \* bound: rows
  LastDay,    \* bound: days
  LastRun     \* bound: the last run that stores, counted from 0

ASSUME ArchiveAssumption ==
  KeepDays \in Nat /\ Limit \in Nat \ {0} /\ {LastTick, LastRow, LastDay, LastRun} \subseteq Nat

VARIABLES
  tick,     \* of the latest snapshot of the running world
  day,
  run,      \* how often the world was started again
  files,    \* path -> what the file holds; "day" is also its mtime
  rows,     \* the table of snapshots, in the order of their commits
  storing   \* rows (one or none) whose commit is awaited

archiveVars == <<tick, day, run, files, rows, storing>>

snapshot_path(t) == <<day, t>>

ArchiveInit ==
  /\ tick = 0 /\ day = 0 /\ run = 0
  /\ files = << >> /\ rows = << >> /\ storing = << >>

\* A map once a key has got a value: a file written, a cache filled.
With(f, key, value) ==
  [k \in DOMAIN f \union {key} |-> IF k = key THEN value ELSE f[k]]

\* An older file of the path is written over.
WriteFile(t, whole) ==
  files' = With(files, snapshot_path(t), [tick |-> t, day |-> day, whole |-> whole])

\* run: history.
Row(t) == [tick |-> t, file_path |-> snapshot_path(t), run |-> run]

\* Mutant: the row is committed before the file is written.
RowFirst ==
  /\ tick < LastTick
  /\ \/ /\ storing = << >>
        /\ rows' = Append(rows, Row(tick + 1)) /\ storing' = <<Row(tick + 1)>>
        /\ UNCHANGED <<tick, files>>
     \/ /\ storing # << >>
        /\ tick' = tick + 1 /\ WriteFile(tick + 1, TRUE) /\ storing' = << >>
        /\ UNCHANGED rows
  /\ UNCHANGED <<day, run>>

Stores == storing = << >> /\ tick < LastTick /\ Len(rows) < LastRow /\ run <= LastRun

\* store_snapshot up to its await: its caller stores the ticks in order.
StoreFile ==
  /\ Stores
  /\ tick' = tick + 1
  /\ WriteFile(tick + 1, TRUE)
  /\ storing' = <<Row(tick + 1)>>
  /\ UNCHANGED <<day, run, rows>>

\* The await of the commit ends: the row is there, or the database failed.
Commit ==
  /\ storing # << >>
  /\ rows' \in {rows \o storing, rows}
  /\ storing' = << >>
  /\ UNCHANGED <<tick, day, run, files>>

\* The process ends and starts again; its engine starts a world from tick 0.
Restart == run' = run + 1 /\ tick' = 0 /\ storing' = << >>

Crash == run < LastRun /\ Restart /\ UNCHANGED <<day, files, rows>>

\* It ends while the file is written.  Bound: over a file that was there; no
\* row names another one.
CrashInWrite ==
  /\ Stores /\ snapshot_path(tick + 1) \in DOMAIN files
  /\ WriteFile(tick + 1, FALSE)
  /\ Restart
  /\ UNCHANGED <<day, rows>>

NextDay ==
  /\ day < LastDay /\ day' = day + 1
  /\ UNCHANGED <<tick, run, files, rows, storing>>

\* Files older than KeepDays go; one written just that many days ago goes or
\* stays, by the hour.
Prune ==
  /\ \E gone \in {{p \in DOMAIN files : files[p].day + KeepDays < day},
                  {p \in DOMAIN files : files[p].day + KeepDays <= day}} :
       /\ gone # {}
       /\ files' = [p \in DOMAIN files \ gone |-> files[p]]
  /\ UNCHANGED <<tick, day, run, rows, storing>>

ArchiveNext == StoreFile \/ Commit \/ Crash \/ CrashInWrite \/ NextDay \/ Prune

\* What list_snapshots may answer: rows by tick, and in any order among rows
\* of one tick, which a world that started again makes.
Listings ==
  {SubSeq(l, 1, IF Len(rows) < Limit THEN Len(rows) ELSE Limit) :
     l \in {l \in SetToSeqs(DOMAIN rows) :
              \A i, j \in DOMAIN l : i < j => rows[l[i]].tick <= rows[l[j]].tick}}

\* get_snapshot: what the file of a row holds now; 404 when it is missing, 500
\* when it is cut short.
Content(id) == files[rows[id].file_path]
Found(id) == rows[id].file_path \in DOMAIN files /\ Content(id).whole

(***************************************************************************)
(* Properties.                                                             *)
(***************************************************************************)

\* A row's file is missing only when it was old enough to be pruned: no crash
\* between the steps of store_snapshot leaves a row without one.  What is there
\* is a snapshot of the row's tick and day, whichever run of the world wrote it,
\* and whole unless a later run than the row's, not the last, was ended while
\* it wrote over it.
RowsHaveFiles ==
  \A id \in DOMAIN rows :
    LET path == rows[id].file_path IN
    IF path \in DOMAIN files
      THEN /\ Content(id).tick = rows[id].tick /\ Content(id).day = path[1]
           /\ Content(id).whole \/ rows[id].run + 1 < run
      ELSE path[1] + KeepDays <= day
=============================================================================
