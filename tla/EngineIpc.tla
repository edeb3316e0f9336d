----------------------------- MODULE EngineIpc -----------------------------
(***************************************************************************)
(* The engine process in --ipc mode (ipc.cpp, main.cpp): a loop that       *)
(* answers the commands found on stdin, ticks unless paused, and writes a  *)
(* snapshot.  Engines are numbered, for a backend that starts another one  *)
(* after a crash.                                                          *)
(***************************************************************************)
EXTENDS Naturals, Sequences, FiniteSets, SequencesExt

CONSTANTS
  Engines,        \* the engine processes that may be started
  Commands,       \* the "cmd" values that may be written to stdin
  PipeCapacity,   \* lines the OS keeps for a reader that does not read
  MaxTick         \* bound: ticks an engine runs

ASSUME IpcAssumption ==
  /\ PipeCapacity \in Nat \ {0, 1}
  /\ MaxTick \in Nat

VARIABLES
  proc,       \* the state of each process
  stdin,      \* commands written to it and not read yet
  stdinOpen,  \* the backend holds the other end of the pipe
  stdout,     \* lines it wrote that nobody read yet
  paused, tick

ipcVars == <<proc, stdin, stdinOpen, stdout, paused, tick>>

\* One line of output; cmd matters for acks, tick for snapshots.
Line(event, cmd, t) == [event |-> event, cmd |-> cmd, tick |-> t]
Banner == Line("banner", "", 0)
Ready == Line("ready", "", 0)
Snapshot(t) == Line("snapshot", "", t)

Replies == {"ack", "error"}

KnownCommands == {"load_bot", "unload_bot", "pause", "resume", "shutdown"}

\* emit_ack or emit_error.
\* Mutant: unknown commands are passed over in silence.
SilentReply(cmd) == IF cmd \in KnownCommands THEN <<Line("ack", cmd, 0)>> ELSE << >>
Reply(cmd) ==
  IF cmd \in KnownCommands THEN <<Line("ack", cmd, 0)>> ELSE <<Line("error", cmd, 0)>>

\* The value of `paused` after a command.
\* Mutant: only an engine that runs can be paused, the flag is toggled.
ToggledBy(cmd, was) == IF cmd \in {"pause", "resume"} THEN ~was ELSE was
PausedBy(cmd, was) == (cmd = "pause") \/ (was /\ cmd # "resume")

Live(e) == proc[e] \in {"booting", "looping"}

\* A write blocks while the pipe is full.
CanWrite(e) == Len(stdout[e]) < PipeCapacity

IpcInit ==
  /\ proc = [e \in Engines |-> "unborn"]
  /\ stdin = [e \in Engines |-> << >>]
  /\ stdinOpen = [e \in Engines |-> FALSE]
  /\ stdout = [e \in Engines |-> << >>]
  /\ paused = [e \in Engines |-> FALSE]
  /\ tick = [e \in Engines |-> 0]

\* The backend creates the process with fresh pipes.
Spawn(e) ==
  /\ proc[e] = "unborn"
  /\ proc' = [proc EXCEPT ![e] = "booting"]
  /\ stdinOpen' = [stdinOpen EXCEPT ![e] = TRUE]
  /\ UNCHANGED <<stdin, stdout, paused, tick>>

(* main prints its version, run_ipc_mode builds the world and is ready.    *)
Boot(e) ==
  /\ proc[e] = "booting"
  /\ proc' = [proc EXCEPT ![e] = "looping"]
  /\ stdout' = [stdout EXCEPT ![e] = @ \o <<Banner, Ready>>]
  /\ UNCHANGED <<stdin, stdinOpen, paused, tick>>

(* A line of stdin is read and answered.  in_avail() may report nothing    *)
(* when there is a line: a tick may always come first.                     *)
HandleCommand(e) ==
  /\ proc[e] = "looping"
  /\ stdin[e] # << >>
  /\ CanWrite(e)
  /\ LET cmd == Head(stdin[e])
     IN  /\ stdout' = [stdout EXCEPT ![e] = @ \o Reply(cmd)]
         /\ paused' = [paused EXCEPT ![e] = PausedBy(cmd, @)]
         /\ proc' = [proc EXCEPT ![e] = IF cmd = "shutdown" THEN "exited" ELSE @]
  /\ stdin' = [stdin EXCEPT ![e] = Tail(@)]
  /\ UNCHANGED <<stdinOpen, tick>>

(* getline meets the end of stdin: the parent is gone.                     *)
ReadEof(e) ==
  /\ proc[e] = "looping"
  /\ stdin[e] = << >>
  /\ ~stdinOpen[e]
  /\ proc' = [proc EXCEPT ![e] = "exited"]
  /\ UNCHANGED <<stdin, stdinOpen, stdout, paused, tick>>

(* One tick of the simulation, and its snapshot.                           *)
Tick(e) ==
  /\ proc[e] = "looping"
  /\ ~paused[e]
  /\ CanWrite(e)
  /\ tick[e] < MaxTick
  /\ tick' = [tick EXCEPT ![e] = @ + 1]
  /\ stdout' = [stdout EXCEPT ![e] = Append(@, Snapshot(tick[e] + 1))]
  /\ UNCHANGED <<proc, stdin, stdinOpen, paused>>

\* The process dies: a crash, or the kill of its parent.  What it has
\* written stays readable.
Die(e) ==
  /\ Live(e)
  /\ proc' = [proc EXCEPT ![e] = "exited"]
  /\ UNCHANGED <<stdin, stdinOpen, stdout, paused, tick>>

EngineStep(e) == Boot(e) \/ HandleCommand(e) \/ ReadEof(e) \/ Tick(e)
=============================================================================
