---------------------------- MODULE EngineIpcRun ----------------------------
(***************************************************************************)
(* EngineIpc on its own, with a parent that writes any commands, may close *)
(* stdin, and keeps every line it reads.                                   *)
(***************************************************************************)
EXTENDS EngineIpc

CONSTANT MaxCommands   \* bound: commands the parent writes

VARIABLES sent, received   \* what the parent wrote to and read from each engine

runVars == <<ipcVars, sent, received>>

Init ==
  /\ IpcInit
  /\ sent = [e \in Engines |-> << >>]
  /\ received = [e \in Engines |-> << >>]

Start(e) == Spawn(e) /\ UNCHANGED <<sent, received>>

Send(e, cmd) ==
  /\ stdinOpen[e]
  /\ Len(sent[e]) < MaxCommands
  /\ sent' = [sent EXCEPT ![e] = Append(@, cmd)]
  /\ stdin' = [stdin EXCEPT ![e] = Append(@, cmd)]
  /\ UNCHANGED <<proc, stdinOpen, stdout, paused, tick, received>>

Close(e) ==
  /\ stdinOpen[e]
  /\ stdinOpen' = [stdinOpen EXCEPT ![e] = FALSE]
  /\ UNCHANGED <<proc, stdin, stdout, paused, tick, sent, received>>

Receive(e) ==
  /\ stdout[e] # << >>
  /\ received' = [received EXCEPT ![e] = Append(@, Head(stdout[e]))]
  /\ stdout' = [stdout EXCEPT ![e] = Tail(@)]
  /\ UNCHANGED <<proc, stdin, stdinOpen, paused, tick, sent>>

EngineRuns(e) == EngineStep(e) /\ UNCHANGED <<sent, received>>

Next ==
  \E e \in Engines :
    \/ Start(e)
    \/ \E cmd \in Commands : Send(e, cmd)
    \/ Close(e)
    \/ Receive(e)
    \/ EngineRuns(e)

Spec == Init /\ [][Next]_runVars
-----------------------------------------------------------------------------
\* Everything the engine wrote, in order.
Output(e) == received[e] \o stdout[e]

\* Where the answers are in an output, and which of them is at i.
Answers(out) == {i \in DOMAIN out : out[i].event \in Replies}
Rank(out, i) == Cardinality({j \in Answers(out) : j <= i})
Acks(out, cmd) == {i \in DOMAIN out : out[i].event = "ack" /\ out[i].cmd = cmd}

(* Every command is answered once, in the order of the commands, by an ack *)
(* that names it, or by an error when it is not one of the protocol.       *)
AnswersFollowCommands ==
  \A e \in Engines :
    LET out == Output(e)
    IN  /\ Cardinality(Answers(out)) = Len(sent[e]) - Len(stdin[e])
        /\ \A i \in Answers(out) :
             /\ out[i].cmd = sent[e][Rank(out, i)]
             /\ out[i].event = "ack" <=> out[i].cmd \in KnownCommands

(* Once the parent has read the ack of a pause, no snapshot follows until  *)
(* the ack of a resume; and nothing follows the ack of a shutdown.         *)
SnapshotsHonourAcks ==
  \A e \in Engines :
    LET out == Output(e)
    IN  /\ \A i \in Acks(out, "pause"), j \in DOMAIN out :
             i < j /\ out[j].event = "snapshot" => \E k \in Acks(out, "resume") : i < k /\ k < j
        /\ \A i \in Acks(out, "shutdown") : i = Len(out)
=============================================================================
