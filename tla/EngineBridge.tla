---------------------------- MODULE EngineBridge ----------------------------
(***************************************************************************)
(* The backend's side of the engine: EngineProcess (process.py), its       *)
(* supervisor EngineService (service.py) and the lifespan of the           *)
(* application (main.py), with the engine processes of EngineIpc.          *)
(*                                                                         *)
(* The coroutines interleave where they await: the lifespan, the           *)
(* dispatcher, and one reader for each process that was started.  What     *)
(* runs between two awaits is one action.                                  *)
(***************************************************************************)
EXTENDS EngineIpc

CONSTANTS
  QueueSize,        \* maxsize of _event_queue
  FeedSize,         \* maxsize of a snapshot subscriber's queue
  BigSnapshots,     \* a snapshot line may exceed the reader's line limit
  MaxPending,       \* bound: commands waiting in the engine's stdin
  MaxCrashes,       \* bound: engine processes that die on their own
  MaxSpawnFailures  \* bound: attempts to create a process that fail

NoEngine == 0

ASSUME BridgeAssumption ==
  /\ Engines \subseteq Nat \ {NoEngine}
  /\ QueueSize \in Nat \ {0} /\ FeedSize \in Nat \ {0}
  /\ BigSnapshots \in BOOLEAN
  /\ MaxPending \in Nat /\ MaxCrashes \in Nat /\ MaxSpawnFailures \in Nat

VARIABLES
  current,      \* EngineProcess._process
  running,      \* EngineProcess._running
  events,       \* EngineProcess._event_queue
  reader,       \* the reader task created with each process
  readFrom,     \* the process whose stdout that task is waiting on
  dispatcher,   \* EngineService._dispatcher_task
  ready,        \* EngineService._ready is set
  feed,         \* the queue of the snapshot bridge
  subscribed,   \* the bridge has subscribed
  lifespan,     \* where the lifespan is
  stopped,      \* the process EngineProcess.stop() waits for
  seen,         \* the last snapshot of each process the bridge was given
  crashes, spawnFailures

serviceVars == <<ready, feed, subscribed, seen>>
processVars == <<current, running, reader, readFrom>>
countVars == <<crashes, spawnFailures>>
vars == <<ipcVars, processVars, events, dispatcher, serviceVars, lifespan, stopped, countVars>>

-----------------------------------------------------------------------------
(* Helpers *)

\* The next process the OS creates: numbers are not reused.
Fresh(e) == proc[e] = "unborn" /\ \A f \in Engines : proc[f] = "unborn" => e <= f

\* Put, after dropping the oldest item of a full queue.
\* Mutant: the newest item is served first.
PutInFront(q, item, size) ==
  <<item>> \o (IF Len(q) >= size THEN Tail(q) ELSE q)
PutDropOldest(q, item, size) ==
  Append(IF Len(q) >= size THEN Tail(q) ELSE q, item)

\* EngineProcess.running: returncode is None until the process has exited.
CurrentLives == current # NoEngine /\ Live(current)
\* Mutants: a timeout alone means it is not; having a process means it is.
NeverRunning == FALSE
HasProcess == current # NoEngine
IsRunning == running /\ CurrentLives

\* A coroutine that reads an empty stream waits for it; asyncio lets only
\* one do so, and raises in the second.
Waits(task, e) == reader[task] = "reading" /\ readFrom[task] = e
Contended(task, e) ==
  stdout'[e] = << >> /\ Live(e) /\ \E other \in Engines \ {task} : Waits(other, e)

Init ==
  /\ IpcInit
  /\ current = NoEngine
  /\ running = FALSE
  /\ events = << >>
  /\ reader = [e \in Engines |-> "none"]
  /\ readFrom = [e \in Engines |-> NoEngine]
  /\ dispatcher = "none"
  /\ ready = FALSE
  /\ feed = << >>
  /\ subscribed = FALSE
  /\ lifespan = "starting"
  /\ stopped = NoEngine
  /\ seen = [e \in Engines |-> 0]
  /\ crashes = 0
  /\ spawnFailures = 0

-----------------------------------------------------------------------------
(* The engine processes run beside the backend.                            *)
RunEngine(e) ==
  /\ EngineStep(e)
  /\ UNCHANGED <<processVars, events, dispatcher, serviceVars, lifespan, stopped, countVars>>

Crash(e) ==
  /\ crashes < MaxCrashes
  /\ Die(e)
  /\ crashes' = crashes + 1
  /\ UNCHANGED <<processVars, events, dispatcher, serviceVars, lifespan, stopped, spawnFailures>>

\* EngineProcess.start, from the creation of the process on: a task of its
\* own reads the new process, the task of the previous one goes on.
StartProcess(e) ==
  /\ Fresh(e)
  /\ Spawn(e)
  /\ current' = e
  /\ running' = TRUE
  /\ reader' = [reader EXCEPT ![e] = "created"]
  /\ UNCHANGED readFrom

-----------------------------------------------------------------------------
(* _read_events *)

\* The task is over: its finally clause runs whatever ended it.
\* Mutant: there is no finally clause.
EndReaderKeepFlag(task) == reader' = [reader EXCEPT ![task] = "done"] /\ UNCHANGED running
EndReader(task) ==
  /\ reader' = [reader EXCEPT ![task] = "done"]
  /\ running' = FALSE

\* Every turn of the loop reads self._process again, and awaits its stream.
AwaitLine(task) ==
  IF Contended(task, current)
  THEN EndReader(task) /\ UNCHANGED readFrom
  ELSE /\ reader' = [reader EXCEPT ![task] = "reading"]
       /\ readFrom' = [readFrom EXCEPT ![task] = current]
       /\ UNCHANGED running

(* The task runs for the first time.                                       *)
BeginReading(task) ==
  /\ reader[task] = "created"
  /\ UNCHANGED ipcVars
  /\ AwaitLine(task)
  /\ UNCHANGED <<current, events, dispatcher, serviceVars, lifespan, stopped, countVars>>

(* A line arrives: events of the protocol are queued, the banner is not    *)
(* JSON and is passed over.                                                *)
ReadLine(task) ==
  LET e == readFrom[task]
      line == Head(stdout[e])
  IN  /\ reader[task] = "reading"
      /\ stdout[e] # << >>
      /\ stdout' = [stdout EXCEPT ![e] = Tail(@)]
      /\ events' = IF line.event = "banner" THEN events
                   ELSE PutDropOldest(events, [line |-> line, from |-> e], QueueSize)
      /\ AwaitLine(task)
      /\ UNCHANGED <<proc, stdin, stdinOpen, paused, tick, current, dispatcher,
                     serviceVars, lifespan, stopped, countVars>>

(* A snapshot is longer than the limit of the stream: readline raises a    *)
(* ValueError, which is outside of the inner try and not caught.           *)
ReadOversizedLine(task) ==
  LET e == readFrom[task]
  IN  /\ BigSnapshots
      /\ reader[task] = "reading"
      /\ stdout[e] # << >>
      /\ Head(stdout[e]).event = "snapshot"
      /\ stdout' = [stdout EXCEPT ![e] = Tail(@)]
      /\ EndReader(task)
      /\ UNCHANGED <<proc, stdin, stdinOpen, paused, tick, current, readFrom, events,
                     dispatcher, serviceVars, lifespan, stopped, countVars>>

(* End of the stream.                                                      *)
ReadEndOfStream(task) ==
  LET e == readFrom[task]
  IN  /\ reader[task] = "reading"
      /\ stdout[e] = << >>
      /\ proc[e] = "exited"
      /\ EndReader(task)
      /\ UNCHANGED <<ipcVars, current, readFrom, events, dispatcher, serviceVars,
                     lifespan, stopped, countVars>>

-----------------------------------------------------------------------------
(* _dispatch_events *)

\* The snapshot goes to the bridge once it has subscribed.
Deliver(line, e) ==
  IF line.event = "snapshot" /\ subscribed
  THEN /\ feed' = PutDropOldest(feed, [tick |-> line.tick, from |-> e], FeedSize)
       /\ seen' = [seen EXCEPT ![e] = line.tick]
  ELSE UNCHANGED <<feed, seen>>

(* recv_event returns an event.  Acks and errors change nothing.           *)
Dispatch ==
  /\ dispatcher = "waiting"
  /\ events # << >>
  /\ LET item == Head(events)
     IN  /\ ready' = (ready \/ item.line.event = "ready")
         /\ Deliver(item.line, item.from)
  /\ events' = Tail(events)
  /\ UNCHANGED <<ipcVars, processVars, dispatcher, subscribed, lifespan, stopped, countVars>>

(* recv_event times out: if the engine is not running it is restarted.     *)
NoticeExit ==
  /\ dispatcher = "waiting"
  /\ events = << >>
  /\ ~IsRunning
  /\ dispatcher' = "spawning"
  /\ UNCHANGED <<ipcVars, processVars, events, serviceVars, lifespan, stopped, countVars>>

Restart ==
  /\ dispatcher = "spawning"
  /\ \E e \in Engines : StartProcess(e)
  /\ dispatcher' = "waiting"
  /\ UNCHANGED <<events, serviceVars, lifespan, stopped, countVars>>

(* start() raises: only CancelledError is caught, the dispatcher is over.  *)
RestartFails ==
  /\ dispatcher = "spawning"
  /\ spawnFailures < MaxSpawnFailures
  /\ dispatcher' = "done"
  /\ spawnFailures' = spawnFailures + 1
  /\ UNCHANGED <<ipcVars, processVars, events, serviceVars, lifespan, stopped, crashes>>

-----------------------------------------------------------------------------
(* The lifespan of the application                                         *)

(* EngineService.start: the process, then the dispatcher.                  *)
Start ==
  /\ lifespan = "starting"
  /\ \E e \in Engines : StartProcess(e)
  /\ dispatcher' = "waiting"
  /\ lifespan' = "waiting"
  /\ UNCHANGED <<events, serviceVars, stopped, countVars>>

(* Ready, or ten seconds later: the snapshot bridge subscribes and requests *)
(* are served.                                                             *)
Serve ==
  /\ lifespan = "waiting"
  /\ lifespan' = "serving"
  /\ subscribed' = TRUE
  /\ UNCHANGED <<ipcVars, processVars, events, dispatcher, ready, feed, seen, stopped, countVars>>

(* The bridge takes a snapshot from its queue and broadcasts it.           *)
Broadcast ==
  /\ subscribed
  /\ feed # << >>
  /\ feed' = Tail(feed)
  /\ UNCHANGED <<ipcVars, processVars, events, dispatcher, ready, subscribed, seen,
                 lifespan, stopped, countVars>>

(* send_command: load_bot and the other requests of the service.           *)
SendCommand(cmd) ==
  /\ lifespan = "serving"
  /\ CurrentLives
  /\ Len(stdin[current]) < MaxPending
  /\ stdin' = [stdin EXCEPT ![current] = Append(@, cmd)]
  /\ UNCHANGED <<proc, stdinOpen, stdout, paused, tick, processVars, events, dispatcher,
                 serviceVars, lifespan, stopped, countVars>>

(* The lifespan ends: the bridge is cancelled and unsubscribes, stop()     *)
(* writes the shutdown and waits for the process it wrote to.              *)
BeginStop ==
  /\ lifespan = "serving"
  /\ subscribed' = FALSE
  /\ stopped' = current
  /\ lifespan' = "stopping"
  /\ stdin' = IF CurrentLives
              THEN [stdin EXCEPT ![current] = Append(@, "shutdown")] ELSE stdin
  /\ UNCHANGED <<proc, stdinOpen, stdout, paused, tick, processVars, events, dispatcher,
                 ready, feed, seen, countVars>>

(* The pipe of a process that has exited may be broken already: stop()     *)
(* raises, and EngineService.stop does not cancel the dispatcher.          *)
BeginStopFails ==
  /\ lifespan = "serving"
  /\ ~CurrentLives
  /\ subscribed' = FALSE
  /\ lifespan' = "failed"
  /\ UNCHANGED <<ipcVars, processVars, events, dispatcher, ready, feed, seen, stopped, countVars>>


StopTimesOut ==
  /\ lifespan = "stopping"
  /\ Live(stopped)
  /\ CurrentLives
  /\ Die(current)
  /\ stopped' = current
  /\ UNCHANGED <<processVars, events, dispatcher, serviceVars, lifespan, countVars>>

(* ... which raises ProcessLookupError if it has exited on its own.        *)
StopKillFails ==
  /\ lifespan = "stopping"
  /\ Live(stopped)
  /\ ~CurrentLives
  /\ lifespan' = "failed"
  /\ UNCHANGED <<ipcVars, processVars, events, dispatcher, serviceVars, stopped, countVars>>

(* The process has exited: the last reader task and the dispatcher are     *)
(* cancelled.  A process that the dispatcher is creating is closed.        *)
FinishStop ==
  /\ lifespan = "stopping"
  /\ ~Live(stopped)
  /\ running' = FALSE
  /\ reader' = [reader EXCEPT ![current] = "done"]
  /\ dispatcher' = "done"
  /\ lifespan' = "stopped"
  /\ UNCHANGED <<ipcVars, current, readFrom, events, serviceVars, stopped, countVars>>

ReaderStep(task) ==
  BeginReading(task) \/ ReadLine(task) \/ ReadOversizedLine(task) \/ ReadEndOfStream(task)

DispatcherStep == Dispatch \/ NoticeExit \/ Restart

StopStep == StopTimesOut \/ StopKillFails \/ FinishStop

Next ==
  \/ \E e \in Engines : RunEngine(e) \/ Crash(e) \/ ReaderStep(e)
  \/ DispatcherStep \/ RestartFails
  \/ Start \/ Serve \/ Broadcast
  \/ \E cmd \in Commands : SendCommand(cmd)
  \/ BeginStop \/ BeginStopFails
  \/ StopStep

Spec == Init /\ [][Next]_vars

\* The event loop runs every coroutine that can go on, timeouts expire, and
\* the engine process is scheduled.  Nothing makes it find a command on
\* stdin, nor a process crash.
Fairness ==
  /\ \A e \in Engines : WF_vars(ReaderStep(e)) /\ WF_vars(RunEngine(e) /\ stdin'[e] = stdin[e])
  /\ WF_vars(DispatcherStep) /\ WF_vars(StopStep)
  /\ WF_vars(Serve) /\ WF_vars(Broadcast)

FairSpec == Spec /\ Fairness
-----------------------------------------------------------------------------
(* Properties *)

LiveEngines == {e \in Engines : Live(e)}

(* The dispatcher restarts an engine that is not running, so an engine     *)
(* nobody reads must never pass for running: a reader that ends, for any   *)
(* reason, takes the flag with it.                                         *)
RunningMeansRead == running => reader[current] \in {"created", "reading"}

(* What the clients are shown of one engine goes forward, whatever was     *)
(* dropped on the way and however many tasks read.                         *)
FeedGoesForward == [][\A e \in Engines : seen'[e] >= seen[e]]_vars

(* "Manages a single engine subprocess": two engines never run at once.    *)
OneEngine == Cardinality(LiveEngines) <= 1

(* ADR 014, "crash recovery": the death of the engine is noticed and a     *)
(* fresh one is started, as long as the application is serving.            *)
CrashIsRepaired ==
  lifespan = "serving" /\ ~CurrentLives ~> CurrentLives \/ lifespan # "serving"


(* Roadmap 23: the engine is restarted "with last snapshot", so the ticks  *)
(* the clients are shown do not go back.                                   *)
TicksNeverGoBack ==
  [][\A e \in Engines : seen'[e] # seen[e] => \A f \in Engines : seen'[e] > seen[f]]_vars
=============================================================================
