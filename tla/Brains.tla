------------------------------- MODULE Brains -------------------------------
(***************************************************************************)
(* An agent with one of the brains of the engine: a bot in bytecode, a     *)
(* network (brain_ml.cpp), or a network that learns from the energy the    *)
(* agent has.  The loop around the brain is that of test_brain.cpp: tick   *)
(* every agent that is alive, then drain it.                               *)
(***************************************************************************)
EXTENDS AgentVm, LearningBrain

CONSTANT Outset     \* the agents there may be at the start, per kind of brain

\* A network is what it makes of the food on the agent's cell: an action number.
ASSUME BrainsAssumption ==
  /\ \A n \in Nets : n \in [BOOLEAN -> Int]
  /\ \A kind \in DOMAIN Outset : \A b \in Outset[kind] :
       b \in Bodies /\ (kind = "bytecode" => FitsWords(b))

VARIABLES
  brain,
  turn        \* "brain" or "upkeep"

allVars == <<agentVars, learningVars, brain, turn>>

BrainsInit ==
  /\ brain \in DOMAIN Outset
  /\ brain # "bytecode" => program = CHOOSE p \in Programs : TRUE
  /\ brain = "bytecode" => net = CHOOSE n \in Nets : TRUE
  /\ \E b \in Outset[brain] : AgentInit(b)
  /\ LearningInit
  /\ turn = "brain"

MayTick(kind) == brain = kind /\ turn = "brain" /\ phase = "idle" /\ Alive

\* argmax(infer(net, perception)): which output of a network is the greatest
\* depends on nothing else here.
Choice(n) == n[body.food[body.pos] > 0]

BytecodeTick ==
  /\ MayTick("bytecode")
  /\ AgentBeginTick \/ AgentSkipped
  /\ turn' = "upkeep"
  /\ UNCHANGED <<learningVars, brain>>

BytecodeRun ==
  /\ AgentRun
  /\ UNCHANGED <<learningVars, brain, turn>>

MlTick ==
  /\ MayTick("ml")
  /\ ExecuteAction(Choice(net))
  /\ turn' = "upkeep"
  /\ UNCHANGED <<vars, entry, learningVars, brain>>

\* The reward is what the energy became since the last tick, drains included.
LearningTick ==
  /\ MayTick("learning")
  /\ \E c \in Nets : Tick(body.energy, c)
  /\ ExecuteAction(Choice(acting'))
  /\ turn' = "upkeep"
  /\ UNCHANGED <<vars, entry, brain>>

Drain ==
  /\ turn = "upkeep" /\ phase = "idle"
  /\ Upkeep
  /\ turn' = "brain"
  /\ UNCHANGED <<vars, entry, learningVars, brain>>

BrainsNext == BytecodeTick \/ BytecodeRun \/ MlTick \/ LearningTick \/ Drain

BrainsSpec == BrainsInit /\ [][BrainsNext]_allVars

\* One thread ticks the brains.
FairBrainsSpec == BrainsSpec /\ WF_allVars(BrainsNext)
=============================================================================
