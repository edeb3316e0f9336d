------------------------------ MODULE AgentVm ------------------------------
(***************************************************************************)
(* A bot at work: Vm whose intrinsics act on an agent and push what they   *)
(* perceive (AgentIntrinsicHandler, engine/src/agent_vm.cpp).  It shows    *)
(* what Vm leaves open, and implements Vm.                                 *)
(***************************************************************************)
EXTENDS Vm, AgentBody

VARIABLE
  entry   \* history: body and locals when the tick began

agentVars == <<vars, bodyVars, entry>>

(* The agent's numbers are ints, as wide as a word: what it starts with,   *)
(* and all it can make of that, stays far below the greatest.              *)
FitsWords(b) ==
  /\ HalfWord > 3 /\ 2 * Budget <= HalfWord /\ MaxReserve < HalfWord
  /\ \A t \in DOMAIN Traits : Traits[t] < HalfWord
  /\ b.energy + Traits.forage_efficiency * FoodLeft(b) + 2 * Budget < HalfWord
  /\ b.hydration < HalfWord
  /\ \A c \in Ground!Cells : /\ b.food[c] * Traits.forage_efficiency < HalfWord
                             /\ b.water[c] * Traits.forage_efficiency < HalfWord

AgentInit(b) ==
  /\ Init
  /\ body = b
  /\ children = << >>
  /\ agent_counts \in {[c \in Ground!Cells |-> 0], Counts(body)}
  /\ entry = [body |-> body, locals |-> locals]

-----------------------------------------------------------------------------
(* BytecodeBrain::tick *)

Enter ==
  /\ entry' = [body |-> body, locals |-> locals]
  /\ UNCHANGED bodyVars

AgentBeginTick == BeginTick /\ Indexed /\ Enter

\* The index map does not know the agent.
AgentSkipped == BeginTickRemoved /\ ~Indexed /\ Enter

-----------------------------------------------------------------------------
(* The handlers *)

\* What an instruction that is not an intrinsic leaves alone.
Inward == UNCHANGED <<bodyVars, entry>>

Pushing(ops, words) ==
  /\ Step(ops)
  /\ Len(stack) + Observations(Op) <= MaxStack
  /\ stack' = stack \o words
  /\ pc' = After
  /\ acted' = acted + 1
  /\ UNCHANGED <<calls, locals, entry>>

Sense ==
  /\ Pushing({"PERCEIVE", "LOOK", "MY_ENERGY", "MY_HYDRATION", "MY_TRAIT"},
             CASE Op = "PERCEIVE"     -> Seen(body, body.pos)
               [] Op = "LOOK"         -> Seen(body, Ahead(body))
               [] Op = "MY_ENERGY"    -> <<body.energy>>
               [] Op = "MY_HYDRATION" -> <<body.hydration>>
               [] Op = "MY_TRAIT"     -> <<TraitValue(U8(1))>>)
  /\ UNCHANGED bodyVars

MoveForward == Pushing({"MOVE"}, << >>) /\ Do(Moved(body))

Turn ==
  /\ Pushing({"TURN_LEFT", "TURN_RIGHT"}, << >>)
  /\ Do([body EXCEPT !.facing = IF Op = "TURN_LEFT" THEN TurnLeft[@] ELSE TurnRight[@]])

Eat == Pushing({"EAT"}, <<FoodGain(body)>>) /\ Do(Ate(body))

Drink == Pushing({"DRINK"}, <<WaterGain(body)>>) /\ Do(Drank(body))

Breed == Pushing({"REPRODUCE"}, <<1>>) /\ Reproduce

CannotBreed ==
  /\ Pushing({"REPRODUCE"}, <<0>>)
  /\ ~CanReproduce
  /\ UNCHANGED bodyVars

AgentRun ==
  \/ Exhaust /\ Inward
  \/ Halt /\ Inward
  \/ Fail /\ Inward
  \/ Trap /\ Inward
  \/ Overrun /\ Inward
  \/ Compute /\ Inward
  \/ Load /\ Inward
  \/ Store /\ Inward
  \/ Jump /\ Inward
  \/ JumpIfFalse /\ Inward
  \/ Call /\ Inward
  \/ Return /\ Inward
  \/ Sense \/ MoveForward \/ Turn \/ Eat \/ Drink \/ Breed \/ CannotBreed

-----------------------------------------------------------------------------
(* The machine does what Vm allows: what Vm's theorems say holds of bots.  *)
ImplementsVm == Spec
=============================================================================
