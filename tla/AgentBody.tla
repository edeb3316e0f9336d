----------------------------- MODULE AgentBody -----------------------------
(***************************************************************************)
(* An agent in its world, and what a brain can make it do: the handlers of *)
(* engine/src/agent_vm.cpp and MlBrain::execute_action.  What a handler    *)
(* does is an operator on `body`, so that it can be composed; reproduction *)
(* is an action, as the child's cell is random.                            *)
(***************************************************************************)
EXTENDS Integers, Sequences, FiniteSetsExt

CONSTANTS
  Width, Height, Terrain,   \* as in World
  Traits,                   \* decode(agent.genome)
  MaxReserve                \* MAX_ENERGY, MAX_HYDRATION

Ground == INSTANCE Torus

\* traits.hpp bounds the traits; to reproduce takes at least 50.
ASSUME BodyAssumption ==
  /\ Width \in Nat \ {0} /\ Height \in Nat \ {0}
  /\ Terrain \in [Ground!Cells -> Ground!TerrainKinds]
  /\ Traits \in [vision : Nat, speed : Nat, metabolism : Nat,
                 reproduction_threshold : Nat \ {0, 1}, swim : Nat,
                 forage_efficiency : Nat \ {0}]
  /\ MaxReserve \in Nat

VARIABLES
  body,           \* the agent: pos, facing, energy, hydration; and the grids food, water
  agent_counts,   \* World's cache: alive agents per cell
  children        \* what spawn_child appended, in order

bodyVars == <<body, agent_counts, children>>

-----------------------------------------------------------------------------
(* Terrain and directions *)

TerrainValue == [Plain |-> 0, Forest |-> 1, Water |-> 2, Rock |-> 3]

ToOffset == [North |-> <<0, -1>>, East |-> <<1, 0>>, South |-> <<0, 1>>, West |-> <<-1, 0>>]
TurnLeft == [North |-> "West", West |-> "South", South |-> "East", East |-> "North"]
TurnRight == [North |-> "East", East |-> "South", South |-> "West", West |-> "North"]

Bodies ==
  [pos : Ground!Cells, facing : DOMAIN ToOffset, energy : Int, hydration : Int,
   food : [Ground!Cells -> Nat], water : [Ground!Cells -> Nat]]

Ahead(b) == Ground!Step(b.pos, ToOffset[b.facing])

-----------------------------------------------------------------------------
(* What is perceived *)

\* Mutant: the number of agents is forgotten.
SeenWithoutAgents(b, cell) == <<TerrainValue[Terrain[cell]], b.food[cell], b.water[cell]>>

Seen(b, cell) ==
  <<TerrainValue[Terrain[cell]], b.food[cell], b.water[cell], agent_counts[cell]>>

\* The value of trait number i, 0 for any other number.
TraitValue(i) ==
  CASE i = 0 -> Traits.vision
    [] i = 1 -> Traits.speed
    [] i = 2 -> Traits.metabolism
    [] i = 3 -> Traits.reproduction_threshold
    [] i = 4 -> Traits.swim
    [] i = 5 -> Traits.forage_efficiency
    [] OTHER -> 0

-----------------------------------------------------------------------------
(* What is done *)

\* One tick of energy is the simulation's to take: the handler takes the rest.
Moved(b) ==
  [b EXCEPT !.pos = Ahead(b),
            !.energy = @ - (Ground!MoveCost(Traits, Terrain[Ahead(b)]) - 1)]

Capped(n) == IF n > MaxReserve THEN MaxReserve ELSE n

FoodGain(b) == b.food[b.pos] * Traits.forage_efficiency
WaterGain(b) == b.water[b.pos] * Traits.forage_efficiency

\* Mutant: the food stays where it was.
AteAndLeft(b) == [b EXCEPT !.energy = Capped(@ + FoodGain(b))]

Ate(b) ==
  IF b.food[b.pos] = 0 THEN b
  ELSE [b EXCEPT !.energy = Capped(@ + FoodGain(b)), !.food[b.pos] = 0]

Drank(b) ==
  IF b.water[b.pos] = 0 THEN b
  ELSE [b EXCEPT !.hydration = Capped(@ + WaterGain(b)), !.water[b.pos] = 0]

CanReproduce == body.energy >= Traits.reproduction_threshold

EnergyAfterBirth(b) == b.energy - b.energy \div 2

Beside(b, offset) == Ground!Step(b.pos, offset)

(* The child appears on a random neighbour, with half of the energy.       *)
Reproduce ==
  /\ CanReproduce
  /\ \E d \in DOMAIN ToOffset :
       children' = Append(children, [pos |-> Beside(body, ToOffset[d]),
                                     energy |-> body.energy \div 2])
  /\ body' = [body EXCEPT !.energy = EnergyAfterBirth(body)]
  /\ UNCHANGED agent_counts

\* What an action other than reproduction makes of the body.
Do(b) ==
  /\ body' = b
  /\ UNCHANGED <<agent_counts, children>>

-----------------------------------------------------------------------------
(* The loop around the brains: drains, then World::rebuild_caches.         *)
Counts(b) ==
  [c \in Ground!Cells |->
     Cardinality({i \in DOMAIN children : children[i].pos = c})
       + IF b.pos = c THEN 1 ELSE 0]

Alive == body.energy > 0 /\ body.hydration > 0

Upkeep ==
  /\ body' = [body EXCEPT !.energy = @ - Traits.metabolism, !.hydration = @ - 1]
  /\ agent_counts' = Counts(body)
  /\ UNCHANGED children

\* agent_index_by_id finds the agent once the caches have been built.
Indexed == \E c \in Ground!Cells : agent_counts[c] > 0

(* MlBrain::execute_action: the same without a cap, and action numbers     *)
(* that mean nothing.                                                      *)
ExecuteAction(action) ==
  \/ action = 0 /\ Do(Moved(body))
  \/ action = 1 /\ Do([body EXCEPT !.facing = TurnLeft[@]])
  \/ action = 2 /\ Do([body EXCEPT !.facing = TurnRight[@]])
  \/ action = 3 /\ Do([body EXCEPT !.energy = @ + FoodGain(body), !.food[body.pos] = 0])
  \/ action = 4 /\ Do([body EXCEPT !.hydration = @ + WaterGain(body), !.water[body.pos] = 0])
  \/ action = 5 /\ Reproduce
  \/ action = 5 /\ ~CanReproduce /\ UNCHANGED bodyVars
  \/ action \notin 0 .. 5 /\ UNCHANGED bodyVars

-----------------------------------------------------------------------------
GivenAway(kids) == MapThenSumSet(LAMBDA i : kids[i].energy, DOMAIN kids)
FoodLeft(b) == MapThenSumSet(LAMBDA c : b.food[c], Ground!Cells)

(* Whatever the brain does, energy comes from food only: what the agent    *)
(* and its children have and what the food left would give never grows.    *)
Wealth ==
  body.energy + GivenAway(children) + Traits.forage_efficiency * FoodLeft(body)

EnergyIsNotMade == [][Wealth' <= Wealth]_<<body, children>>
=============================================================================
