------------------------------- MODULE World -------------------------------
(***************************************************************************)
(* The simulation core of the engine: World (world.cpp) and one tick of    *)
(* Simulation (simulation.cpp).  A tick is a sequence of phases, each a    *)
(* loop over the agent vector:                                             *)
(*                                                                         *)
(*   idle --StartTick--> step --EndStepping--> reproduce                   *)
(*        --RespawnResources--> reap --ReapDead--> idle                    *)
(*                                                                         *)
(* The vector is a function from the ids it holds to the agents: ids are   *)
(* handed out in increasing order, appended at the end and erased without  *)
(* reordering, so the position of an id is the number of smaller ids.      *)
(***************************************************************************)
EXTENDS Torus, Integers, Sequences, FiniteSets

CONSTANTS
  Genomes,             \* the genomes an agent may carry
  Traits,              \* decode(genome)
  NoParent,            \* NO_PARENT
  InitialAgents,       \* config.initial_agents
  InitialFood,         \* config.initial_food
  StartingEnergy,      \* config.starting_energy
  StartingHydration,   \* config.starting_hydration
  FoodSpawns,          \* config.food_spawn_rate > 0
  MaxRegrowth,         \* bound: cells of each kind that regrow in a tick
  MaxTicks             \* config.max_ticks

TraitRecords == [speed : Nat \ {0}, metabolism : Nat \ {0},
                 reproduction_threshold : Nat \ {0, 1},
                 swim : Nat, forage_efficiency : Nat \ {0}]

\* Traits are at least their *_MIN of traits.hpp, the threshold at least 2.
ASSUME ConfigAssumption ==
  /\ Width \in Nat \ {0} /\ Height \in Nat \ {0}
  /\ Terrain \in [Cells -> TerrainKinds]
  /\ Traits \in [Genomes -> TraitRecords]
  /\ NoParent \notin Nat
  /\ InitialAgents \in Nat /\ InitialFood \in Nat
  /\ StartingEnergy \in Nat \ {0} /\ StartingHydration \in Nat \ {0}
  /\ FoodSpawns \in BOOLEAN
  /\ MaxRegrowth \in Nat /\ MaxTicks \in Nat

VARIABLES
  agents,            \* the agent vector, by id
  next_id,           \* the id of the next agent
  food, water, mineral, \* the cells whose byte is 1; no other value is stored
  tick_count,
  agent_counts,      \* cache: alive agents per cell
  agent_index_map,   \* cache: id -> index in the vector
  phase,             \* the loop of Simulation::tick that is running
  todo,              \* ids that loop has not reached yet
  moved,             \* moves already made by the agent being stepped
  births,            \* the births reproduce_agents has collected
  born, died         \* the lines log_birth and log_death have written

vars == <<agents, next_id, food, water, mineral, tick_count, agent_counts,
          agent_index_map, phase, todo, moved, births, born, died>>
resources == <<food, water, mineral>>
caches == <<agent_counts, agent_index_map>>
lineage == <<born, died>>

-----------------------------------------------------------------------------
(* Helpers *)

Gain(resource, cell, amount) == IF cell \in resource THEN amount ELSE 0

\* step_agent's last test.
\* Mutant: thirst is forgotten.
SurvivesThirst(energy, hydration) == energy > 0
Survives(energy, hydration) == energy > 0 /\ hydration > 0

NewAgent(pos, energy, genome, parent, generation) ==
  [pos |-> pos, energy |-> energy, hydration |-> StartingHydration,
   alive |-> TRUE, genome |-> genome, parent |-> parent,
   generation |-> generation]

\* The index of an id in the vector.
Rank(id) == Cardinality({j \in DOMAIN agents : j < id})

AliveAt(cell) == {id \in DOMAIN agents : agents[id].alive /\ agents[id].pos = cell}

\* What rebuild_caches computes.
Counts == [c \in Cells |-> Cardinality(AliveAt(c))]

\* Mutant: an index map that is there is kept.
KeptIndexMap ==
  IF DOMAIN agent_index_map = {} THEN [id \in DOMAIN agents |-> Rank(id)] ELSE agent_index_map
IndexMap == [id \in DOMAIN agents |-> Rank(id)]

\* The loops visit the vector in order.
IsNext(id) == id \in todo /\ \A j \in todo : id <= j

TraitsOf(id) == Traits[agents[id].genome]

-----------------------------------------------------------------------------
(* World::init: agents and food anywhere, water on every water cell,       *)
(* minerals on some of the rocks; spawn_agent logs nothing.                *)
Init ==
  /\ \E pos \in [0 .. InitialAgents - 1 -> Cells],
        genome \in [0 .. InitialAgents - 1 -> Genomes] :
       agents = [id \in 0 .. InitialAgents - 1 |->
                   NewAgent(pos[id], StartingEnergy, genome[id], NoParent, 0)]
  /\ next_id = InitialAgents
  /\ food \in {cells \in SUBSET Cells :
                /\ Cardinality(cells) <= InitialFood
                /\ InitialFood > 0 => cells # {}}
  /\ water = {c \in Cells : Terrain[c] = "Water"}
  /\ mineral \in SUBSET {c \in Cells : Terrain[c] = "Rock"}
  /\ tick_count = 0
  /\ agent_counts = [c \in Cells |-> 0]
  /\ agent_index_map = [id \in {} |-> 0]
  /\ phase = "idle"
  /\ todo = {}
  /\ moved = 0
  /\ births = << >>
  /\ born = {}
  /\ died = {}

(* Simulation::tick begins: rebuild_caches, then the loop over the agents. *)
StartTick ==
  /\ phase = "idle"
  /\ tick_count < MaxTicks
  /\ agent_counts' = Counts
  /\ agent_index_map' = IndexMap
  /\ phase' = "step"
  /\ todo' = DOMAIN agents
  /\ moved' = 0
  /\ UNCHANGED <<agents, next_id, resources, tick_count, births, lineage>>

(* step_agent: one of the agent's `speed` moves.                           *)
MoveAgent(id) ==
  /\ phase = "step"
  /\ IsNext(id)
  /\ agents[id].alive
  /\ moved < TraitsOf(id).speed
  /\ \E target \in Neighbours(agents[id].pos) :
       LET t == TraitsOf(id)
       IN  /\ agents' = [agents EXCEPT
                ![id].pos = target,
                ![id].energy = @ - (MoveCost(t, Terrain[target]) - 1)
                                 + Gain(food, target, t.forage_efficiency)
                                 + Gain(mineral, target, 1),
                ![id].hydration = @ + Gain(water, target, t.forage_efficiency)]
           /\ food' = food \ {target}
           /\ water' = water \ {target}
           /\ mineral' = mineral \ {target}
  /\ moved' = moved + 1
  /\ UNCHANGED <<next_id, tick_count, caches, phase, todo, births, lineage>>

(* step_agent: the drains after the last move, and death.  An agent that   *)
(* is not alive is skipped.                                                *)
FinishAgent(id) ==
  /\ phase = "step"
  /\ IsNext(id)
  /\ agents[id].alive => moved = TraitsOf(id).speed
  /\ LET energy == agents[id].energy - TraitsOf(id).metabolism
         hydration == agents[id].hydration - 1
     IN  agents' = IF agents[id].alive
                   THEN [agents EXCEPT ![id].energy = energy,
                                       ![id].hydration = hydration,
                                       ![id].alive = Survives(energy, hydration)]
                   ELSE agents
  /\ todo' = todo \ {id}
  /\ moved' = 0
  /\ UNCHANGED <<next_id, resources, tick_count, caches, phase, births, lineage>>

EndStepping ==
  /\ phase = "step"
  /\ todo = {}
  /\ phase' = "reproduce"
  /\ todo' = DOMAIN agents
  /\ UNCHANGED <<agents, next_id, resources, tick_count, caches, moved, births, lineage>>

(* reproduce_agents, first loop: an agent that is dead or below its        *)
(* threshold is passed over ...                                            *)
SkipReproduction(id) ==
  /\ phase = "reproduce"
  /\ IsNext(id)
  /\ agents[id].alive => agents[id].energy < TraitsOf(id).reproduction_threshold
  /\ todo' = todo \ {id}
  /\ UNCHANGED <<agents, next_id, resources, tick_count, caches, phase, moved,
                 births, lineage>>

(* ... any other gives half of its energy to a child, which is only        *)
(* collected: mutate may produce any genome.                               *)
\* Mutant: the child is of its parent's generation.
SameGenerationBirth(id, o, genome) ==
  [pos |-> Step(agents[id].pos, o), energy |-> agents[id].energy \div 2,
   genome |-> genome, parent_id |-> id, generation |-> agents[id].generation]

BirthOf(id, o, genome) ==
  [pos |-> Step(agents[id].pos, o), energy |-> agents[id].energy \div 2,
   genome |-> genome, parent_id |-> id, generation |-> agents[id].generation + 1]

GiveBirth(id) ==
  /\ phase = "reproduce"
  /\ IsNext(id)
  /\ agents[id].alive
  /\ agents[id].energy >= TraitsOf(id).reproduction_threshold
  /\ \E o \in Offsets, genome \in Genomes :
       births' = Append(births, BirthOf(id, o, genome))
  /\ agents' = [agents EXCEPT ![id].energy = @ - agents[id].energy \div 2]
  /\ todo' = todo \ {id}
  /\ UNCHANGED <<next_id, resources, tick_count, caches, phase, moved, lineage>>

(* reproduce_agents, second loop: spawn_child appends the child and the    *)
(* birth is logged.                                                        *)
\* Mutant: child and parent are swapped.
SwappedBirthLine(id, b) ==
  [tick |-> tick_count, id |-> b.parent_id, parent |-> id, gen |-> b.generation]
\* Mutant: the tick is counted before the births are logged.
LateBirthLine(id, b) ==
  [tick |-> tick_count + 1, id |-> id, parent |-> b.parent_id, gen |-> b.generation]

BirthLine(id, b) ==
  [tick |-> tick_count, id |-> id, parent |-> b.parent_id, gen |-> b.generation]

SpawnChild ==
  /\ phase = "reproduce"
  /\ todo = {}
  /\ births # << >>
  /\ LET b == Head(births)
     IN  /\ agents' = [id \in DOMAIN agents \union {next_id} |->
                         IF id = next_id
                         THEN NewAgent(b.pos, b.energy, b.genome, b.parent_id, b.generation)
                         ELSE agents[id]]
         /\ born' = born \union {BirthLine(next_id, b)}
  /\ births' = Tail(births)
  /\ next_id' = next_id + 1
  /\ UNCHANGED <<resources, tick_count, caches, phase, todo, moved, died>>

(* respawn_resources: every empty cell may regrow each kind, if            *)
(* food_spawn_rate (on which all three rates depend) is positive.          *)
Regrow(resource) ==
  {resource \union cells : cells \in
     {c \in SUBSET (Cells \ resource) : Cardinality(c) <= IF FoodSpawns THEN MaxRegrowth ELSE 0}}

RespawnResources ==
  /\ phase = "reproduce"
  /\ todo = {}
  /\ births = << >>
  /\ food' \in Regrow(food)
  /\ water' \in Regrow(water)
  /\ mineral' \in Regrow(mineral)
  /\ phase' = "reap"
  /\ UNCHANGED <<agents, next_id, tick_count, caches, todo, moved, births, lineage>>

(* reap_dead logs a death for every dead agent and erases it;              *)
(* advance_tick ends the tick.                                             *)
Dead == {id \in DOMAIN agents : ~agents[id].alive}

CauseOfDeath(id) == IF agents[id].hydration <= 0 THEN "dehydration" ELSE "starvation"

ReapDead ==
  /\ phase = "reap"
  /\ died' = died \union {[tick |-> tick_count, id |-> id, cause |-> CauseOfDeath(id)] : id \in Dead}
  /\ agents' = [id \in DOMAIN agents \ Dead |-> agents[id]]
  /\ tick_count' = tick_count + 1
  /\ phase' = "idle"
  /\ UNCHANGED <<next_id, resources, caches, todo, moved, births, born>>

Next ==
  \/ StartTick
  \/ \E id \in todo : MoveAgent(id) \/ FinishAgent(id)
                      \/ SkipReproduction(id) \/ GiveBirth(id)
  \/ EndStepping
  \/ SpawnChild
  \/ RespawnResources
  \/ ReapDead

Spec == Init /\ [][Next]_vars
-----------------------------------------------------------------------------
(* Types *)

Agent == [pos : Cells, energy : Int, hydration : Int, alive : BOOLEAN,
          genome : Genomes, parent : Nat \union {NoParent}, generation : Nat]

Birth == [pos : Cells, energy : Nat, genome : Genomes, parent_id : Nat, generation : Nat]

TypeOK ==
  /\ DOMAIN agents \subseteq Nat
  /\ agents \in [DOMAIN agents -> Agent]
  /\ next_id \in Nat
  /\ food \subseteq Cells /\ water \subseteq Cells /\ mineral \subseteq Cells
  /\ tick_count \in Nat
  /\ agent_counts \in [Cells -> Nat]
  /\ DOMAIN agent_index_map \subseteq Nat
  /\ agent_index_map \in [DOMAIN agent_index_map -> Nat]
  /\ phase \in {"idle", "step", "reproduce", "reap"}
  /\ todo \subseteq DOMAIN agents
  /\ moved \in Nat
  /\ births \in Seq(Birth)
  /\ born \subseteq [tick : Nat, id : Nat, parent : Nat, gen : Nat]
  /\ died \subseteq [tick : Nat, id : Nat, cause : {"starvation", "dehydration"}]

-----------------------------------------------------------------------------
(* Properties *)

(* What the 100-tick test of test_simulation.cpp checks on one run: after  *)
(* every tick all the agents left are alive with energy and water to       *)
(* spare.  Energy may pass below zero between two moves, and reproduction  *)
(* halves it.                                                              *)
SurvivorsHaveReserves ==
  phase = "idle" =>
    \A id \in DOMAIN agents :
      agents[id].alive /\ agents[id].energy > 0 /\ agents[id].hydration > 0

(* The lineage log tells who is alive: between ticks the agents are the    *)
(* initial ones and those it saw born, less those it saw die, and every id *)
(* ever handed out is accounted for.                                       *)
Ids(lines) == {l.id : l \in lines}

LogTellsPopulation ==
  phase = "idle" =>
    /\ DOMAIN agents = (0 .. InitialAgents - 1 \union Ids(born)) \ Ids(died)
    /\ DOMAIN agents \union Ids(died) = 0 .. next_id - 1

(* A life is logged once: ids are not reused by births, no agent dies      *)
(* twice, and nobody dies in the tick it was born in, since a newborn is   *)
(* not stepped before the next one.                                        *)
LivesLoggedOnce ==
  /\ \A b1, b2 \in born : b1.id = b2.id => b1 = b2
  /\ \A d1, d2 \in died : d1.id = d2.id => d1 = d2
  /\ \A b \in born, d \in died : b.id = d.id => b.tick < d.tick

(* The genealogy a reader rebuilds from the log is a forest: a parent is   *)
(* an initial agent or was logged before its child, one generation older,  *)
(* and was not dead yet.                                                   *)
GenealogyIsForest ==
  \A b \in born :
    /\ b.parent < b.id
    /\ \/ b.parent < InitialAgents /\ b.gen = 1
       \/ \E p \in born : p.id = b.parent /\ b.gen = p.gen + 1 /\ p.tick < b.tick
    /\ \A d \in died : d.id = b.parent => b.tick <= d.tick

(* agent_index_by_id, which the bytecode binding reads during a tick, gives *)
(* the right index from rebuild_caches until reap_dead, even after births   *)
(* were appended: world.hpp's "valid after rebuild_caches".                 *)
IndexCacheValid ==
  phase # "idle" =>
    /\ \A id \in DOMAIN agent_index_map :
         id \in DOMAIN agents /\ agent_index_map[id] = Rank(id)
    /\ \A id \in DOMAIN agents \ DOMAIN agent_index_map :
         \E b \in born : b.id = id /\ b.tick = tick_count

(* "No food means all agents die within starting_energy ticks"             *)
(* (test_simulation.cpp).  The rocks of such a world still carry minerals, *)
(* which are energy: they never pay for more than the climb.               *)
Barren == InitialFood = 0 /\ ~FoodSpawns

StarvationBound ==
  Barren /\ phase = "idle" /\ tick_count >= StartingEnergy => DOMAIN agents = {}

(* The comment in reproduce_agents: reproduction needs a mineral in an     *)
(* adjacent cell, or half as much energy again as the threshold.           *)
ReproductionNeedsMineral ==
  [][\A id \in todo : GiveBirth(id) =>
       \/ Neighbours(agents[id].pos) \intersect mineral # {}
       \/ 2 * agents[id].energy >= 3 * TraitsOf(id).reproduction_threshold]_vars

(* Roadmap 09: the child is put on an adjacent free cell.                  *)
ChildOnFreeCell ==
  [][SpawnChild => AliveAt(agents'[next_id].pos) = {}]_vars

(* traits.hpp: forage_efficiency is the "multiplier for food/water/mineral *)
(* pickup".                                                                *)
ForageMultipliesMineral ==
  [][\A id \in todo : MoveAgent(id) /\ mineral' # mineral /\ food' = food =>
       LET t == TraitsOf(id)
           cost == MoveCost(t, Terrain[agents'[id].pos]) - 1
       IN  agents'[id].energy = agents[id].energy - cost + t.forage_efficiency]_vars
=============================================================================
