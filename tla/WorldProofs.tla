---------------------------- MODULE WorldProofs ----------------------------
(***************************************************************************)
(* Proofs about World: types, the agents that survive a tick, what the     *)
(* lineage log says of the population, the index cache, the genealogy the  *)
(* log tells, and the starvation of a barren world; and about WorldShown:   *)
(* the encoding of grids, for worlds of every size, seasons and traits.    *)
(***************************************************************************)
EXTENDS WorldShown, FiniteSetTheorems, TLAPS

(* The loops are over, and no birth is pending, outside of their phases.   *)
PhaseInv == phase \in {"idle", "reap"} => todo = {} /\ births = << >>

(* An alive agent that has been stepped has reserves; so has a child.      *)
ReservesInv ==
  /\ \A id \in DOMAIN agents :
       \/ phase = "step" /\ id \in todo
       \/ agents[id].alive => agents[id].energy > 0 /\ agents[id].hydration > 0
  /\ phase = "idle" => \A id \in DOMAIN agents : agents[id].alive
  /\ \A i \in DOMAIN births : births[i].energy > 0

(* The ids handed out are those of the initial agents and of the births;   *)
(* each is either in the vector or logged dead.  What was born in this     *)
(* tick is alive, and will not be stepped in it.                           *)
LineageInv ==
  /\ next_id >= InitialAgents
  /\ Ids(born) = InitialAgents .. next_id - 1
  /\ DOMAIN agents \union Ids(died) = 0 .. next_id - 1
  /\ DOMAIN agents \intersect Ids(died) = {}
  /\ \A b \in born :
       /\ b.tick <= tick_count
       /\ b.tick = tick_count =>
            /\ phase \in {"reproduce", "reap"} /\ todo = {}
            /\ b.id \in DOMAIN agents /\ agents[b.id].alive
  /\ \A d \in died : d.tick < tick_count
  /\ LivesLoggedOnce

-----------------------------------------------------------------------------
(* Lemmas on the operators of the step functions.                          *)

(* A neighbour of a cell of the torus is a cell: positions stay in bounds. *)
LEMMA StepInCells ==
  ASSUME NEW p \in Cells, NEW o \in Offsets
  PROVE  Step(p, o) \in Cells
<1>1. p[1] \in Int /\ p[2] \in Int /\ o[1] \in Int /\ o[2] \in Int
  BY DEF Cells, Offsets
<1>2. \A v \in Int, n \in Nat \ {0} : v % n \in 0 .. n - 1
  BY SMT
<1>3. /\ (p[1] + o[1]) % Width \in 0 .. Width - 1
      /\ (p[2] + o[2]) % Height \in 0 .. Height - 1
  <2>1. p[1] + o[1] \in Int /\ p[2] + o[2] \in Int
    BY <1>1
  <2>. QED  BY <2>1, <1>2, ConfigAssumption
<1>. QED
  BY <1>3 DEF Step, Wrap, Cells

(* The four moves of an agent lead to cells. *)
LEMMA NeighboursAreCells ==
  ASSUME NEW p \in Cells
  PROVE  Neighbours(p) \subseteq Cells
BY StepInCells DEF Neighbours

(* A genome decodes to traits within the bounds of traits.hpp. *)
LEMMA TraitsOfType ==
  ASSUME TypeOK, NEW id \in DOMAIN agents
  PROVE  TraitsOf(id) \in TraitRecords /\ agents[id] \in Agent
BY ConfigAssumption DEF TypeOK, TraitsOf, Agent

(* What spawn_agent and spawn_child append is an agent. *)
LEMMA NewAgentType ==
  ASSUME NEW pos \in Cells, NEW energy \in Int, NEW genome \in Genomes,
         NEW parent \in Nat \union {NoParent}, NEW generation \in Nat
  PROVE  NewAgent(pos, energy, genome, parent, generation) \in Agent
BY ConfigAssumption DEF NewAgent, Agent

(* The cost of a move is a positive number.                                *)
LEMMA MoveCostPositive ==
  ASSUME NEW traits \in TraitRecords, NEW t \in TerrainKinds
  PROVE  MoveCost(traits, t) \in Nat \ {0}
BY DEF MoveCost, MovementCost, TraitRecords, TerrainKinds

(* Picking a resource up never costs anything. *)
LEMMA GainType ==
  ASSUME NEW resource, NEW cell, NEW amount \in Nat
  PROVE  Gain(resource, cell, amount) \in Nat
BY DEF Gain

-----------------------------------------------------------------------------
(* Type correctness, with the phase discipline of todo and births.         *)

(* The vector is finite, so the caches hold numbers. *)
LEMMA FiniteAgents ==
  ASSUME NEW S, S \subseteq 0 .. next_id - 1, next_id \in Nat
  PROVE  IsFiniteSet(S) /\ \A T \in SUBSET S : Cardinality(T) \in Nat
<1>1. IsFiniteSet(0 .. next_id - 1)
  BY FS_Interval
<1>2. IsFiniteSet(S)
  BY <1>1, FS_Subset
<1>3. ASSUME NEW T \in SUBSET S PROVE Cardinality(T) \in Nat
  BY <1>2, FS_Subset, FS_CardinalityType
<1>. QED BY <1>2, <1>3

(* Every id in the vector is below next_id.                                *)
IdsInv == DOMAIN agents \subseteq 0 .. next_id - 1

ITypes == TypeOK /\ PhaseInv /\ IdsInv

(* World::init leaves a well-typed world, between two ticks. *)
LEMMA InitTypes == Init => ITypes
<1>. SUFFICES ASSUME Init PROVE ITypes
  OBVIOUS
<1>1. PICK pos \in [0 .. InitialAgents - 1 -> Cells],
           genome \in [0 .. InitialAgents - 1 -> Genomes] :
        agents = [id \in 0 .. InitialAgents - 1 |->
                    NewAgent(pos[id], StartingEnergy, genome[id], NoParent, 0)]
  BY DEF Init
<1>2. agents \in [0 .. InitialAgents - 1 -> Agent]
  <2>1. ASSUME NEW id \in 0 .. InitialAgents - 1
        PROVE  NewAgent(pos[id], StartingEnergy, genome[id], NoParent, 0) \in Agent
    <3>1. pos[id] \in Cells /\ genome[id] \in Genomes
      OBVIOUS
    <3>2. StartingEnergy \in Int /\ NoParent \in Nat \union {NoParent} /\ 0 \in Nat
      BY ConfigAssumption
    <3>. QED  BY <3>1, <3>2, NewAgentType
  <2>. QED  BY <1>1, <2>1
<1>3. DOMAIN agents = 0 .. InitialAgents - 1
  BY <1>2
<1>4. DOMAIN agents \subseteq Nat /\ agents \in [DOMAIN agents -> Agent]
  BY <1>2, <1>3, ConfigAssumption
<1>5. births \in Seq(Birth) /\ births = << >>
  BY DEF Init
<1>6. /\ agent_index_map \in [DOMAIN agent_index_map -> Nat]
      /\ DOMAIN agent_index_map \subseteq Nat
  BY DEF Init
<1>. QED
  BY <1>3, <1>4, <1>5, <1>6, ConfigAssumption DEF Init, ITypes, TypeOK, PhaseInv, IdsInv

(* rebuild_caches keeps the types. *)
LEMMA StartTickTypes == ITypes /\ StartTick => ITypes'
<1>. SUFFICES ASSUME ITypes, StartTick PROVE ITypes'
  OBVIOUS
<1>. USE DEF ITypes
<1>1. agent_counts' \in [Cells -> Nat]
  <2>1. ASSUME NEW c \in Cells PROVE Cardinality(AliveAt(c)) \in Nat
    BY FiniteAgents DEF AliveAt, IdsInv, TypeOK
  <2>. QED  BY <2>1 DEF StartTick, Counts
<1>2. agent_index_map' \in [DOMAIN agents -> Nat]
  <2>1. ASSUME NEW id \in DOMAIN agents PROVE Rank(id) \in Nat
    BY FiniteAgents DEF Rank, IdsInv, TypeOK
  <2>. QED  BY <2>1 DEF StartTick, IndexMap
<1>3. /\ DOMAIN agent_index_map' \subseteq Nat
      /\ agent_index_map' \in [DOMAIN agent_index_map' -> Nat]
  BY <1>2 DEF TypeOK
<1>. QED
  BY <1>1, <1>3 DEF StartTick, TypeOK, PhaseInv, IdsInv, resources, lineage

(* A move of step_agent keeps the types. *)
LEMMA MoveAgentTypes ==
  ASSUME ITypes, NEW id \in todo, MoveAgent(id)
  PROVE  ITypes'
<1>. USE DEF ITypes
<1>1. id \in DOMAIN agents
  BY DEF TypeOK
<1>. DEFINE t == TraitsOf(id)
<1>2. t \in TraitRecords /\ agents[id] \in Agent
  BY <1>1, TraitsOfType
<1>3. PICK target \in Neighbours(agents[id].pos) :
        /\ agents' = [agents EXCEPT
             ![id].pos = target,
             ![id].energy = @ - (MoveCost(t, Terrain[target]) - 1)
                              + Gain(food, target, t.forage_efficiency)
                              + Gain(mineral, target, 1),
             ![id].hydration = @ + Gain(water, target, t.forage_efficiency)]
        /\ food' = food \ {target}
        /\ water' = water \ {target}
        /\ mineral' = mineral \ {target}
  BY DEF MoveAgent
<1>4. target \in Cells
  BY <1>2, <1>3, NeighboursAreCells DEF Agent
<1>5. /\ MoveCost(t, Terrain[target]) \in Int
      /\ Gain(food, target, t.forage_efficiency) \in Int
      /\ Gain(mineral, target, 1) \in Int
      /\ Gain(water, target, t.forage_efficiency) \in Int
  <2>1. Terrain[target] \in TerrainKinds
    BY <1>4, ConfigAssumption
  <2>2. t.forage_efficiency \in Nat
    BY <1>2 DEF TraitRecords
  <2>. QED  BY <2>1, <2>2, <1>2, MoveCostPositive, GainType
<1>6. DOMAIN agents' = DOMAIN agents
  BY <1>3
<1>7. agents' \in [DOMAIN agents -> Agent]
  <2>. DEFINE e == agents[id].energy - (MoveCost(t, Terrain[target]) - 1)
                     + Gain(food, target, t.forage_efficiency)
                     + Gain(mineral, target, 1)
              h == agents[id].hydration + Gain(water, target, t.forage_efficiency)
              r == [agents[id] EXCEPT !.pos = target, !.energy = e, !.hydration = h]
  <2>1. agents' = [agents EXCEPT ![id] = r]
    BY <1>3
  <2>2. e \in Int /\ h \in Int
    BY <1>2, <1>5 DEF Agent
  <2>3. r \in Agent
    <3>. HIDE DEF e, h
    <3>. QED  BY <1>2, <1>4, <2>2 DEF Agent
  <2>. HIDE DEF r
  <2>. QED  BY <2>1, <2>3 DEF TypeOK
<1>8. /\ food' \subseteq Cells /\ water' \subseteq Cells /\ mineral' \subseteq Cells
      /\ moved' \in Nat
  BY <1>3 DEF MoveAgent, TypeOK
<1>. QED
  BY <1>6, <1>7, <1>8 DEF MoveAgent, TypeOK, PhaseInv, IdsInv, caches, lineage

(* The drains and the death of step_agent keep the types. *)
LEMMA FinishAgentTypes ==
  ASSUME ITypes, NEW id \in todo, FinishAgent(id)
  PROVE  ITypes'
<1>. USE DEF ITypes
<1>1. id \in DOMAIN agents
  BY DEF TypeOK
<1>2. TraitsOf(id) \in TraitRecords /\ agents[id] \in Agent
  BY <1>1, TraitsOfType
<1>3. /\ agents[id].energy - TraitsOf(id).metabolism \in Int
      /\ agents[id].hydration - 1 \in Int
  BY <1>2 DEF TraitRecords, Agent
<1>4. agents' \in [DOMAIN agents -> Agent] /\ DOMAIN agents' = DOMAIN agents
  <2>1. CASE agents[id].alive
    <3>1. \A energy, hydration : Survives(energy, hydration) \in BOOLEAN
      BY DEF Survives
    <3>. QED  BY <2>1, <3>1, <1>1, <1>2, <1>3 DEF FinishAgent, TypeOK, Agent
  <2>2. CASE ~agents[id].alive
    BY <2>2 DEF FinishAgent, TypeOK
  <2>. QED  BY <2>1, <2>2
<1>5. moved' \in Nat
  BY DEF FinishAgent
<1>. QED
  BY <1>4, <1>5 DEF FinishAgent, TypeOK, PhaseInv, IdsInv, caches, resources, lineage

(* A birth collected by reproduce_agents is well typed. *)
LEMMA GiveBirthTypes ==
  ASSUME ITypes, NEW id \in todo, GiveBirth(id)
  PROVE  ITypes'
<1>. USE DEF ITypes
<1>1. id \in DOMAIN agents
  BY DEF TypeOK
<1>2. TraitsOf(id) \in TraitRecords /\ agents[id] \in Agent
  BY <1>1, TraitsOfType
<1>3. agents[id].energy \in Nat /\ agents[id].energy \div 2 \in Nat
  <2>1. agents[id].energy \in Nat
    BY <1>2 DEF GiveBirth, TraitRecords, Agent
  <2>. QED  BY <2>1
<1>4. PICK o \in Offsets, genome \in Genomes :
        births' = Append(births, BirthOf(id, o, genome))
  BY DEF GiveBirth
<1>5. BirthOf(id, o, genome) \in Birth
  <2>1. Step(agents[id].pos, o) \in Cells
    BY <1>2, StepInCells DEF Agent
  <2>2. agents[id].generation + 1 \in Nat /\ id \in Nat
    BY <1>1, <1>2 DEF Agent, TypeOK
  <2>. QED  BY <1>3, <2>1, <2>2 DEF BirthOf, Birth
<1>6. births' \in Seq(Birth)
  BY <1>4, <1>5 DEF TypeOK
<1>7. agents' \in [DOMAIN agents -> Agent] /\ DOMAIN agents' = DOMAIN agents
  <2>1. agents[id].energy - agents[id].energy \div 2 \in Int
    BY <1>3
  <2>. QED  BY <1>1, <1>2, <2>1 DEF GiveBirth, TypeOK, Agent
<1>8. phase' = "reproduce"
  BY DEF GiveBirth
<1>. QED
  BY <1>6, <1>7, <1>8 DEF GiveBirth, TypeOK, PhaseInv, IdsInv, caches, resources, lineage

(* spawn_child keeps the types and the ids below next_id. *)
LEMMA SpawnChildTypes == ITypes /\ SpawnChild => ITypes'
<1>. SUFFICES ASSUME ITypes, SpawnChild PROVE ITypes'
  OBVIOUS
<1>. USE DEF ITypes
<1>. DEFINE b == Head(births)
            child == NewAgent(b.pos, b.energy, b.genome, b.parent_id, b.generation)
<1>1. b \in Birth /\ births' \in Seq(Birth)
  BY DEF SpawnChild, TypeOK
<1>2. child \in Agent
  <2>1. /\ b.pos \in Cells /\ b.energy \in Int /\ b.genome \in Genomes
        /\ b.parent_id \in Nat \union {NoParent} /\ b.generation \in Nat
    BY <1>1 DEF Birth
  <2>. HIDE DEF b
  <2>. QED  BY <2>1, NewAgentType
<1>3. agents' = [id \in DOMAIN agents \union {next_id} |->
                   IF id = next_id THEN child ELSE agents[id]]
  BY DEF SpawnChild
<1>4. DOMAIN agents' = DOMAIN agents \union {next_id}
  BY <1>3
<1>5. agents' \in [DOMAIN agents' -> Agent]
  <2>. HIDE DEF child
  <2>. QED  BY <1>2, <1>3, <1>4 DEF TypeOK
<1>6. next_id' \in Nat /\ next_id' = next_id + 1
  BY DEF SpawnChild, TypeOK
<1>7. DOMAIN agents' \subseteq 0 .. next_id' - 1 /\ DOMAIN agents' \subseteq Nat
  BY <1>4, <1>6 DEF IdsInv, TypeOK
<1>8. BirthLine(next_id, b) \in [tick : Nat, id : Nat, parent : Nat, gen : Nat]
  BY <1>1 DEF BirthLine, Birth, TypeOK
<1>9. born' \subseteq [tick : Nat, id : Nat, parent : Nat, gen : Nat]
  BY <1>8 DEF SpawnChild, TypeOK
<1>10. phase' = "reproduce" /\ todo' \subseteq DOMAIN agents'
  BY <1>4 DEF SpawnChild, TypeOK
<1>. HIDE DEF b, child
<1>. QED
  BY <1>1, <1>5, <1>6, <1>7, <1>9, <1>10
  DEF SpawnChild, TypeOK, PhaseInv, IdsInv, caches, resources

(* respawn_resources keeps resources on the grid. *)
LEMMA RespawnTypes == ITypes /\ RespawnResources => ITypes'
<1>. SUFFICES ASSUME ITypes, RespawnResources PROVE ITypes'
  OBVIOUS
<1>1. food' \subseteq Cells /\ water' \subseteq Cells /\ mineral' \subseteq Cells
  BY DEF RespawnResources, Regrow, ITypes, TypeOK
<1>. QED
  BY <1>1 DEF RespawnResources, ITypes, TypeOK, PhaseInv, IdsInv, caches, lineage

(* reap_dead and advance_tick keep the types. *)
LEMMA ReapDeadTypes == ITypes /\ ReapDead => ITypes'
<1>. SUFFICES ASSUME ITypes, ReapDead PROVE ITypes'
  OBVIOUS
<1>. USE DEF ITypes
<1>1. /\ DOMAIN agents' = DOMAIN agents \ Dead
      /\ agents' \in [DOMAIN agents' -> Agent]
  BY DEF ReapDead, TypeOK
<1>2. died' \subseteq [tick : Nat, id : Nat, cause : {"starvation", "dehydration"}]
  BY DEF ReapDead, TypeOK, Dead, CauseOfDeath
<1>3. tick_count' \in Nat /\ todo' = {} /\ births' = << >> /\ phase' = "idle"
  BY DEF ReapDead, TypeOK, PhaseInv
<1>. QED
  BY <1>1, <1>2, <1>3 DEF ReapDead, TypeOK, PhaseInv, IdsInv, caches, resources

(* Every step of a tick keeps the types and the phase discipline. *)
LEMMA NextTypes == ITypes /\ [Next]_vars => ITypes'
<1>. SUFFICES ASSUME ITypes, [Next]_vars PROVE ITypes'
  OBVIOUS
<1>1. CASE StartTick
  BY <1>1, StartTickTypes
<1>2. ASSUME NEW id \in todo, MoveAgent(id) PROVE ITypes'
  BY <1>2, MoveAgentTypes
<1>3. ASSUME NEW id \in todo, FinishAgent(id) PROVE ITypes'
  BY <1>3, FinishAgentTypes
<1>4. ASSUME NEW id \in todo, SkipReproduction(id) PROVE ITypes'
  BY <1>4 DEF SkipReproduction, ITypes, TypeOK, PhaseInv, IdsInv, caches, resources, lineage
<1>5. ASSUME NEW id \in todo, GiveBirth(id) PROVE ITypes'
  BY <1>5, GiveBirthTypes
<1>6. CASE EndStepping
  BY <1>6 DEF EndStepping, ITypes, TypeOK, PhaseInv, IdsInv, caches, resources, lineage
<1>7. CASE SpawnChild
  BY <1>7, SpawnChildTypes
<1>8. CASE RespawnResources
  BY <1>8, RespawnTypes
<1>9. CASE ReapDead
  BY <1>9, ReapDeadTypes
<1>10. CASE UNCHANGED vars
  BY <1>10 DEF vars, ITypes, TypeOK, PhaseInv, IdsInv, caches, resources, lineage
<1>. QED
  BY <1>1, <1>2, <1>3, <1>4, <1>5, <1>6, <1>7, <1>8, <1>9, <1>10 DEF Next

(* The inductive invariant of all the later proofs: types, phases, ids. *)
THEOREM AlwaysTypes == Spec => []ITypes
BY InitTypes, NextTypes, PTL DEF Spec

(* Every variable keeps its type, in particular every agent stays on the   *)
(* grid: `pos` is a cell after any number of moves and births.             *)
THEOREM TypeCorrect == Spec => []TypeOK
BY AlwaysTypes, PTL DEF ITypes

-----------------------------------------------------------------------------
(* Agents that survive a tick have reserves.                               *)

(* The initial agents have reserves. *)
LEMMA InitReserves == Init => ReservesInv
<1>. SUFFICES ASSUME Init PROVE ReservesInv
  OBVIOUS
<1>1. ASSUME NEW id \in DOMAIN agents
      PROVE  /\ agents[id].alive
             /\ agents[id].energy = StartingEnergy
             /\ agents[id].hydration = StartingHydration
  BY DEF Init, NewAgent
<1>2. births = << >>
  BY DEF Init
<1>. QED
  BY <1>1, <1>2, ConfigAssumption DEF ReservesInv

(* step_agent leaves an agent alive only with reserves. *)
LEMMA StepReserves ==
  ASSUME ITypes, ReservesInv, NEW id \in todo,
         MoveAgent(id) \/ FinishAgent(id)
  PROVE  ReservesInv'
<1>. USE DEF ITypes
<1>1. id \in DOMAIN agents /\ agents[id] \in Agent
  BY DEF TypeOK
<1>2. /\ DOMAIN agents' = DOMAIN agents
      /\ \A j \in DOMAIN agents : j # id => agents'[j] = agents[j]
  BY DEF MoveAgent, FinishAgent, TypeOK
<1>3. births' = births /\ phase = "step" /\ phase' = "step"
  BY DEF MoveAgent, FinishAgent
<1>4. CASE MoveAgent(id)
  BY <1>2, <1>3, <1>4 DEF MoveAgent, ReservesInv
<1>5. CASE FinishAgent(id)
  <2>1. agents'[id].alive => agents'[id].energy > 0 /\ agents'[id].hydration > 0
    BY <1>1, <1>5 DEF FinishAgent, TypeOK, Agent, Survives
  <2>. QED  BY <1>2, <1>3, <1>5, <2>1 DEF FinishAgent, ReservesInv
<1>. QED
  BY <1>4, <1>5

(* Halving the energy leaves some to the parent and to the child. *)
LEMMA GiveBirthReserves ==
  ASSUME ITypes, ReservesInv, NEW id \in todo, GiveBirth(id)
  PROVE  ReservesInv'
<1>. USE DEF ITypes
<1>1. id \in DOMAIN agents /\ TraitsOf(id) \in TraitRecords /\ agents[id] \in Agent
  BY TraitsOfType DEF TypeOK
<1>. DEFINE e == agents[id].energy
<1>2. e \div 2 > 0 /\ e - e \div 2 > 0
  <2>1. e \in Nat /\ e >= 2
    <3>1. TraitsOf(id).reproduction_threshold \in Nat \ {0, 1} /\ e \in Int
      BY <1>1 DEF TraitRecords, Agent
    <3>2. e >= TraitsOf(id).reproduction_threshold
      BY DEF GiveBirth
    <3>. HIDE DEF e
    <3>. QED  BY <3>1, <3>2
  <2>. HIDE DEF e
  <2>. QED  BY <2>1
<1>3. agents' = [agents EXCEPT ![id].energy = e - e \div 2]
  BY DEF GiveBirth
<1>4. \A i \in DOMAIN births' : births'[i].energy > 0
  <2>1. PICK o \in Offsets, genome \in Genomes :
          births' = Append(births, BirthOf(id, o, genome))
    BY DEF GiveBirth
  <2>2. BirthOf(id, o, genome).energy > 0
    BY <1>2 DEF BirthOf
  <2>3. births \in Seq(Birth)
    BY DEF TypeOK
  <2>. HIDE DEF e
  <2>4. ASSUME NEW i \in DOMAIN births' PROVE births'[i].energy > 0
    <3>1. CASE i \in DOMAIN births
      BY <2>1, <2>3, <3>1 DEF ReservesInv
    <3>2. CASE i \notin DOMAIN births
      BY <2>1, <2>2, <2>3, <3>2
    <3>. QED  BY <3>1, <3>2
  <2>. QED  BY <2>4
<1>5. ASSUME NEW j \in DOMAIN agents'
      PROVE  agents'[j].alive => agents'[j].energy > 0 /\ agents'[j].hydration > 0
  <2>1. agents[j].alive => agents[j].energy > 0 /\ agents[j].hydration > 0
    BY <1>3 DEF ReservesInv, GiveBirth
  <2>2. CASE j = id
    <3>1. agents'[j] = [agents[id] EXCEPT !.energy = e - e \div 2]
      BY <1>1, <1>3, <2>2
    <3>2. /\ agents'[j].energy = e - e \div 2
          /\ agents'[j].alive = agents[j].alive
          /\ agents'[j].hydration = agents[j].hydration
      BY <1>1, <2>2, <3>1 DEF Agent
    <3>. HIDE DEF e
    <3>. QED  BY <1>2, <2>1, <3>2
  <2>3. CASE j # id
    BY <1>3, <2>1, <2>3
  <2>. QED  BY <2>2, <2>3
<1>. QED
  BY <1>4, <1>5 DEF ReservesInv, GiveBirth

(* A child starts with the reserves its birth carried. *)
LEMMA SpawnChildReserves ==
  ASSUME ITypes, ReservesInv, SpawnChild
  PROVE  ReservesInv'
<1>. USE DEF ITypes
<1>1. births \in Seq(Birth) /\ births # << >>
  BY DEF SpawnChild, TypeOK
<1>2. /\ DOMAIN agents' = DOMAIN agents \union {next_id}
      /\ agents'[next_id].energy = Head(births).energy
      /\ agents'[next_id].hydration = StartingHydration
      /\ \A j \in DOMAIN agents : j # next_id => agents'[j] = agents[j]
  BY DEF SpawnChild, NewAgent
<1>3. Head(births).energy > 0 /\ StartingHydration > 0
  BY <1>1, ConfigAssumption DEF ReservesInv
<1>4. \A i \in DOMAIN births' : births'[i].energy > 0
  BY <1>1 DEF SpawnChild, ReservesInv
<1>. QED
  BY <1>2, <1>3, <1>4 DEF SpawnChild, ReservesInv

(* Every step of a tick keeps ReservesInv. *)
LEMMA NextReserves == ITypes /\ ReservesInv /\ [Next]_vars => ReservesInv'
<1>. SUFFICES ASSUME ITypes, ReservesInv, [Next]_vars PROVE ReservesInv'
  OBVIOUS
<1>1. CASE StartTick
  BY <1>1 DEF StartTick, ReservesInv
<1>2. ASSUME NEW id \in todo, MoveAgent(id) \/ FinishAgent(id) PROVE ReservesInv'
  BY <1>2, StepReserves
<1>3. ASSUME NEW id \in todo, SkipReproduction(id) PROVE ReservesInv'
  BY <1>3 DEF SkipReproduction, ReservesInv
<1>4. ASSUME NEW id \in todo, GiveBirth(id) PROVE ReservesInv'
  BY <1>4, GiveBirthReserves
<1>5. CASE EndStepping
  BY <1>5 DEF EndStepping, ReservesInv
<1>6. CASE SpawnChild
  BY <1>6, SpawnChildReserves
<1>7. CASE RespawnResources
  BY <1>7 DEF RespawnResources, ReservesInv
<1>8. CASE ReapDead
  BY <1>8 DEF ReapDead, Dead, ReservesInv
<1>9. CASE UNCHANGED vars
  BY <1>9 DEF vars, ReservesInv
<1>. QED
  BY <1>1, <1>2, <1>3, <1>4, <1>5, <1>6, <1>7, <1>8, <1>9 DEF Next

(* After every tick, whatever the world, every agent left is alive, with   *)
(* energy and hydration above zero.                                        *)
THEOREM SurvivorsAlwaysHaveReserves == Spec => []SurvivorsHaveReserves
<1>1. ReservesInv => SurvivorsHaveReserves
  BY DEF ReservesInv, SurvivorsHaveReserves
<1>. QED
  BY <1>1, AlwaysTypes, InitReserves, NextReserves, PTL DEF Spec

-----------------------------------------------------------------------------
(* The lineage log.                                                        *)

(* No line is logged for the initial agents. *)
LEMMA InitLineage == Init => LineageInv
<1>. SUFFICES ASSUME Init PROVE LineageInv
  OBVIOUS
<1>1. DOMAIN agents = 0 .. InitialAgents - 1 /\ next_id = InitialAgents
  BY DEF Init
<1>2. born = {} /\ died = {}
  BY DEF Init
<1>3. Ids(born) = {} /\ Ids(died) = {}
  BY <1>2 DEF Ids
<1>4. InitialAgents \in Nat /\ InitialAgents .. next_id - 1 = {}
  BY <1>1, ConfigAssumption
<1>5. LivesLoggedOnce
  BY <1>2 DEF LivesLoggedOnce
<1>6. /\ next_id >= InitialAgents
      /\ Ids(born) = InitialAgents .. next_id - 1
      /\ DOMAIN agents \union Ids(died) = 0 .. next_id - 1
      /\ DOMAIN agents \intersect Ids(died) = {}
  BY <1>1, <1>3, <1>4
<1>. QED
  BY <1>2, <1>5, <1>6 DEF LineageInv

(* Stepping and reproducing change no id and no line of the log; an agent  *)
(* that dies was not born in this tick.                                    *)
LEMMA StepLineage ==
  ASSUME ITypes, LineageInv, NEW id \in todo,
         MoveAgent(id) \/ FinishAgent(id) \/ SkipReproduction(id) \/ GiveBirth(id)
  PROVE  LineageInv'
<1>. USE DEF ITypes
<1>1. DOMAIN agents' = DOMAIN agents
  BY DEF MoveAgent, FinishAgent, SkipReproduction, GiveBirth, TypeOK
<1>2. UNCHANGED <<born, died, next_id, tick_count>>
  BY DEF MoveAgent, FinishAgent, SkipReproduction, GiveBirth, lineage
<1>3. \A b \in born : b.tick < tick_count
  <2>1. todo # {}
    OBVIOUS
  <2>2. \A b \in born : b.tick \in Nat /\ tick_count \in Nat
    BY DEF TypeOK
  <2>. QED  BY <2>1, <2>2 DEF LineageInv
<1>4. Ids(born)' = Ids(born) /\ Ids(died)' = Ids(died)
  BY <1>2 DEF Ids
<1>. QED
  BY <1>1, <1>2, <1>3, <1>4 DEF LineageInv, LivesLoggedOnce, TypeOK

(* A birth logs a new id, in the tick it belongs to. *)
LEMMA SpawnChildLineage ==
  ASSUME ITypes, LineageInv, SpawnChild
  PROVE  LineageInv'
<1>. USE DEF ITypes
<1>. DEFINE line == BirthLine(next_id, Head(births))
<1>1. /\ DOMAIN agents' = DOMAIN agents \union {next_id}
      /\ agents'[next_id].alive
      /\ \A j \in DOMAIN agents : j # next_id => agents'[j] = agents[j]
  BY DEF SpawnChild, NewAgent
<1>2. /\ born' = born \union {line} /\ died' = died
      /\ next_id' = next_id + 1 /\ tick_count' = tick_count
      /\ phase' = "reproduce" /\ todo' = {}
  BY DEF SpawnChild
<1>3. line.id = next_id /\ line.tick = tick_count
  BY DEF BirthLine
<1>. HIDE DEF line
<1>4. Ids(born)' = Ids(born) \union {next_id} /\ Ids(died)' = Ids(died)
  BY <1>2, <1>3 DEF Ids
<1>5. \A b \in born : b.id < next_id /\ b.id # next_id
  <2>1. \A b \in born : b.id \in InitialAgents .. next_id - 1
    BY DEF LineageInv, Ids
  <2>. QED  BY <2>1, ConfigAssumption DEF TypeOK
<1>6. next_id \notin DOMAIN agents /\ next_id \notin Ids(died)
  BY DEF LineageInv, TypeOK
<1>7. /\ next_id' >= InitialAgents
      /\ Ids(born)' = InitialAgents .. next_id' - 1
      /\ DOMAIN agents' \union Ids(died)' = 0 .. next_id' - 1
      /\ DOMAIN agents' \intersect Ids(died)' = {}
  <2>1. /\ InitialAgents \in Nat /\ next_id \in Nat /\ next_id >= InitialAgents
    BY ConfigAssumption DEF LineageInv, TypeOK
  <2>2. /\ InitialAgents .. next_id = (InitialAgents .. next_id - 1) \union {next_id}
        /\ 0 .. next_id = (0 .. next_id - 1) \union {next_id}
    BY <2>1
  <2>3. next_id' - 1 = next_id /\ next_id' >= InitialAgents
    BY <1>2, <2>1
  <2>. QED  BY <1>1, <1>4, <1>6, <2>2, <2>3 DEF LineageInv
<1>8. \A b \in born' :
        /\ b.tick <= tick_count'
        /\ b.tick = tick_count' => b.id \in DOMAIN agents' /\ agents'[b.id].alive
  BY <1>1, <1>2, <1>3, <1>6 DEF LineageInv, TypeOK
<1>9. \A d \in died' : d.tick < tick_count'
  BY <1>2 DEF LineageInv
<1>10. LivesLoggedOnce'
  <2>1. \A b1, b2 \in born' : b1.id = b2.id => b1 = b2
    BY <1>2, <1>3, <1>5 DEF LineageInv, LivesLoggedOnce
  <2>2. \A b \in born', d \in died' : b.id = d.id => b.tick < d.tick
    BY <1>2, <1>3, <1>6 DEF LineageInv, LivesLoggedOnce, Ids
  <2>. QED  BY <1>2, <2>1, <2>2 DEF LineageInv, LivesLoggedOnce
<1>. QED
  BY <1>2, <1>7, <1>8, <1>9, <1>10 DEF LineageInv

(* reap_dead logs the ids it erases, none of which was logged before. *)
LEMMA ReapDeadLineage ==
  ASSUME ITypes, LineageInv, ReapDead
  PROVE  LineageInv'
<1>. USE DEF ITypes
<1>. DEFINE lines == {[tick |-> tick_count, id |-> id, cause |-> CauseOfDeath(id)] : id \in Dead}
<1>1. /\ DOMAIN agents' = DOMAIN agents \ Dead
      /\ died' = died \union lines
      /\ born' = born /\ next_id' = next_id /\ tick_count' = tick_count + 1
  BY DEF ReapDead
<1>2. \A d \in lines : d.tick = tick_count /\ d.id \in Dead
  OBVIOUS
<1>3. Ids(lines) = Dead
  <2>1. ASSUME NEW id \in Dead PROVE \E d \in lines : d.id = id
    <3>. DEFINE d == [tick |-> tick_count, id |-> id, cause |-> CauseOfDeath(id)]
    <3>1. d \in lines /\ d.id = id
      OBVIOUS
    <3>. QED  BY <3>1
  <2>. HIDE DEF lines
  <2>. QED  BY <1>2, <2>1 DEF Ids
<1>4. \A d1, d2 \in lines : d1.id = d2.id => d1 = d2
  OBVIOUS
<1>. HIDE DEF lines
<1>5. Ids(died)' = Ids(died) \union Dead /\ Ids(born)' = Ids(born)
  BY <1>1, <1>3 DEF Ids
<1>6. Dead \subseteq DOMAIN agents /\ tick_count \in Nat
  BY DEF Dead, TypeOK
<1>7. /\ DOMAIN agents' \union Ids(died)' = 0 .. next_id' - 1
      /\ DOMAIN agents' \intersect Ids(died)' = {}
  BY <1>1, <1>5, <1>6 DEF LineageInv
<1>8. \A b \in born' : b.tick < tick_count'
  BY <1>1, <1>6 DEF LineageInv, TypeOK
<1>9. \A d \in died' : d.tick < tick_count'
  <2>1. \A d \in died : d.tick \in Nat
    BY DEF TypeOK
  <2>. QED  BY <1>1, <1>2, <1>6, <2>1 DEF LineageInv
<1>10. LivesLoggedOnce'
  <2>1. \A d1, d2 \in died' : d1.id = d2.id => d1 = d2
    <3>1. \A d \in died : d.id \notin Dead
      BY <1>6 DEF LineageInv, Ids
    <3>. QED  BY <1>1, <1>2, <1>4, <3>1 DEF LineageInv, LivesLoggedOnce
  <2>2. ASSUME NEW b \in born', NEW d \in died', b.id = d.id
        PROVE  b.tick < d.tick
    <3>1. CASE d \in died
      BY <1>1, <2>2, <3>1 DEF LineageInv, LivesLoggedOnce
    <3>2. CASE d \in lines
      <4>1. ~agents[b.id].alive /\ d.tick = tick_count
        BY <1>2, <2>2, <3>2 DEF Dead
      <4>2. b \in born /\ b.tick \in Nat
        BY <1>1 DEF TypeOK
      <4>. QED  BY <1>6, <4>1, <4>2 DEF LineageInv
    <3>. QED  BY <1>1, <3>1, <3>2
  <2>. QED  BY <1>1, <2>1, <2>2 DEF LineageInv, LivesLoggedOnce
<1>11. \A b \in born' : b.tick \in Nat /\ tick_count' \in Nat
  BY <1>1, <1>6 DEF TypeOK
<1>12. \A b \in born' : b.tick <= tick_count' /\ b.tick # tick_count'
  BY <1>8, <1>11
<1>13. next_id' >= InitialAgents /\ Ids(born)' = InitialAgents .. next_id' - 1
  BY <1>1, <1>5 DEF LineageInv
<1>. QED
  BY <1>7, <1>9, <1>10, <1>12, <1>13 DEF LineageInv

(* Every step of a tick keeps LineageInv. *)
LEMMA NextLineage == ITypes /\ LineageInv /\ [Next]_vars => LineageInv'
<1>. SUFFICES ASSUME ITypes, LineageInv, [Next]_vars PROVE LineageInv'
  OBVIOUS
<1>1. CASE StartTick
  <2>1. \A b \in born : b.tick # tick_count
    BY <1>1 DEF StartTick, LineageInv
  <2>. QED  BY <1>1, <2>1 DEF StartTick, LineageInv, LivesLoggedOnce, Ids, lineage
<1>2. ASSUME NEW id \in todo,
             MoveAgent(id) \/ FinishAgent(id) \/ SkipReproduction(id) \/ GiveBirth(id)
      PROVE  LineageInv'
  BY <1>2, StepLineage
<1>3. CASE EndStepping
  <2>1. \A b \in born : b.tick # tick_count
    BY <1>3 DEF EndStepping, LineageInv
  <2>. QED  BY <1>3, <2>1 DEF EndStepping, LineageInv, LivesLoggedOnce, Ids, lineage
<1>4. CASE SpawnChild
  BY <1>4, SpawnChildLineage
<1>5. CASE RespawnResources
  BY <1>5 DEF RespawnResources, LineageInv, LivesLoggedOnce, Ids, lineage
<1>6. CASE ReapDead
  BY <1>6, ReapDeadLineage
<1>7. CASE UNCHANGED vars
  BY <1>7 DEF vars, LineageInv, LivesLoggedOnce, Ids, lineage
<1>. QED
  BY <1>1, <1>2, <1>3, <1>4, <1>5, <1>6, <1>7 DEF Next

(* The log and the vector agree at every step of every tick. *)
THEOREM AlwaysLineage == Spec => []LineageInv
BY AlwaysTypes, InitLineage, NextLineage, PTL DEF Spec

(* Between ticks the log tells exactly who is alive.                       *)
THEOREM LogAlwaysTellsPopulation == Spec => []LogTellsPopulation
<1>1. TypeOK /\ LineageInv => LogTellsPopulation
  <2>. SUFFICES ASSUME TypeOK, LineageInv PROVE LogTellsPopulation
    OBVIOUS
  <2>1. 0 .. next_id - 1 = 0 .. InitialAgents - 1 \union InitialAgents .. next_id - 1
    BY ConfigAssumption DEF LineageInv, TypeOK
  <2>. QED  BY <2>1 DEF LineageInv, LogTellsPopulation
<1>. QED
  BY <1>1, TypeCorrect, AlwaysLineage, PTL

(* No id is reused, nobody dies twice or in the tick of its birth.         *)
THEOREM LivesAlwaysLoggedOnce == Spec => []LivesLoggedOnce
<1>1. LineageInv => LivesLoggedOnce
  BY DEF LineageInv
<1>. QED
  BY <1>1, AlwaysLineage, PTL

-----------------------------------------------------------------------------
(* The index cache.                                                        *)

(* Appending an agent moves no other: next_id is above all ids.            *)
LEMMA AppendKeepsRank ==
  ASSUME ITypes, SpawnChild, NEW id \in DOMAIN agents
  PROVE  Rank(id)' = Rank(id)
<1>1. DOMAIN agents' = DOMAIN agents \union {next_id}
  BY DEF SpawnChild
<1>2. id \in 0 .. next_id - 1 /\ next_id \in Nat
  BY DEF ITypes, IdsInv, TypeOK
<1>3. ~(next_id < id)
  BY <1>2
<1>4. {j \in DOMAIN agents' : j < id} = {j \in DOMAIN agents : j < id}
  BY <1>1, <1>3
<1>. QED  BY <1>4 DEF Rank

(* What keeps the vector's ids and the log keeps the cache valid.          *)
LEMMA SameIdsKeepIndex ==
  ASSUME IndexCacheValid, phase # "idle",
         DOMAIN agents' = DOMAIN agents, agent_index_map' = agent_index_map,
         born' = born, tick_count' = tick_count
  PROVE  IndexCacheValid'
BY DEF IndexCacheValid, Rank

(* Every step of a tick keeps the cache valid. *)
LEMMA NextIndex == ITypes /\ IndexCacheValid /\ [Next]_vars => IndexCacheValid'
<1>. SUFFICES ASSUME ITypes, IndexCacheValid, [Next]_vars PROVE IndexCacheValid'
  OBVIOUS
<1>1. CASE StartTick
  <2>1. agents' = agents /\ agent_index_map' = [id \in DOMAIN agents |-> Rank(id)]
    BY <1>1 DEF StartTick, IndexMap
  <2>2. \A id : Rank(id)' = Rank(id)
    BY <2>1 DEF Rank
  <2>. QED  BY <2>1, <2>2 DEF IndexCacheValid
<1>2. ASSUME NEW id \in todo, MoveAgent(id) \/ FinishAgent(id)
                                \/ SkipReproduction(id) \/ GiveBirth(id)
      PROVE  IndexCacheValid'
  <2>1. DOMAIN agents' = DOMAIN agents
    BY <1>2 DEF MoveAgent, FinishAgent, SkipReproduction, GiveBirth, ITypes, TypeOK
  <2>2. /\ phase # "idle" /\ agent_index_map' = agent_index_map
        /\ born' = born /\ tick_count' = tick_count
    BY <1>2 DEF MoveAgent, FinishAgent, SkipReproduction, GiveBirth, caches, lineage
  <2>. QED  BY <2>1, <2>2, SameIdsKeepIndex
<1>3. CASE EndStepping
  BY <1>3, SameIdsKeepIndex DEF EndStepping, caches, lineage
<1>4. CASE SpawnChild
  <2>. DEFINE line == BirthLine(next_id, Head(births))
  <2>1. /\ DOMAIN agents' = DOMAIN agents \union {next_id}
        /\ agent_index_map' = agent_index_map /\ tick_count' = tick_count
        /\ born' = born \union {line} /\ phase # "idle"
    BY <1>4 DEF SpawnChild, caches
  <2>2. line.id = next_id /\ line.tick = tick_count
    BY DEF BirthLine
  <2>. HIDE DEF line
  <2>3. \A id \in DOMAIN agent_index_map : id \in DOMAIN agents /\ agent_index_map[id] = Rank(id)
    BY <2>1 DEF IndexCacheValid
  <2>4. \A id \in DOMAIN agents : Rank(id)' = Rank(id)
    BY <1>4, AppendKeepsRank
  <2>5. \A id \in DOMAIN agents' \ DOMAIN agent_index_map' :
          \E b \in born' : b.id = id /\ b.tick = tick_count'
    BY <2>1, <2>2 DEF IndexCacheValid
  <2>. QED  BY <2>1, <2>3, <2>4, <2>5 DEF IndexCacheValid
<1>5. CASE RespawnResources
  BY <1>5, SameIdsKeepIndex DEF RespawnResources, caches, lineage
<1>6. CASE ReapDead
  BY <1>6 DEF ReapDead, IndexCacheValid
<1>7. CASE UNCHANGED vars
  BY <1>7 DEF vars, IndexCacheValid, Rank
<1>. QED
  BY <1>1, <1>2, <1>3, <1>4, <1>5, <1>6, <1>7 DEF Next

(* agent_index_by_id gives the right index from rebuild_caches until       *)
(* reap_dead, in every world.                                              *)
THEOREM IndexCacheAlwaysValid == Spec => []IndexCacheValid
<1>1. Init => IndexCacheValid
  BY DEF Init, IndexCacheValid
<1>. QED
  BY <1>1, AlwaysTypes, NextIndex, PTL DEF Spec

-----------------------------------------------------------------------------
(* The genealogy.                                                          *)

(* An agent's generation can be read off the log.                          *)
GenerationLogged(id) ==
  \/ id < InitialAgents /\ agents[id].generation = 0
  \/ \E p \in born : p.id = id /\ p.gen = agents[id].generation

(* So can that of the parent of a birth that was collected in this tick.   *)
ParentLogged(b) ==
  \/ b.parent_id < InitialAgents /\ b.generation = 1
  \/ \E p \in born : p.id = b.parent_id /\ b.generation = p.gen + 1 /\ p.tick < tick_count

GenealogyInv ==
  /\ GenealogyIsForest
  /\ \A id \in DOMAIN agents : GenerationLogged(id)
  /\ \A i \in DOMAIN births : births[i].parent_id \in DOMAIN agents /\ ParentLogged(births[i])

(* The initial agents are of generation 0 and nothing is logged. *)
LEMMA InitGenealogy == Init => GenealogyInv
<1>. SUFFICES ASSUME Init PROVE GenealogyInv
  OBVIOUS
<1>1. \A id \in DOMAIN agents : agents[id].generation = 0 /\ id < InitialAgents
  BY ConfigAssumption DEF Init, NewAgent
<1>2. born = {} /\ births = << >>
  BY DEF Init
<1>. QED  BY <1>1, <1>2 DEF GenealogyInv, GenerationLogged, GenealogyIsForest

(* Steps that change neither generations, births nor the log. *)
LEMMA SameGenealogy ==
  ASSUME GenealogyInv, DOMAIN agents' = DOMAIN agents,
         \A id \in DOMAIN agents : agents'[id].generation = agents[id].generation,
         births' = births, born' = born, died' = died, tick_count' = tick_count
  PROVE  GenealogyInv'
BY DEF GenealogyInv, GenealogyIsForest, GenerationLogged, ParentLogged

(* Moves and drains change no generation. *)
LEMMA StepGenealogy ==
  ASSUME ITypes, GenealogyInv, NEW id \in todo, MoveAgent(id) \/ FinishAgent(id)
  PROVE  GenealogyInv'
<1>1. id \in DOMAIN agents /\ agents[id] \in Agent
  BY DEF ITypes, TypeOK
<1>2. /\ DOMAIN agents' = DOMAIN agents
      /\ \A j \in DOMAIN agents : j # id => agents'[j] = agents[j]
  BY DEF MoveAgent, FinishAgent, ITypes, TypeOK
<1>3. agents'[id].generation = agents[id].generation
  <2>1. CASE MoveAgent(id)
    <3>1. PICK target, e, h :
            agents' = [agents EXCEPT ![id].pos = target, ![id].energy = e, ![id].hydration = h]
      BY <2>1 DEF MoveAgent
    <3>. QED  BY <1>1, <3>1 DEF Agent
  <2>2. CASE FinishAgent(id)
    BY <1>1, <2>2 DEF FinishAgent, Agent
  <2>. QED  BY <2>1, <2>2
<1>4. births' = births /\ born' = born /\ died' = died /\ tick_count' = tick_count
  BY DEF MoveAgent, FinishAgent, lineage
<1>. QED  BY <1>2, <1>3, <1>4, SameGenealogy

(* A parent was born before this tick: in this tick nothing is logged      *)
(* before the loop over the parents has ended.                             *)
LEMMA GiveBirthGenealogy ==
  ASSUME ITypes, LineageInv, GenealogyInv, NEW id \in todo, GiveBirth(id)
  PROVE  GenealogyInv'
<1>1. id \in DOMAIN agents /\ agents[id] \in Agent /\ tick_count \in Nat /\ births \in Seq(Birth)
  BY DEF ITypes, TypeOK
<1>2. PICK o \in Offsets, genome \in Genomes :
        births' = Append(births, BirthOf(id, o, genome))
  BY DEF GiveBirth
<1>. DEFINE b == BirthOf(id, o, genome)
<1>3. b.parent_id = id /\ b.generation = agents[id].generation + 1
  BY DEF BirthOf
<1>4. /\ agents' = [agents EXCEPT ![id].energy = @ - agents[id].energy \div 2]
      /\ born' = born /\ died' = died /\ tick_count' = tick_count
  BY DEF GiveBirth, lineage
<1>5. /\ DOMAIN agents' = DOMAIN agents
      /\ \A j \in DOMAIN agents : agents'[j].generation = agents[j].generation
  BY <1>1, <1>4 DEF Agent
<1>6. \A p \in born : p.tick < tick_count
  <2>1. \A p \in born : p.tick \in Nat /\ p.tick <= tick_count /\ p.tick # tick_count
    BY DEF LineageInv, ITypes, TypeOK
  <2>. QED  BY <1>1, <2>1
<1>7. ParentLogged(b)
  BY <1>1, <1>3, <1>6 DEF GenealogyInv, GenerationLogged, ParentLogged
<1>8. \A c : ParentLogged(c)' = ParentLogged(c)
  BY <1>4 DEF ParentLogged
<1>. HIDE DEF b
<1>9. ASSUME NEW i \in DOMAIN births'
      PROVE  births'[i].parent_id \in DOMAIN agents' /\ ParentLogged(births'[i])
  <2>1. CASE i \in DOMAIN births
    BY <1>1, <1>2, <1>5, <2>1 DEF GenealogyInv
  <2>2. CASE i \notin DOMAIN births
    <3>1. births'[i] = b
      BY <1>1, <1>2, <2>2 DEF b
    <3>. QED  BY <1>1, <1>3, <1>5, <1>7, <3>1
  <2>. QED  BY <2>1, <2>2
<1>10. \A j \in DOMAIN agents' : GenerationLogged(j)'
  BY <1>4, <1>5 DEF GenealogyInv, GenerationLogged
<1>11. GenealogyIsForest'
  BY <1>4 DEF GenealogyInv, GenealogyIsForest
<1>. QED  BY <1>4, <1>8, <1>9, <1>10, <1>11 DEF GenealogyInv, ParentLogged

(* The line of a birth names a parent that is in the vector. *)
LEMMA SpawnChildGenealogy ==
  ASSUME ITypes, LineageInv, GenealogyInv, SpawnChild
  PROVE  GenealogyInv'
<1>. DEFINE b == Head(births)
            line == BirthLine(next_id, b)
<1>1. births \in Seq(Birth) /\ births # << >> /\ next_id \in Nat /\ tick_count \in Nat
  BY DEF SpawnChild, ITypes, TypeOK
<1>2. b \in Birth /\ b.parent_id \in DOMAIN agents /\ ParentLogged(b)
  BY <1>1 DEF GenealogyInv
<1>3. /\ DOMAIN agents' = DOMAIN agents \union {next_id}
      /\ agents'[next_id].generation = b.generation
      /\ \A j \in DOMAIN agents : j # next_id => agents'[j] = agents[j]
  BY DEF SpawnChild, NewAgent
<1>4. /\ born' = born \union {line} /\ died' = died /\ tick_count' = tick_count
      /\ births' = Tail(births)
  BY DEF SpawnChild
<1>5. /\ line.id = next_id /\ line.tick = tick_count
      /\ line.parent = b.parent_id /\ line.gen = b.generation
  BY DEF BirthLine
<1>6. b.parent_id < next_id /\ next_id \notin DOMAIN agents
  BY <1>1, <1>2 DEF ITypes, IdsInv
<1>. HIDE DEF b, line
<1>7. \A d \in died : d.id # b.parent_id
  BY <1>2 DEF LineageInv, Ids
<1>8. GenealogyIsForest'
  <2>1. ASSUME NEW c \in born
        PROVE  /\ c.parent < c.id
               /\ \/ c.parent < InitialAgents /\ c.gen = 1
                  \/ \E p \in born' : p.id = c.parent /\ c.gen = p.gen + 1 /\ p.tick < c.tick
               /\ \A d \in died' : d.id = c.parent => c.tick <= d.tick
    BY <1>4 DEF GenealogyInv, GenealogyIsForest
  <2>2. \/ line.parent < InitialAgents /\ line.gen = 1
        \/ \E p \in born' : p.id = line.parent /\ line.gen = p.gen + 1 /\ p.tick < line.tick
    BY <1>2, <1>4, <1>5 DEF ParentLogged
  <2>3. line.parent < line.id /\ \A d \in died' : d.id = line.parent => line.tick <= d.tick
    BY <1>4, <1>5, <1>6, <1>7
  <2>. QED  BY <1>4, <2>1, <2>2, <2>3 DEF GenealogyIsForest
<1>9. \A j \in DOMAIN agents' : GenerationLogged(j)'
  <2>1. ASSUME NEW j, j = next_id PROVE GenerationLogged(j)'
    BY <1>3, <1>4, <1>5, <2>1 DEF GenerationLogged
  <2>2. ASSUME NEW j \in DOMAIN agents PROVE GenerationLogged(j)'
    BY <1>3, <1>4, <1>6 DEF GenealogyInv, GenerationLogged
  <2>. QED  BY <1>3, <2>1, <2>2
<1>10. ASSUME NEW i \in DOMAIN births'
       PROVE  births'[i].parent_id \in DOMAIN agents' /\ ParentLogged(births[i])'
  <2>1. i \in 1 .. Len(births) - 1 /\ births'[i] = births[i + 1] /\ i + 1 \in DOMAIN births
    BY <1>1, <1>4
  <2>2. births[i + 1].parent_id \in DOMAIN agents /\ ParentLogged(births[i + 1])
    BY <2>1 DEF GenealogyInv
  <2>. QED  BY <1>3, <1>4, <2>1, <2>2 DEF ParentLogged
<1>. QED  BY <1>8, <1>9, <1>10 DEF GenealogyInv

(* Who dies now dies no earlier than its children were born. *)
LEMMA ReapDeadGenealogy ==
  ASSUME ITypes, LineageInv, GenealogyInv, ReapDead
  PROVE  GenealogyInv'
<1>1. births = << >> /\ births' = << >> /\ born' = born
  BY DEF ReapDead, ITypes, PhaseInv
<1>2. /\ DOMAIN agents' \subseteq DOMAIN agents
      /\ \A j \in DOMAIN agents' : agents'[j] = agents[j]
  BY DEF ReapDead
<1>3. \A d \in died' : d \in died \/ d.tick = tick_count
  BY DEF ReapDead
<1>4. \A b \in born : b.tick <= tick_count
  BY DEF LineageInv
<1>5. GenealogyIsForest'
  BY <1>1, <1>3, <1>4 DEF GenealogyInv, GenealogyIsForest
<1>. QED  BY <1>1, <1>2, <1>5 DEF GenealogyInv, GenerationLogged

(* Every step of a tick keeps GenealogyInv. *)
LEMMA NextGenealogy ==
  ITypes /\ LineageInv /\ GenealogyInv /\ [Next]_vars => GenealogyInv'
<1>. SUFFICES ASSUME ITypes, LineageInv, GenealogyInv, [Next]_vars PROVE GenealogyInv'
  OBVIOUS
<1>1. CASE StartTick
  BY <1>1, SameGenealogy DEF StartTick, lineage
<1>2. ASSUME NEW id \in todo, MoveAgent(id) \/ FinishAgent(id) PROVE GenealogyInv'
  BY <1>2, StepGenealogy
<1>3. ASSUME NEW id \in todo, SkipReproduction(id) PROVE GenealogyInv'
  BY <1>3, SameGenealogy DEF SkipReproduction, lineage
<1>4. ASSUME NEW id \in todo, GiveBirth(id) PROVE GenealogyInv'
  BY <1>4, GiveBirthGenealogy
<1>5. CASE EndStepping
  BY <1>5, SameGenealogy DEF EndStepping, lineage
<1>6. CASE SpawnChild
  BY <1>6, SpawnChildGenealogy
<1>7. CASE RespawnResources
  BY <1>7, SameGenealogy DEF RespawnResources, lineage
<1>8. CASE ReapDead
  BY <1>8, ReapDeadGenealogy
<1>9. CASE UNCHANGED vars
  BY <1>9, SameGenealogy DEF vars
<1>. QED
  BY <1>1, <1>2, <1>3, <1>4, <1>5, <1>6, <1>7, <1>8, <1>9 DEF Next

(* The genealogy a reader rebuilds from the log is a forest, in every      *)
(* world: parents come before children, one generation older and not dead. *)
THEOREM GenealogyIsAlwaysForest == Spec => []GenealogyIsForest
<1>1. GenealogyInv => GenealogyIsForest
  BY DEF GenealogyInv
<1>. QED
  BY <1>1, AlwaysTypes, AlwaysLineage, InitGenealogy, NextGenealogy, PTL DEF Spec

-----------------------------------------------------------------------------
(* The starvation of a barren world.                                       *)

(* The ticks an agent has paid for: the running one too, once it is        *)
(* stepped.                                                                *)
Paid(id) ==
  IF phase = "idle" \/ (phase = "step" /\ id \in todo) THEN tick_count ELSE tick_count + 1

(* Minerals lie on rock only, and are not worth more than the climb: in a  *)
(* barren world no agent that is alive has more energy than it started     *)
(* with, less one for each tick; nor has one that is about to be born.     *)
BarrenInv ==
  /\ food = {}
  /\ mineral \subseteq {c \in Cells : Terrain[c] = "Rock"}
  /\ \A id \in DOMAIN agents :
       agents[id].alive => agents[id].energy + Paid(id) <= StartingEnergy
  /\ \A i \in DOMAIN births : births[i].energy + tick_count + 1 <= StartingEnergy

(* A grid is finite. *)
LEMMA CellsFinite == IsFiniteSet(Cells)
<1>1. Width - 1 \in Int /\ Height - 1 \in Int
  BY ConfigAssumption
<1>2. IsFiniteSet(0 .. Width - 1)
  BY ONLY <1>1, FS_Interval
<1>3. IsFiniteSet(0 .. Height - 1)
  BY ONLY <1>1, FS_Interval
<1>. QED
  BY ONLY <1>2, <1>3, FS_Product DEF Cells

(* A barren world starts so. *)
LEMMA InitBarren == Barren /\ Init => BarrenInv
<1>. SUFFICES ASSUME Barren, Init PROVE BarrenInv
  OBVIOUS
<1>1. \A id \in DOMAIN agents : agents[id].energy = StartingEnergy
  BY DEF Init, NewAgent
<1>2. food = {}
  <2>1. food \subseteq Cells /\ Cardinality(food) <= 0
    BY DEF Init, Barren
  <2>3. IsFiniteSet(food) /\ Cardinality(food) \in Nat
    BY <2>1, CellsFinite, FS_Subset, FS_CardinalityType
  <2>. QED  BY <2>1, <2>3, FS_EmptySet
<1>3. mineral \subseteq {c \in Cells : Terrain[c] = "Rock"} /\ births = << >>
  BY DEF Init
<1>. QED
  BY <1>1, <1>2, <1>3, ConfigAssumption DEF BarrenInv, Paid, Init

(* A move costs at least what it gains: minerals lie on rock. *)
LEMMA MoveAgentBarren ==
  ASSUME ITypes, BarrenInv, NEW id \in todo, MoveAgent(id)
  PROVE  BarrenInv'
<1>. DEFINE t == TraitsOf(id)
<1>1. id \in DOMAIN agents /\ agents[id] \in Agent /\ t \in TraitRecords
  BY TraitsOfType DEF ITypes, TypeOK
<1>2. PICK target \in Neighbours(agents[id].pos) :
        /\ agents' = [agents EXCEPT
             ![id].pos = target,
             ![id].energy = @ - (MoveCost(t, Terrain[target]) - 1)
                              + Gain(food, target, t.forage_efficiency)
                              + Gain(mineral, target, 1),
             ![id].hydration = @ + Gain(water, target, t.forage_efficiency)]
        /\ food' = food \ {target}
        /\ mineral' = mineral \ {target}
  BY DEF MoveAgent
<1>3. target \in Cells /\ Terrain[target] \in TerrainKinds
  BY <1>1, <1>2, NeighboursAreCells, ConfigAssumption DEF Agent
<1>. DEFINE c == MoveCost(t, Terrain[target])
            g == Gain(mineral, target, 1)
<1>4. c \in Int /\ g \in Int /\ g <= c - 1
  <2>1. c \in Nat \ {0}
    BY <1>1, <1>3, MoveCostPositive
  <2>2. CASE target \in mineral
    <3>1. Terrain[target] = "Rock"
      BY <2>2 DEF BarrenInv
    <3>2. c = 2 /\ g = 1
      BY <2>2, <3>1 DEF MoveCost, MovementCost, Gain
    <3>. QED  BY <3>2
  <2>3. CASE target \notin mineral
    BY <2>1, <2>3 DEF Gain
  <2>. QED  BY <2>2, <2>3
<1>5. Gain(food, target, t.forage_efficiency) = 0
  BY DEF BarrenInv, Gain
<1>6. PICK h : agents' = [agents EXCEPT ![id].pos = target,
                                        ![id].energy = @ - (c - 1) + 0 + g, ![id].hydration = h]
  BY <1>2, <1>5
<1>. HIDE DEF c, g
<1>7. /\ DOMAIN agents' = DOMAIN agents
      /\ \A j \in DOMAIN agents : j # id => agents'[j] = agents[j]
  BY <1>6
<1>8. /\ agents'[id].energy = agents[id].energy - (c - 1) + 0 + g
      /\ agents'[id].alive = agents[id].alive
  BY <1>1, <1>6 DEF Agent
<1>9. /\ agents[id].energy \in Int /\ Paid(id) \in Int
      /\ agents'[id].energy <= agents[id].energy
  BY <1>1, <1>4, <1>8 DEF Agent, Paid, ITypes, TypeOK
<1>10. \A j : Paid(j)' = Paid(j)
  BY DEF MoveAgent, Paid
<1>11. births' = births /\ tick_count' = tick_count
  BY DEF MoveAgent
<1>12. ASSUME NEW j \in DOMAIN agents', agents'[j].alive
       PROVE  agents'[j].energy + Paid(j) <= StartingEnergy
  <2>1. CASE j = id
    <3>1. agents[id].energy + Paid(id) <= StartingEnergy
      BY <1>1, <1>8, <1>12, <2>1 DEF BarrenInv
    <3>2. StartingEnergy \in Int /\ agents'[id].energy \in Int
      BY <1>4, <1>8, <1>9, ConfigAssumption
    <3>. QED  BY <1>9, <2>1, <3>1, <3>2
  <2>2. CASE j # id
    BY <1>7, <1>12, <2>2 DEF BarrenInv
  <2>. QED  BY <2>1, <2>2
<1>13. food' = {} /\ mineral' \subseteq mineral
  BY <1>2 DEF BarrenInv
<1>. QED
  BY <1>10, <1>11, <1>12, <1>13 DEF BarrenInv

(* The metabolism takes at least one. *)
LEMMA FinishAgentBarren ==
  ASSUME ITypes, BarrenInv, NEW id \in todo, FinishAgent(id)
  PROVE  BarrenInv'
<1>1. id \in DOMAIN agents /\ agents[id] \in Agent /\ TraitsOf(id) \in TraitRecords
  BY TraitsOfType DEF ITypes, TypeOK
<1>2. /\ DOMAIN agents' = DOMAIN agents
      /\ \A j \in DOMAIN agents : j # id => agents'[j] = agents[j]
  BY DEF FinishAgent, ITypes, TypeOK
<1>3. /\ phase = "step" /\ phase' = "step" /\ todo' = todo \ {id}
      /\ UNCHANGED <<births, tick_count, food, mineral>>
  BY DEF FinishAgent, resources
<1>4. tick_count \in Nat /\ StartingEnergy \in Int
  BY ConfigAssumption DEF ITypes, TypeOK
<1>5. agents'[id].alive => agents'[id].energy + tick_count + 1 <= StartingEnergy
  <2>1. CASE agents[id].alive
    <3>1. agents'[id].energy = agents[id].energy - TraitsOf(id).metabolism
      BY <1>1, <2>1 DEF FinishAgent, Agent
    <3>2. agents[id].energy + tick_count <= StartingEnergy
      BY <1>1, <1>3, <2>1 DEF BarrenInv, Paid
    <3>3. agents[id].energy \in Int /\ TraitsOf(id).metabolism \in Nat \ {0}
      BY <1>1 DEF Agent, TraitRecords
    <3>. QED  BY <1>4, <3>1, <3>2, <3>3
  <2>2. CASE ~agents[id].alive
    BY <2>2 DEF FinishAgent
  <2>. QED  BY <2>1, <2>2
<1>6. ASSUME NEW j \in DOMAIN agents', agents'[j].alive
      PROVE  agents'[j].energy + (IF j \in todo' THEN tick_count ELSE tick_count + 1)
               <= StartingEnergy
  <2>1. CASE j = id
    <3>1. agents'[id].energy \in Int
      BY <1>1 DEF FinishAgent, Agent, TraitRecords
    <3>. QED  BY <1>3, <1>4, <1>5, <1>6, <2>1, <3>1
  <2>2. CASE j # id
    BY <1>2, <1>3, <1>6, <2>2 DEF BarrenInv, Paid
  <2>. QED  BY <2>1, <2>2
<1>. QED
  BY <1>3, <1>6 DEF BarrenInv, Paid

(* Energy is divided between parent and child. *)
LEMMA GiveBirthBarren ==
  ASSUME ITypes, BarrenInv, NEW id \in todo, GiveBirth(id)
  PROVE  BarrenInv'
<1>1. id \in DOMAIN agents /\ agents[id] \in Agent /\ TraitsOf(id) \in TraitRecords
  BY TraitsOfType DEF ITypes, TypeOK
<1>. DEFINE e == agents[id].energy
<1>2. e \in Nat /\ tick_count \in Nat /\ StartingEnergy \in Int /\ births \in Seq(Birth)
  <2>1. e \in Int
    BY <1>1 DEF Agent
  <2>2. e >= TraitsOf(id).reproduction_threshold
    BY DEF GiveBirth
  <2>3. TraitsOf(id).reproduction_threshold \in Nat
    BY <1>1 DEF TraitRecords
  <2>4. tick_count \in Nat /\ births \in Seq(Birth)
    BY DEF ITypes, TypeOK
  <2>5. StartingEnergy \in Int
    BY ConfigAssumption
  <2>. HIDE DEF e
  <2>. QED  BY <2>1, <2>2, <2>3, <2>4, <2>5
<1>3. e + tick_count + 1 <= StartingEnergy
  <2>1. Paid(id) = tick_count + 1 /\ agents[id].alive
    BY DEF GiveBirth, Paid
  <2>2. e + Paid(id) <= StartingEnergy
    BY <1>1, <2>1 DEF BarrenInv
  <2>. HIDE DEF e
  <2>. QED  BY <1>2, <2>1, <2>2
<1>4. PICK o \in Offsets, genome \in Genomes :
        births' = Append(births, BirthOf(id, o, genome))
  BY DEF GiveBirth
<1>5. BirthOf(id, o, genome).energy = e \div 2
  BY DEF BirthOf
<1>6. agents' = [agents EXCEPT ![id].energy = @ - e \div 2]
  BY DEF GiveBirth
<1>7. /\ DOMAIN agents' = DOMAIN agents
      /\ \A j \in DOMAIN agents : j # id => agents'[j] = agents[j]
      /\ agents'[id].energy = e - e \div 2
  BY <1>1, <1>6 DEF Agent
<1>8. /\ UNCHANGED <<tick_count, food, mineral, phase>> /\ phase = "reproduce"
  BY DEF GiveBirth, resources
<1>. HIDE DEF e
<1>9. e \div 2 \in Nat /\ e \div 2 <= e /\ e - e \div 2 <= e
  BY <1>2
<1>10. ASSUME NEW j \in DOMAIN agents', agents'[j].alive
       PROVE  agents'[j].energy + (tick_count + 1) <= StartingEnergy
  <2>1. CASE j = id
    BY <1>2, <1>3, <1>7, <1>9, <2>1
  <2>2. CASE j # id
    BY <1>7, <1>8, <1>10, <2>2 DEF BarrenInv, Paid
  <2>. QED  BY <2>1, <2>2
<1>11. ASSUME NEW i \in DOMAIN births'
       PROVE  births'[i].energy + tick_count + 1 <= StartingEnergy
  <2>1. CASE i \in DOMAIN births
    BY <1>2, <1>4, <2>1 DEF BarrenInv
  <2>2. CASE i \notin DOMAIN births
    <3>1. births'[i] = BirthOf(id, o, genome)
      BY <1>2, <1>4, <2>2
    <3>. QED  BY <1>2, <1>3, <1>5, <1>9, <3>1
  <2>. QED  BY <2>1, <2>2
<1>. QED
  BY <1>8, <1>10, <1>11 DEF BarrenInv, Paid

(* A child has the energy of its birth. *)
LEMMA SpawnChildBarren ==
  ASSUME ITypes, BarrenInv, SpawnChild
  PROVE  BarrenInv'
<1>1. births \in Seq(Birth) /\ births # << >> /\ next_id \notin DOMAIN agents
  BY DEF SpawnChild, ITypes, TypeOK, IdsInv
<1>2. /\ DOMAIN agents' = DOMAIN agents \union {next_id}
      /\ agents'[next_id].energy = Head(births).energy
      /\ \A j \in DOMAIN agents : j # next_id => agents'[j] = agents[j]
      /\ births' = Tail(births)
  BY DEF SpawnChild, NewAgent
<1>3. UNCHANGED <<tick_count, food, mineral, phase>> /\ phase = "reproduce"
  BY DEF SpawnChild, resources
<1>4. Head(births).energy + tick_count + 1 <= StartingEnergy
  BY <1>1 DEF BarrenInv
<1>5. Head(births).energy \in Int /\ tick_count \in Int
  <2>1. Head(births) \in Birth
    BY <1>1
  <2>. QED  BY <2>1 DEF Birth, ITypes, TypeOK
<1>6. ASSUME NEW j \in DOMAIN agents', agents'[j].alive
      PROVE  agents'[j].energy + (tick_count + 1) <= StartingEnergy
  <2>1. CASE j = next_id
    BY <1>2, <1>4, <1>5, <2>1, ConfigAssumption
  <2>2. CASE j # next_id
    BY <1>2, <1>3, <1>6, <2>2 DEF BarrenInv, Paid
  <2>. QED  BY <2>1, <2>2
<1>7. \A i \in DOMAIN births' : births'[i].energy + tick_count + 1 <= StartingEnergy
  BY <1>1, <1>2 DEF BarrenInv
<1>. QED
  BY <1>3, <1>6, <1>7 DEF BarrenInv, Paid

(* Every step of a tick of a barren world keeps BarrenInv. *)
LEMMA NextBarren == Barren /\ ITypes /\ BarrenInv /\ [Next]_vars => BarrenInv'
<1>. SUFFICES ASSUME Barren, ITypes, BarrenInv, [Next]_vars PROVE BarrenInv'
  OBVIOUS
<1>1. CASE StartTick
  BY <1>1 DEF StartTick, BarrenInv, Paid, resources
<1>2. ASSUME NEW id \in todo, MoveAgent(id) PROVE BarrenInv'
  BY <1>2, MoveAgentBarren
<1>3. ASSUME NEW id \in todo, FinishAgent(id) PROVE BarrenInv'
  BY <1>3, FinishAgentBarren
<1>4. ASSUME NEW id \in todo, SkipReproduction(id) PROVE BarrenInv'
  BY <1>4 DEF SkipReproduction, BarrenInv, Paid, resources
<1>5. ASSUME NEW id \in todo, GiveBirth(id) PROVE BarrenInv'
  BY <1>5, GiveBirthBarren
<1>6. CASE EndStepping
  BY <1>6 DEF EndStepping, BarrenInv, Paid, resources
<1>7. CASE SpawnChild
  BY <1>7, SpawnChildBarren
<1>8. CASE RespawnResources
  <2>1. ASSUME NEW R \in SUBSET Cells, NEW S \in Regrow(R) PROVE S = R
    <3>1. PICK cells \in SUBSET (Cells \ R) : S = R \union cells /\ Cardinality(cells) <= 0
      BY DEF Regrow, Barren
    <3>3. IsFiniteSet(cells) /\ Cardinality(cells) \in Nat
      BY <3>1, CellsFinite, FS_Subset, FS_CardinalityType
    <3>4. cells = {}
      BY <3>1, <3>3, FS_EmptySet
    <3>. QED  BY <3>1, <3>4
  <2>2. food' = food /\ mineral' = mineral
    BY <1>8, <2>1 DEF RespawnResources, ITypes, TypeOK
  <2>. QED  BY <1>8, <2>2 DEF RespawnResources, BarrenInv, Paid
<1>9. CASE ReapDead
  <2>1. births = << >> /\ births' = << >>
    BY <1>9 DEF ReapDead, ITypes, PhaseInv
  <2>. QED  BY <1>9, <2>1 DEF ReapDead, BarrenInv, Paid, resources
<1>10. CASE UNCHANGED vars
  BY <1>10 DEF vars, BarrenInv, Paid
<1>. QED
  BY <1>1, <1>2, <1>3, <1>4, <1>5, <1>6, <1>7, <1>8, <1>9, <1>10 DEF Next

(* "No food means all agents die within starting_energy ticks", whatever   *)
(* the terrain, the minerals on its rocks, the genomes and the births.     *)
THEOREM BarrenWorldsStarve == Spec => []StarvationBound
<1>1. ITypes /\ ReservesInv /\ (Barren => BarrenInv) => StarvationBound
  <2>. SUFFICES ASSUME ITypes, ReservesInv, Barren => BarrenInv,
                       Barren, phase = "idle", tick_count >= StartingEnergy,
                       NEW id \in DOMAIN agents
                PROVE  FALSE
    BY DEF StarvationBound
  <2>1. agents[id].alive /\ agents[id].energy > 0
    BY DEF ReservesInv
  <2>2. agents[id].energy + tick_count <= StartingEnergy
    BY <2>1 DEF BarrenInv, Paid
  <2>3. agents[id].energy \in Int /\ tick_count \in Int /\ StartingEnergy \in Int
    BY ConfigAssumption DEF ITypes, TypeOK, Agent
  <2>. QED  BY <2>1, <2>2, <2>3
<1>2. Init => (Barren => BarrenInv)
  BY InitBarren
<1>3. ITypes /\ (Barren => BarrenInv) /\ [Next]_vars => (Barren => BarrenInv)'
  <2>1. Barren' <=> Barren
    BY DEF Barren
  <2>. QED  BY <2>1, NextBarren
<1>. QED
  BY <1>1, <1>2, <1>3, AlwaysTypes, InitReserves, NextReserves, PTL DEF Spec

-----------------------------------------------------------------------------
(* The encoding of grids.                                                  *)

\* A byte of the packed grid has the bit of each of its eight cells.
LEMMA BitsOfByte ==
  ASSUME NEW a \in 0 .. 1, NEW b \in 0 .. 1, NEW c \in 0 .. 1, NEW d \in 0 .. 1,
         NEW e \in 0 .. 1, NEW f \in 0 .. 1, NEW g \in 0 .. 1, NEW h \in 0 .. 1
  PROVE  LET byte == a * 128 + b * 64 + c * 32 + d * 16 + e * 8 + f * 4 + g * 2 + h IN
         /\ byte \in 0 .. 255
         /\ (byte \div 128) % 2 = a /\ (byte \div 64) % 2 = b
         /\ (byte \div 32) % 2 = c /\ (byte \div 16) % 2 = d
         /\ (byte \div 8) % 2 = e /\ (byte \div 4) % 2 = f
         /\ (byte \div 2) % 2 = g /\ (byte \div 1) % 2 = h
OBVIOUS

\* The places of the bits in a byte.
LEMMA Powers ==
  /\ 2 ^ 7 = 128 /\ 2 ^ 6 = 64 /\ 2 ^ 5 = 32 /\ 2 ^ 4 = 16
  /\ 2 ^ 3 = 8 /\ 2 ^ 2 = 4 /\ 2 ^ 1 = 2 /\ 2 ^ 0 = 1
OBVIOUS

\* The bit a cell has, at its place of the byte.
PackedBit(cells, i) == IF i < Len(cells) /\ cells[i + 1] # 0 THEN BitOf(i) ELSE 0

LEMMA Places ==
  ASSUME NEW j
  PROVE  /\ j = 0 => 2 ^ (7 - j) = 128
         /\ j = 1 => 2 ^ (7 - j) = 64
         /\ j = 2 => 2 ^ (7 - j) = 32
         /\ j = 3 => 2 ^ (7 - j) = 16
         /\ j = 4 => 2 ^ (7 - j) = 8
         /\ j = 5 => 2 ^ (7 - j) = 4
         /\ j = 6 => 2 ^ (7 - j) = 2
         /\ j = 7 => 2 ^ (7 - j) = 1
<1>1. /\ j = 0 => 7 - j = 7
      /\ j = 1 => 7 - j = 6
      /\ j = 2 => 7 - j = 5
      /\ j = 3 => 7 - j = 4
      /\ j = 4 => 7 - j = 3
      /\ j = 5 => 7 - j = 2
      /\ j = 6 => 7 - j = 1
      /\ j = 7 => 7 - j = 0
  OBVIOUS
<1>. QED  BY <1>1, Powers, ZenonT(30)

\* The bit of cell i of total, 0 for the cells that only fill up the last byte.
On(cells, total, i) == IF i < total /\ cells[i + 1] # 0 THEN 1 ELSE 0

\* A packed byte is one, and holds its eight cells in order.
LEMMA PackedBytes ==
  ASSUME NEW total \in Nat, NEW cells \in [1 .. total -> 0 .. 1]
  PROVE  /\ pack_bits(cells) \in [1 .. (total + 7) \div 8 -> 0 .. 255]
         /\ \A q \in 0 .. ((total + 7) \div 8) - 1, j \in 0 .. 7 :
              (pack_bits(cells)[q + 1] \div 2 ^ (7 - j)) % 2 = On(cells, total, 8 * q + j)
<1>. DEFINE packed == pack_bits(cells)
            bytes == (total + 7) \div 8
            on(i) == On(cells, total, i)
<1>1. Len(cells) = total
  OBVIOUS
<1>2. bytes \in Nat
  OBVIOUS
<1>. HIDE DEF bytes
<1>3. /\ packed = [k \in 1 .. bytes |-> packed[k]]
      /\ \A k \in 1 .. bytes :
           packed[k] = PackedBit(cells, 8 * (k - 1)) + PackedBit(cells, 8 * (k - 1) + 1)
                         + PackedBit(cells, 8 * (k - 1) + 2) + PackedBit(cells, 8 * (k - 1) + 3)
                         + PackedBit(cells, 8 * (k - 1) + 4) + PackedBit(cells, 8 * (k - 1) + 5)
                         + PackedBit(cells, 8 * (k - 1) + 6) + PackedBit(cells, 8 * (k - 1) + 7)
  BY <1>1, <1>2 DEF pack_bits, NBytes, bytes, PackedBit
<1>. HIDE DEF packed
<1>4. ASSUME NEW q \in 0 .. bytes - 1, NEW j \in 0 .. 7
      PROVE  packed[q + 1] \in 0 .. 255 /\ (packed[q + 1] \div 2 ^ (7 - j)) % 2 = on(8 * q + j)
  <2>1. q \in Nat /\ q + 1 \in 1 .. bytes /\ (q + 1) - 1 = q
    BY <1>2
  <2>2. \A m \in 0 .. 7 : /\ on(8 * q + m) \in 0 .. 1
                          /\ PackedBit(cells, 8 * q + m) = on(8 * q + m) * 2 ^ (7 - m)
    <3>1. ASSUME NEW m \in 0 .. 7
          PROVE  PackedBit(cells, 8 * q + m) = on(8 * q + m) * 2 ^ (7 - m)
      <4>1. PackedBit(cells, 8 * q + m) = IF 8 * q + m < total /\ cells[8 * q + m + 1] # 0
                                      THEN 2 ^ (7 - m) ELSE 0
        <5>1. total = Len(cells)
          BY <1>1
        <5>2. (8 * q + m) % 8 = m
          BY <2>1
        <5>. QED  BY <5>1, <5>2 DEF PackedBit, BitOf
      <4>2. 2 ^ (7 - m) \in Int
        <5>1. 7 - m \in {0, 1, 2, 3, 4, 5, 6, 7}
          OBVIOUS
        <5>. QED  BY <5>1, Powers
      <4>. DEFINE p == 2 ^ (7 - m)
                  set == 8 * q + m < total /\ cells[8 * q + m + 1] # 0
      <4>3. PackedBit(cells, 8 * q + m) = IF set THEN p ELSE 0
        BY <4>1
      <4>4. on(8 * q + m) = IF set THEN 1 ELSE 0
        BY DEF On
      <4>5. p \in Int
        BY <4>2
      <4>. HIDE DEF p, set, on
      <4>6. PackedBit(cells, 8 * q + m) = on(8 * q + m) * p
        BY <4>3, <4>4, <4>5
      <4>. QED  BY <4>6 DEF p
    <3>2. \A m \in 0 .. 7 : on(8 * q + m) \in 0 .. 1
      BY DEF On
    <3>. QED  BY <3>1, <3>2
  <2>. HIDE DEF on
  <2>4. packed[q + 1] = on(8 * q) * 128 + on(8 * q + 1) * 64 + on(8 * q + 2) * 32
                          + on(8 * q + 3) * 16 + on(8 * q + 4) * 8 + on(8 * q + 5) * 4
                          + on(8 * q + 6) * 2 + on(8 * q + 7)
    <3>1. /\ PackedBit(cells, 8 * q) = on(8 * q) * 128
          /\ PackedBit(cells, 8 * q + 1) = on(8 * q + 1) * 64
          /\ PackedBit(cells, 8 * q + 2) = on(8 * q + 2) * 32
          /\ PackedBit(cells, 8 * q + 3) = on(8 * q + 3) * 16
          /\ PackedBit(cells, 8 * q + 4) = on(8 * q + 4) * 8
          /\ PackedBit(cells, 8 * q + 5) = on(8 * q + 5) * 4
          /\ PackedBit(cells, 8 * q + 6) = on(8 * q + 6) * 2
          /\ PackedBit(cells, 8 * q + 7) = on(8 * q + 7)
      <4>1. 8 * q + 0 = 8 * q
        BY <2>1
      <4>. QED  BY <2>2, <4>1, Powers
    <3>. QED  BY <1>3, <2>1, <3>1
  <2>5. /\ on(8 * q) \in 0 .. 1 /\ on(8 * q + 1) \in 0 .. 1 /\ on(8 * q + 2) \in 0 .. 1
        /\ on(8 * q + 3) \in 0 .. 1 /\ on(8 * q + 4) \in 0 .. 1 /\ on(8 * q + 5) \in 0 .. 1
        /\ on(8 * q + 6) \in 0 .. 1 /\ on(8 * q + 7) \in 0 .. 1
    <3>1. 8 * q + 0 = 8 * q
      BY <2>1
    <3>. QED  BY <2>2, <3>1
  <2>6. packed[q + 1] \in 0 .. 255 /\ (packed[q + 1] \div 2 ^ (7 - j)) % 2 = on(8 * q + j)
    <3>. DEFINE a == on(8 * q)
                b == on(8 * q + 1)
                c == on(8 * q + 2)
                d == on(8 * q + 3)
                e == on(8 * q + 4)
                f == on(8 * q + 5)
                g == on(8 * q + 6)
                h == on(8 * q + 7)
                byte == packed[q + 1]
    <3>0. byte = a * 128 + b * 64 + c * 32 + d * 16 + e * 8 + f * 4 + g * 2 + h
      BY <2>4
    <3>00. /\ a \in 0 .. 1 /\ b \in 0 .. 1 /\ c \in 0 .. 1 /\ d \in 0 .. 1
           /\ e \in 0 .. 1 /\ f \in 0 .. 1 /\ g \in 0 .. 1 /\ h \in 0 .. 1
      BY <2>5
    <3>. HIDE DEF a, b, c, d, e, f, g, h, byte
    <3>5. byte \in 0 .. 255
      BY <3>0, <3>00, BitsOfByte
    <3>1. /\ (byte \div 128) % 2 = a /\ (byte \div 64) % 2 = b
          /\ (byte \div 32) % 2 = c /\ (byte \div 16) % 2 = d
          /\ (byte \div 8) % 2 = e /\ (byte \div 4) % 2 = f
          /\ (byte \div 2) % 2 = g /\ (byte \div 1) % 2 = h
      BY <3>0, <3>00, BitsOfByte
    <3>. DEFINE p == 2 ^ (7 - j)
                v == on(8 * q + j)
    <3>2. /\ j = 0 => p = 128
          /\ j = 1 => p = 64
          /\ j = 2 => p = 32
          /\ j = 3 => p = 16
          /\ j = 4 => p = 8
          /\ j = 5 => p = 4
          /\ j = 6 => p = 2
          /\ j = 7 => p = 1
      BY Places, Zenon
    <3>3. /\ j = 0 => v = a
          /\ j = 1 => v = b
          /\ j = 2 => v = c
          /\ j = 3 => v = d
          /\ j = 4 => v = e
          /\ j = 5 => v = f
          /\ j = 6 => v = g
          /\ j = 7 => v = h
      BY <2>1 DEF a, b, c, d, e, f, g, h
    <3>. HIDE DEF p, v
    <3>4. j \in {0, 1, 2, 3, 4, 5, 6, 7}
      BY <2>1
    <3>. DEFINE OneOf(x, y) ==
                  \/ x = 128 /\ y = a
                  \/ x = 64 /\ y = b
                  \/ x = 32 /\ y = c
                  \/ x = 16 /\ y = d
                  \/ x = 8 /\ y = e
                  \/ x = 4 /\ y = f
                  \/ x = 2 /\ y = g
                  \/ x = 1 /\ y = h
    <3>6. ASSUME NEW x, NEW y, OneOf(x, y)
          PROVE  (byte \div x) % 2 = y
      <4>1. CASE x = 128 /\ y = a
        BY <3>1, <4>1
      <4>2. CASE x = 64 /\ y = b
        BY <3>1, <4>2
      <4>3. CASE x = 32 /\ y = c
        BY <3>1, <4>3
      <4>4. CASE x = 16 /\ y = d
        BY <3>1, <4>4
      <4>5. CASE x = 8 /\ y = e
        BY <3>1, <4>5
      <4>6. CASE x = 4 /\ y = f
        BY <3>1, <4>6
      <4>7. CASE x = 2 /\ y = g
        BY <3>1, <4>7
      <4>8. CASE x = 1 /\ y = h
        BY <3>1, <4>8
      <4>. QED  BY <3>6, <4>1, <4>2, <4>3, <4>4, <4>5, <4>6, <4>7, <4>8
    <3>7. OneOf(p, v)
      BY <3>2, <3>3, <3>4
    <3>. HIDE DEF OneOf
    <3>8. (byte \div p) % 2 = v
      BY <3>6, <3>7, Zenon
    <3>. QED  BY <3>5, <3>8 DEF byte, p, v
  <2>. QED  BY <2>6
<1>5. \A k \in 1 .. bytes : packed[k] \in 0 .. 255
  <2>1. ASSUME NEW k \in 1 .. bytes PROVE packed[k] \in 0 .. 255
    <3>1. k - 1 \in 0 .. bytes - 1 /\ (k - 1) + 1 = k /\ 0 \in 0 .. 7
      BY <1>2
    <3>2. packed[(k - 1) + 1] \in 0 .. 255
      BY <1>4, <3>1
    <3>. QED  BY <3>1, <3>2, Zenon
  <2>. QED  BY <2>1
<1>6. packed \in [1 .. bytes -> 0 .. 255]
  BY <1>3, <1>5, Zenon
<1>. QED  BY <1>4, <1>6 DEF bytes, packed

\* Unpacking gives the cells back.
LEMMA Unpacks ==
  ASSUME NEW total \in Nat, NEW cells \in [1 .. total -> 0 .. 1]
  PROVE  unpack_bits(pack_bits(cells), total) = cells
<1>. DEFINE packed == pack_bits(cells)
            bytes == (total + 7) \div 8
            un == unpack_bits(packed, total)
<1>1. /\ bytes \in Nat /\ packed \in [1 .. bytes -> 0 .. 255]
      /\ \A q \in 0 .. bytes - 1, j \in 0 .. 7 :
           (packed[q + 1] \div 2 ^ (7 - j)) % 2 = On(cells, total, 8 * q + j)
  <2>1. bytes \in Nat
    OBVIOUS
  <2>. QED  BY <2>1, PackedBytes, Zenon
<1>. HIDE DEF packed
<1>2. /\ un = [i \in 1 .. total |-> un[i]]
      /\ \A i \in 1 .. total :
           un[i] = IF (i - 1) \div 8 < Len(packed)
                     THEN (packed[(i - 1) \div 8 + 1] \div 2 ^ (7 - ((i - 1) % 8))) % 2
                     ELSE 0
  BY DEF unpack_bits
<1>. HIDE DEF un
<1>3. ASSUME NEW i \in 1 .. total
      PROVE  un[i] = cells[i]
  <2>. DEFINE q == (i - 1) \div 8
              j == (i - 1) % 8
  <2>1. /\ q \in 0 .. bytes - 1 /\ j \in 0 .. 7 /\ 8 * q + j = i - 1 /\ q < bytes
    OBVIOUS
  <2>2. Len(packed) = bytes
    BY <1>1
  <2>3. un[i] = IF q < Len(packed) THEN (packed[q + 1] \div 2 ^ (7 - j)) % 2 ELSE 0
    BY <1>2, Zenon
  <2>. HIDE DEF q, j, bytes
  <2>4. un[i] = On(cells, total, 8 * q + j)
    BY <1>1, <2>1, <2>2, <2>3, Zenon
  <2>5. On(cells, total, i - 1) = cells[i]
    BY DEF On
  <2>. QED  BY <2>1, <2>4, <2>5, Zenon
<1>4. cells = [i \in 1 .. total |-> cells[i]]
  OBVIOUS
<1>5. un = cells
  BY <1>2, <1>3, <1>4, Zenon
<1>. QED  BY <1>5 DEF un, packed

IsGroup(t) == t \in Nat /\ t < 16777216

\* The three bytes of a group are those of its number.
LEMMA Octets ==
  ASSUME NEW a \in 0 .. 255, NEW b \in 0 .. 255, NEW c \in 0 .. 255
  PROVE  BytesIn(OfBytes(a, b, c)) = <<a, b, c>> /\ IsGroup(OfBytes(a, b, c))
<1>. DEFINE t == OfBytes(a, b, c)
<1>1. /\ a \in Nat /\ b \in Nat /\ c \in Nat /\ a < 256 /\ b < 256 /\ c < 256
  BY SMT
<1>2. /\ t \in Nat /\ t < 16777216
      /\ (t \div 65536) % 256 = a /\ (t \div 256) % 256 = b /\ t % 256 = c
  BY <1>1, SMT DEF OfBytes
<1>. HIDE DEF t
<1>3. IsGroup(t)
  BY <1>2, SMT DEF IsGroup
<1>4. BytesIn(t) = <<a, b, c>>
  BY <1>2, SMT DEF BytesIn
<1>. QED  BY <1>3, <1>4, Zenon DEF t

LEMMA Quarters ==
  ASSUME NEW g \in Nat, NEW k \in Nat, k <= 3
  PROVE  (4 * g + k) \div 4 = g /\ (4 * g + k) % 4 = k
OBVIOUS

\* A group as its characters: the quotients u, v and w of t, and the four values.
InSextets(t, u, v, w, x, y, z, c) ==
  /\ t \in Nat /\ t < 16777216
  /\ u = t \div 64 /\ v = t \div 4096 /\ w = t \div 262144
  /\ x = t % 64 /\ y = u % 64 /\ z = v % 64 /\ c = w % 64

\* Four characters hold a group.
LEMMA Sextets ==
  ASSUME NEW t, NEW u, NEW v, NEW w, NEW x, NEW y, NEW z, NEW c,
         InSextets(t, u, v, w, x, y, z, c)
  PROVE  /\ x \in 0 .. 63 /\ y \in 0 .. 63 /\ z \in 0 .. 63 /\ c \in 0 .. 63
         /\ c * 262144 + z * 4096 + y * 64 + x = t
<1>0. t \in Nat /\ u = t \div 64 /\ x = t % 64 /\ y = u % 64 /\ z = v % 64 /\ c = w % 64
  BY SMT DEF InSextets
<1>1. u \in Nat /\ v = u \div 64 /\ v \in Nat /\ w = v \div 64 /\ w \in 0 .. 63
  BY SMT DEF InSextets
<1>2. c = w
  BY <1>0, <1>1, SMT
<1>3. t = 64 * u + x /\ x \in 0 .. 63
  BY <1>0, SMT
<1>4. u = 64 * v + y /\ y \in 0 .. 63
  BY <1>0, <1>1, SMT
<1>5. v = 64 * w + z /\ z \in 0 .. 63
  BY <1>0, <1>1, SMT
<1>6. w * 262144 + z * 4096 + y * 64 + x = t
  <2>1. \A t1, u1, v1, w1, x1, y1, z1 \in Int :
          t1 = 64 * u1 + x1 /\ u1 = 64 * v1 + y1 /\ v1 = 64 * w1 + z1
            => w1 * 262144 + z1 * 4096 + y1 * 64 + x1 = t1
    BY SMT
  <2>. QED  BY <1>0, <1>1, <1>3, <1>4, <1>5, <2>1, SMT
<1>. QED  BY <1>1, <1>2, <1>3, <1>4, <1>5, <1>6, SMT

\* The four characters of a group make it up.
LEMMA CharsMakeGroup ==
  ASSUME NEW t, IsGroup(t)
  PROVE  /\ OfChars(CharsIn(t)[1], CharsIn(t)[2], CharsIn(t)[3], CharsIn(t)[4]) = t
         /\ \A k \in 1 .. 4 : CharsIn(t)[k] \in 0 .. 63
<1>. DEFINE u == t \div 64
            v == t \div 4096
            w == t \div 262144
            x == t % 64
            y == u % 64
            z == v % 64
            c == w % 64
<1>1. CharsIn(t) = <<c, z, y, x>>
  BY SMT DEF CharsIn
<1>2. InSextets(t, u, v, w, x, y, z, c)
  BY SMT DEF InSextets, IsGroup
<1>. HIDE DEF u, v, w, x, y, z, c
<1>3. /\ x \in 0 .. 63 /\ y \in 0 .. 63 /\ z \in 0 .. 63 /\ c \in 0 .. 63
      /\ c * 262144 + z * 4096 + y * 64 + x = t
  BY <1>2, Sextets, SMT
<1>4. OfChars(c, z, y, x) = t
  BY <1>3, SMT DEF OfChars
<1>5. /\ CharsIn(t)[1] = c /\ CharsIn(t)[2] = z /\ CharsIn(t)[3] = y /\ CharsIn(t)[4] = x
  BY <1>1, SMT
<1>6. \A k \in 1 .. 4 : CharsIn(t)[k] \in 0 .. 63
  <2>1. \A k \in 1 .. 4 : k = 1 \/ k = 2 \/ k = 3 \/ k = 4
    BY SMT
  <2>2. /\ CharsIn(t)[1] \in 0 .. 63 /\ CharsIn(t)[2] \in 0 .. 63
        /\ CharsIn(t)[3] \in 0 .. 63 /\ CharsIn(t)[4] \in 0 .. 63
    BY <1>3, <1>5, SMT
  <2>. QED  BY <2>1, <2>2, SMT
<1>. QED  BY <1>4, <1>5, <1>6, SMT

\* Of a group that lacks bytes, the characters that are left out are zero.
LEMMA ShortGroups ==
  ASSUME NEW a \in 0 .. 255, NEW b \in 0 .. 255
  PROVE  /\ CharsIn(OfBytes(a, 0, 0))[3] = 0 /\ CharsIn(OfBytes(a, 0, 0))[4] = 0
         /\ CharsIn(OfBytes(a, b, 0))[4] = 0
<1>. DEFINE s == a * 65536
            t == a * 65536 + b * 256
<1>1. a \in Nat /\ b \in Nat
  BY SMT
<1>2. s \in Nat /\ (s \div 64) % 64 = 0 /\ s % 64 = 0 /\ t \in Nat /\ t % 64 = 0
  BY <1>1, SMT
<1>3. OfBytes(a, 0, 0) = s /\ OfBytes(a, b, 0) = t
  BY <1>1, SMT DEF OfBytes
<1>. HIDE DEF s, t
<1>4. CharsIn(s)[3] = 0 /\ CharsIn(s)[4] = 0 /\ CharsIn(t)[4] = 0
  BY <1>2, SMT DEF CharsIn
<1>. QED  BY <1>3, <1>4, SMT

LEMMA Base64Arrives ==
  ASSUME NEW n \in Nat, NEW bytes \in [1 .. n -> 0 .. 255]
  PROVE  base64_decode(base64_encode(bytes)) = bytes
<1>. DEFINE chars == base64_encode(bytes)
            groups == (n + 2) \div 3
            missing == 3 * groups - n
            size == 4 * groups
            isPad(i) == IsPad(n - 3 * ((i - 1) \div 4), (i - 1) % 4)
            code(g) == CharsIn(Triple(bytes, g))
            Value(i) == IF chars[i] = Pad THEN 0 ELSE chars[i]
            Group(g) == OfChars(Value(4 * g + 1), Value(4 * g + 2), Value(4 * g + 3), Value(4 * g + 4))
            pads == {i \in DOMAIN chars : chars[i] = Pad}
<1>1. /\ Len(bytes) = n /\ DOMAIN bytes = 1 .. n
      /\ groups \in Nat /\ size \in Nat /\ missing \in 0 .. 2 /\ missing <= size
  OBVIOUS
<1>. HIDE DEF groups
<1>2. /\ DOMAIN chars = 1 .. size /\ Len(chars) = size
      /\ \A i \in 1 .. size :
           chars[i] = IF isPad(i) THEN Pad ELSE code((i - 1) \div 4)[((i - 1) % 4) + 1]
  BY <1>1 DEF base64_encode, groups
<1>. HIDE DEF chars, isPad, code, size
<1>3. ASSUME NEW g \in Nat
      PROVE  /\ IsGroup(Triple(bytes, g)) /\ \A k \in 1 .. 4 : code(g)[k] \in 0 .. 63
             /\ OfChars(code(g)[1], code(g)[2], code(g)[3], code(g)[4]) = Triple(bytes, g)
             /\ BytesIn(Triple(bytes, g))
                  = <<Byte(bytes, 3 * g + 1), Byte(bytes, 3 * g + 2), Byte(bytes, 3 * g + 3)>>
  <2>1. /\ Byte(bytes, 3 * g + 1) \in 0 .. 255 /\ Byte(bytes, 3 * g + 2) \in 0 .. 255
        /\ Byte(bytes, 3 * g + 3) \in 0 .. 255
    BY <1>1 DEF Byte
  <2>2. /\ IsGroup(Triple(bytes, g))
        /\ BytesIn(Triple(bytes, g))
             = <<Byte(bytes, 3 * g + 1), Byte(bytes, 3 * g + 2), Byte(bytes, 3 * g + 3)>>
    BY <2>1, Octets, Zenon DEF Triple
  <2>. QED  BY <2>2, CharsMakeGroup, Zenon DEF code
\* The value of the k-th character of a group.
<1>4. ASSUME NEW g \in 0 .. groups - 1, NEW k \in 0 .. 3
      PROVE  /\ 4 * g + k + 1 \in 1 .. size
             /\ chars[4 * g + k + 1] = IF k > n - 3 * g THEN Pad ELSE code(g)[k + 1]
  <2>. DEFINE i == 4 * g + k + 1
  <2>1. /\ i \in 1 .. size /\ (i - 1) \div 4 = g /\ (i - 1) % 4 = k
    <3>1. g \in Nat /\ g + 1 <= groups /\ k \in Nat /\ k <= 3 /\ i - 1 = 4 * g + k /\ i \in Nat
      BY <1>1, SMT
    <3>2. (4 * g + k) \div 4 = g /\ (4 * g + k) % 4 = k
      BY <3>1, Quarters, Zenon
    <3>3. i \in 1 .. size
      BY <1>1, <3>1, SMT DEF size
    <3>. HIDE DEF i
    <3>. QED  BY <3>1, <3>2, <3>3, Zenon
  <2>. HIDE DEF i
  <2>2. isPad(i) <=> k > n - 3 * g
    BY <2>1, SMT DEF isPad, IsPad
  <2>3. chars[i] = IF isPad(i) THEN Pad ELSE code((i - 1) \div 4)[((i - 1) % 4) + 1]
    BY <1>2, <2>1, SMT
  <2>4. chars[i] = IF k > n - 3 * g THEN Pad ELSE code(g)[k + 1]
    BY <2>1, <2>2, <2>3, Zenon
  <2>. QED  BY <2>1, <2>4 DEF i
<1>5. ASSUME NEW g \in 0 .. groups - 1
      PROVE  Group(g) = Triple(bytes, g)
  <2>. DEFINE rest == n - 3 * g
              a == Byte(bytes, 3 * g + 1)
              b == Byte(bytes, 3 * g + 2)
  <2>1. /\ g \in Nat /\ rest \in Int /\ rest >= 1
        /\ rest = 1 => Byte(bytes, 3 * g + 2) = 0
        /\ rest <= 2 => Byte(bytes, 3 * g + 3) = 0
        /\ a \in 0 .. 255 /\ b \in 0 .. 255
    BY <1>1 DEF Byte, groups
  <2>2. /\ rest = 1 => code(g)[3] = 0
        /\ rest <= 2 => code(g)[4] = 0
    <3>1. rest = 1 => rest <= 2
      BY SMT
    <3>2. ASSUME rest = 1 PROVE code(g)[3] = 0 /\ code(g)[4] = 0
      <4>1. Triple(bytes, g) = OfBytes(a, 0, 0)
        BY <2>1, <3>1, <3>2, Zenon DEF Triple
      <4>2. CharsIn(OfBytes(a, 0, 0))[3] = 0 /\ CharsIn(OfBytes(a, 0, 0))[4] = 0
        BY <2>1, ShortGroups, Zenon
      <4>. QED  BY <4>1, <4>2, Zenon DEF code
    <3>3. ASSUME rest <= 2 PROVE code(g)[4] = 0
      <4>1. Triple(bytes, g) = OfBytes(a, b, 0)
        BY <2>1, <3>3, Zenon DEF Triple
      <4>2. CharsIn(OfBytes(a, b, 0))[4] = 0
        BY <2>1, ShortGroups, Zenon
      <4>. QED  BY <4>1, <4>2, Zenon DEF code
    <3>. QED  BY <3>1, <3>2, <3>3
  <2>3. /\ chars[4 * g + 1] = code(g)[1] /\ chars[4 * g + 2] = code(g)[2]
        /\ chars[4 * g + 3] = IF rest = 1 THEN Pad ELSE code(g)[3]
        /\ chars[4 * g + 4] = IF rest <= 2 THEN Pad ELSE code(g)[4]
    <3>1. /\ 4 * g + 0 + 1 = 4 * g + 1 /\ 4 * g + 1 + 1 = 4 * g + 2
          /\ 4 * g + 2 + 1 = 4 * g + 3 /\ 4 * g + 3 + 1 = 4 * g + 4
          /\ ~(0 > rest) /\ ~(1 > rest)
          /\ 2 > rest <=> rest = 1
          /\ 3 > rest <=> rest <= 2
      BY <2>1
    <3>. QED  BY <1>4, <3>1
  <2>. HIDE DEF rest
  <2>4. /\ code(g)[1] # Pad /\ code(g)[2] # Pad /\ code(g)[3] # Pad /\ code(g)[4] # Pad
    <3>1. \A v \in 0 .. 63 : v # Pad
      BY SMT DEF Pad
    <3>2. 1 \in 1 .. 4 /\ 2 \in 1 .. 4 /\ 3 \in 1 .. 4 /\ 4 \in 1 .. 4
      BY SMT
    <3>. QED  BY <1>3, <2>1, <3>1, <3>2, Zenon
  <2>5. /\ Value(4 * g + 1) = code(g)[1] /\ Value(4 * g + 2) = code(g)[2]
        /\ Value(4 * g + 3) = code(g)[3] /\ Value(4 * g + 4) = code(g)[4]
    BY <2>2, <2>3, <2>4, Zenon
  <2>. HIDE DEF Value
  <2>. QED  BY <1>3, <2>1, <2>5, Zenon
<1>6. pads = size - missing + 1 .. size
  <2>1. ASSUME NEW i \in 1 .. size
        PROVE  chars[i] = Pad <=> i > size - missing
    <3>. DEFINE g == (i - 1) \div 4
                k == (i - 1) % 4
    <3>1. g \in 0 .. groups - 1 /\ k \in 0 .. 3 /\ i = 4 * g + k + 1
      BY <1>1, SMT DEF size
    <3>. HIDE DEF g, k
    <3>2. chars[i] = IF k > n - 3 * g THEN Pad ELSE code(g)[k + 1]
      <4>1. chars[4 * g + k + 1] = IF k > n - 3 * g THEN Pad ELSE code(g)[k + 1]
        BY <1>4, <3>1
      <4>. QED  BY <3>1, <4>1, Zenon
    <3>3. code(g)[k + 1] # Pad
      <4>1. g \in Nat /\ k + 1 \in 1 .. 4
        BY <1>1, <3>1
      <4>2. code(g)[k + 1] \in 0 .. 63
        BY <1>3, <4>1, Zenon
      <4>3. \A v \in 0 .. 63 : v # Pad
        BY SMT DEF Pad
      <4>. QED  BY <4>2, <4>3, Zenon
    <3>4. k > n - 3 * g <=> i > size - missing
      BY <1>1, <3>1, SMT DEF size
    <3>. QED  BY <3>2, <3>3, <3>4, Zenon
  <2>. QED  BY <1>1, <1>2, <2>1, SMT
<1>. HIDE DEF missing
<1>7. Cardinality(pads) = missing
  <2>1. size - missing + 1 \in Int /\ size \in Int
    BY <1>1, SMT
  <2>. HIDE DEF pads
  <2>2. Cardinality(size - missing + 1 .. size)
          = IF size - missing + 1 > size THEN 0 ELSE size - (size - missing + 1) + 1
    BY <2>1, FS_Interval, SMT
  <2>. QED  BY <1>1, <1>6, <2>2, SMT
<1>. DEFINE decoded == base64_decode(chars)
            it(i) == BytesIn(Group((i - 1) \div 3))[((i - 1) % 3) + 1]
<1>8. /\ DOMAIN decoded = 1 .. n /\ decoded = [i \in 1 .. n |-> decoded[i]]
      /\ \A i \in 1 .. n : decoded[i] = it(i)
  <2>. DEFINE length == 3 * (Len(chars) \div 4) - Cardinality(pads)
  <2>1. length = n
    BY <1>1, <1>2, <1>7, SMT DEF size, missing
  <2>2. decoded = [i \in 1 .. length |-> it(i)]
    BY DEF base64_decode
  <2>. HIDE DEF decoded, length, it
  <2>3. decoded = [i \in 1 .. n |-> it(i)]
    BY <2>1, <2>2
  <2>. QED  BY <2>3
<1>. HIDE DEF decoded, pads
<1>9. ASSUME NEW i \in 1 .. n
      PROVE  decoded[i] = bytes[i]
  <2>. DEFINE g == (i - 1) \div 3
              k == (i - 1) % 3
  <2>1. g \in 0 .. groups - 1 /\ k \in {0, 1, 2} /\ 3 * g + k + 1 = i /\ g \in Nat
    BY <1>1 DEF groups
  <2>2. decoded[i] = BytesIn(Group(g))[k + 1]
    BY <1>8, Zenon
  <2>. HIDE DEF g, k, Group
  <2>3. BytesIn(Group(g))
          = <<Byte(bytes, 3 * g + 1), Byte(bytes, 3 * g + 2), Byte(bytes, 3 * g + 3)>>
    BY <1>3, <1>5, <2>1, Zenon
  <2>4. Byte(bytes, i) = bytes[i]
    BY <1>1, Zenon DEF Byte
  <2>5. /\ k = 0 => k + 1 = 1 /\ 3 * g + 1 = i
        /\ k = 1 => k + 1 = 2 /\ 3 * g + 2 = i
        /\ k = 2 => k + 1 = 3 /\ 3 * g + 3 = i
    BY <2>1
  <2>. DEFINE three == <<Byte(bytes, 3 * g + 1), Byte(bytes, 3 * g + 2), Byte(bytes, 3 * g + 3)>>
  <2>6. /\ three[1] = Byte(bytes, 3 * g + 1) /\ three[2] = Byte(bytes, 3 * g + 2)
        /\ three[3] = Byte(bytes, 3 * g + 3)
    BY SMT
  <2>7. BytesIn(Group(g)) = three
    BY <2>3
  <2>. HIDE DEF three
  <2>8. three[k + 1] = Byte(bytes, i)
    <3>1. CASE k = 0
      BY <2>5, <2>6, <3>1, Zenon
    <3>2. CASE k = 1
      BY <2>5, <2>6, <3>2, Zenon
    <3>3. CASE k = 2
      BY <2>5, <2>6, <3>3, Zenon
    <3>. QED  BY <2>1, <3>1, <3>2, <3>3
  <2>. QED  BY <2>2, <2>4, <2>7, <2>8, Zenon
<1>. QED  BY <1>8, <1>9 DEF decoded, chars

\* The quotient and the remainder of an index are the cell.
LEMMA Times ==
  ASSUME NEW d \in Int, NEW w \in Nat \ {0}, d >= 1
  PROVE  d * w >= w
OBVIOUS

LEMMA OneQuotient ==
  ASSUME NEW w \in Nat \ {0}, NEW q \in Int, NEW r \in 0 .. w - 1,
         NEW y \in Int, NEW x \in 0 .. w - 1, q * w + r = y * w + x
  PROVE  q = y /\ r = x
<1>1. CASE q = y
  <2>. DEFINE a == q * w
  <2>1. a \in Int /\ a + r = a + x
    BY <1>1
  <2>. HIDE DEF a
  <2>2. r = x
    BY <2>1
  <2>. QED  BY <1>1, <2>2
<1>2. CASE q > y
  <2>. DEFINE a == (q - y) * w
  <2>1. a >= w /\ a \in Int
    BY <1>2, Times
  <2>2. a = x - r
    OBVIOUS
  <2>. HIDE DEF a
  <2>. QED  BY <2>1, <2>2
<1>3. CASE q < y
  <2>. DEFINE a == (y - q) * w
  <2>1. a >= w /\ a \in Int
    BY <1>3, Times
  <2>2. a = r - x
    OBVIOUS
  <2>. HIDE DEF a
  <2>. QED  BY <2>1, <2>2
<1>. QED  BY <1>1, <1>2, <1>3

LEMMA Rows ==
  ASSUME NEW w \in Nat \ {0}, NEW h \in Nat \ {0}, NEW y \in 0 .. h - 1
  PROVE  y * w \in Nat /\ w * h \in Nat /\ y * w + w <= w * h
<1>1. (h - 1 - y) * w >= 0
  OBVIOUS
<1>2. (h - 1 - y) * w = w * h - w - y * w
  OBVIOUS
<1>3. y * w \in Nat /\ w * h \in Nat
  OBVIOUS
<1>. QED  BY <1>1, <1>2, <1>3

LEMMA Quotients ==
  ASSUME NEW i \in Nat, NEW w \in Nat \ {0}
  PROVE  i \div w \in Int /\ i % w \in 0 .. w - 1 /\ (i \div w) * w = i - (i % w)
OBVIOUS

LEMMA IndexIsCell ==
  ASSUME NEW w \in Nat \ {0}, NEW h \in Nat \ {0}, NEW x \in 0 .. w - 1, NEW y \in 0 .. h - 1
  PROVE  LET i == y * w + x IN i + 1 \in 1 .. w * h /\ i \div w = y /\ i % w = x
<1>. DEFINE i == y * w + x
<1>1. i \in Nat /\ i + 1 \in 1 .. w * h
  <2>. DEFINE a == y * w
              b == w * h
  <2>1. a \in Nat /\ b \in Nat /\ a + w <= b /\ i = a + x
    BY Rows
  <2>. HIDE DEF a, b, i
  <2>2. i \in Nat /\ i + 1 \in 1 .. b
    BY <2>1
  <2>. QED  BY <2>2 DEF b
<1>0. i = y * w + x /\ y \in Int
  OBVIOUS
<1>. HIDE DEF i
<1>. DEFINE q == i \div w
            r == i % w
<1>2. q \in Int /\ r \in 0 .. w - 1 /\ q * w = i - r
  BY <1>1, Quotients, Zenon
<1>. HIDE DEF q, r
<1>3. q * w + r = y * w + x
  <2>. DEFINE a == y * w
              b == q * w
  <2>1. a \in Int /\ b \in Int /\ b = i - r /\ i = a + x
    BY <1>0, <1>2
  <2>. HIDE DEF a, b
  <2>2. b + r = a + x
    BY <1>1, <1>2, <2>1
  <2>. QED  BY <2>2 DEF a, b
<1>4. q = y /\ r = x
  BY <1>0, <1>2, <1>3, OneQuotient
<1>. QED  BY <1>1, <1>4, Zenon DEF q, r, i

\* A grid of bits arrives as it is.
LEMMA GridArrives ==
  ASSUME NEW w \in Nat \ {0}, NEW h \in Nat \ {0},
         NEW cells \in SUBSET ((0 .. w - 1) \X (0 .. h - 1))
  PROVE  Drawn(w, h, base64_encode(pack_bits(Capture(w, h, cells)))) = cells
<1>. DEFINE size == w * h
            grid == Capture(w, h, cells)
            packed == pack_bits(grid)
            chars == base64_encode(packed)
<1>1. size \in Nat
  OBVIOUS
<1>2. /\ grid \in [1 .. size -> 0 .. 1]
      /\ \A i \in 1 .. size :
           grid[i] = IF <<(i - 1) % w, (i - 1) \div w>> \in cells THEN 1 ELSE 0
  BY DEF Capture
<1>. HIDE DEF size, grid
<1>3. (size + 7) \div 8 \in Nat
  BY <1>1
<1>4. packed \in [1 .. (size + 7) \div 8 -> 0 .. 255]
  BY <1>1, <1>2, PackedBytes, Zenon
<1>5. unpack_bits(packed, size) = grid
  BY <1>1, <1>2, Unpacks, Zenon
<1>. HIDE DEF packed
<1>6. base64_decode(chars) = packed
  BY <1>3, <1>4, Base64Arrives, Zenon
<1>. HIDE DEF chars
<1>7. Drawn(w, h, chars) = {c \in (0 .. w - 1) \X (0 .. h - 1) : grid[c[2] * w + c[1] + 1] # 0}
  BY <1>5, <1>6, Zenon DEF Drawn, size
<1>8. ASSUME NEW x \in 0 .. w - 1, NEW y \in 0 .. h - 1
      PROVE  grid[y * w + x + 1] # 0 <=> <<x, y>> \in cells
  <2>. DEFINE j == y * w + x
              i == j + 1
  <2>1. i \in 1 .. size /\ i - 1 = j /\ j \div w = y /\ j % w = x
    <3>1. j \in Int /\ j + 1 \in 1 .. w * h /\ j \div w = y /\ j % w = x
      BY IndexIsCell
    <3>. HIDE DEF j
    <3>2. i - 1 = j
      BY <3>1
    <3>. QED  BY <3>1, <3>2, Zenon DEF size
  <2>. HIDE DEF i, j
  <2>2. grid[i] = IF <<x, y>> \in cells THEN 1 ELSE 0
    BY <1>2, <2>1, Zenon
  <2>. QED  BY <2>2 DEF i, j
<1>9. ASSUME NEW c \in (0 .. w - 1) \X (0 .. h - 1)
      PROVE  grid[c[2] * w + c[1] + 1] # 0 <=> c \in cells
  <2>1. c[1] \in 0 .. w - 1 /\ c[2] \in 0 .. h - 1 /\ c = <<c[1], c[2]>>
    OBVIOUS
  <2>. QED  BY <1>8, <2>1, Zenon
<1>. QED  BY <1>7, <1>9 DEF chars, packed, grid

\* Two digits of hex hold a byte.
LEMMA HexArrives ==
  ASSUME NEW n \in Nat, NEW bytes \in [1 .. n -> 0 .. 255]
  PROVE  hex_to_genome(genome_to_hex(bytes)) = bytes
<1>. DEFINE hex == genome_to_hex(bytes)
            back == hex_to_genome(hex)
<1>1. Len(bytes) = n /\ 2 * n \in Nat
  OBVIOUS
<1>2. /\ Len(hex) = 2 * n
      /\ \A i \in 1 .. 2 * n :
           hex[i] = IF i % 2 = 1 THEN bytes[(i + 1) \div 2] \div 16 ELSE bytes[i \div 2] % 16
  BY <1>1 DEF genome_to_hex
<1>. HIDE DEF hex
<1>3. (2 * n) \div 2 = n
  OBVIOUS
<1>4. /\ back = [i \in 1 .. n |-> back[i]]
      /\ \A i \in 1 .. n : back[i] = hex[2 * i - 1] * 16 + hex[2 * i]
  BY <1>2, <1>3 DEF hex_to_genome
<1>. HIDE DEF back
<1>5. ASSUME NEW i \in 1 .. n
      PROVE  back[i] = bytes[i]
  <2>1. /\ 2 * i - 1 \in 1 .. 2 * n /\ (2 * i - 1) % 2 = 1 /\ ((2 * i - 1) + 1) \div 2 = i
        /\ 2 * i \in 1 .. 2 * n /\ (2 * i) % 2 # 1 /\ (2 * i) \div 2 = i
    OBVIOUS
  <2>2. hex[2 * i - 1] = bytes[i] \div 16 /\ hex[2 * i] = bytes[i] % 16
    BY <1>2, <2>1, Zenon
  <2>. DEFINE b == bytes[i]
  <2>3. b \in 0 .. 255
    OBVIOUS
  <2>. HIDE DEF b
  <2>4. (b \div 16) * 16 + (b % 16) = b
    BY <2>3
  <2>. QED  BY <1>4, <2>2, <2>4 DEF b
<1>6. bytes = [i \in 1 .. n |-> bytes[i]]
  OBVIOUS
<1>7. back = bytes
  BY <1>4, <1>5, <1>6, Zenon
<1>. QED  BY <1>7 DEF back, hex

(* Grids of every shape reach the browser as they are.                     *)
THEOREM GridsAlwaysArrive ==
  ASSUME NEW shapes \in SUBSET ((Nat \ {0}) \X (Nat \ {0}))
  PROVE  GridsArrive(shapes)
<1>1. ASSUME NEW s \in shapes, NEW cells \in SUBSET ((0 .. s[1] - 1) \X (0 .. s[2] - 1))
      PROVE  Drawn(s[1], s[2], base64_encode(pack_bits(Capture(s[1], s[2], cells)))) = cells
  <2>1. s[1] \in Nat \ {0} /\ s[2] \in Nat \ {0}
    OBVIOUS
  <2>. QED  BY <2>1, GridArrives, Zenon
<1>. QED  BY <1>1, Zenon DEF GridsArrive

(* So do bytes, whatever their number.                                     *)
THEOREM BytesAlwaysArrive ==
  ASSUME NEW bytes \in SUBSET (0 .. 255), NEW longest \in Nat
  PROVE  BytesArrive(bytes, longest)
<1>1. ASSUME NEW n \in 0 .. longest, NEW b \in [1 .. n -> bytes]
      PROVE  base64_decode(base64_encode(b)) = b /\ hex_to_genome(genome_to_hex(b)) = b
  <2>1. n \in Nat /\ b \in [1 .. n -> 0 .. 255]
    <3>1. \A i \in 1 .. n : b[i] \in 0 .. 255
      OBVIOUS
    <3>. QED  BY <3>1
  <2>. QED  BY <2>1, Base64Arrives, HexArrives, Zenon
<1>. QED  BY <1>1, Zenon DEF BytesArrive

-----------------------------------------------------------------------------
(* Seasons and traits.                                                     *)

\* The days of a year are its first, and each is in the quarter of the day
\* before or in the next.
LEMMA DaysOfYear ==
  ASSUME NEW y \in Nat \ {0}, NEW d \in 0 .. y - 1
  PROVE  d % y = d
<1>. DEFINE q == d \div y
            r == d % y
<1>0. d \in Nat
  OBVIOUS
<1>1. d \in Nat /\ q \in Int /\ r \in 0 .. y - 1 /\ q * y = d - r
  BY <1>0, Quotients, Zenon
<1>. HIDE DEF q, r
<1>2. q * y + r = 0 * y + d
  <2>. DEFINE a == q * y
  <2>1. a \in Int /\ a = d - r /\ 0 * y = 0
    BY <1>1
  <2>. HIDE DEF a
  <2>2. a + r = 0 * y + d
    BY <1>1, <2>1
  <2>. QED  BY <2>2 DEF a
<1>3. r = d
  BY <1>1, <1>2, OneQuotient
<1>. QED  BY <1>3 DEF r

LEMMA NextQuotient ==
  ASSUME NEW d \in Nat, NEW w \in Nat \ {0}
  PROVE  \/ (d + 1) \div w = d \div w
         \/ (d + 1) \div w = (d \div w) + 1
<1>. DEFINE k == d \div w
            r == d % w
            m == (d + 1) \div w
            s == (d + 1) % w
            a == k * w
            b == m * w
<1>1. k \in Int /\ r \in 0 .. w - 1 /\ a = d - r
  BY Quotients
<1>2. m \in Int /\ s \in 0 .. w - 1 /\ b = d + 1 - s
  BY Quotients
<1>. HIDE DEF k, r, m, s
<1>3. a \in Int /\ b \in Int /\ (k + 1) * w = a + w
  BY <1>1, <1>2
<1>4. CASE r + 1 < w
  <2>1. b + s = a + (r + 1)
    <3>. HIDE DEF a, b
    <3>. QED  BY <1>1, <1>2, <1>3
  <2>2. r + 1 \in 0 .. w - 1
    BY <1>1, <1>4
  <2>3. m = k
    BY <1>1, <1>2, <2>1, <2>2, OneQuotient
  <2>. QED  BY <2>3 DEF m, k
<1>5. CASE r + 1 = w
  <2>1. b + s = (k + 1) * w + 0
    <3>. DEFINE c == (k + 1) * w
    <3>1. c = a + w
      BY <1>3
    <3>. HIDE DEF a, b, c
    <3>2. b + s = c + 0
      BY <1>1, <1>2, <1>3, <1>5, <3>1
    <3>. QED  BY <3>2 DEF c
  <2>2. 0 \in 0 .. w - 1 /\ k + 1 \in Int
    BY <1>1
  <2>3. m = k + 1
    BY <1>1, <1>2, <2>1, <2>2, OneQuotient
  <2>. QED  BY <2>3 DEF m, k
<1>. QED  BY <1>1, <1>4, <1>5

LEMMA LastQuotient ==
  ASSUME NEW y \in Nat, NEW w \in Nat \ {0}, 4 * w <= y
  PROVE  (y - 1) \div w >= 3
<1>. DEFINE k == (y - 1) \div w
            r == (y - 1) % w
            a == k * w
<1>0. y - 1 \in Nat
  <2>. HIDE DEF k, r, a
  <2>. QED  OBVIOUS
<1>1. y - 1 \in Nat /\ k \in Int /\ r \in 0 .. w - 1 /\ a = y - 1 - r
  BY <1>0, Quotients, Zenon
<1>. HIDE DEF k, r
<1>2. CASE k <= 2
  <2>1. (2 - k) * w >= 0
    BY <1>1, <1>2
  <2>2. (2 - k) * w = 2 * w - a /\ a \in Int
    BY <1>1
  <2>3. a <= 2 * w
    <3>. DEFINE c == (2 - k) * w
    <3>1. c >= 0 /\ c = 2 * w - a
      BY <2>1, <2>2
    <3>. HIDE DEF a, c
    <3>. QED  BY <2>2, <3>1
  <2>. HIDE DEF a
  <2>. QED  BY <1>1, <2>2, <2>3
<1>. QED  BY <1>1, <1>2 DEF k

\* A quarter of SeasonAt, and the season of a day of a year that has quarters.
LEMMA SeasonOfDay ==
  ASSUME NEW y \in Nat, y >= 4, NEW d \in 0 .. y - 1
  PROVE  /\ y \div 4 \in Nat \ {0}
         /\ d \div (y \div 4) \in Nat
         /\ current_season(d, y) = SeasonAt[Quarter(d \div (y \div 4))]
<1>. DEFINE w == y \div 4
<1>1. w \in Nat \ {0} /\ ~(w <= 0)
  OBVIOUS
<1>2. d % y = d
  BY DaysOfYear
<1>3. d \in Nat
  OBVIOUS
<1>. HIDE DEF w
<1>4. d \div w \in Nat
  BY <1>1, <1>3
<1>5. current_season(d, y) = SeasonAt[Quarter(d \div w)]
  BY <1>1, <1>2, Zenon DEF current_season, w
<1>. QED  BY <1>1, <1>4, <1>5, Zenon DEF w

(* Years of every length turn.                                             *)
THEOREM SeasonsAlwaysTurn ==
  ASSUME NEW years \in SUBSET Nat
  PROVE  SeasonsTurn(years)
<1>. SUFFICES ASSUME NEW y \in years \ 0 .. 3
              PROVE  /\ current_season(0, y) = "Spring" /\ current_season(y - 1, y) = "Winter"
                     /\ \A d \in 0 .. y - 2 : \E q \in 0 .. 3, turn \in 0 .. 1 :
                          /\ q + turn <= 3
                          /\ current_season(d, y) = SeasonAt[q]
                          /\ current_season(d + 1, y) = SeasonAt[q + turn]
  BY Zenon DEF SeasonsTurn
<1>. DEFINE w == y \div 4
<1>1. y \in Nat /\ y >= 4 /\ 0 \in 0 .. y - 1 /\ y - 1 \in 0 .. y - 1
  OBVIOUS
<1>2. w \in Nat \ {0} /\ 4 * w <= y
  BY <1>1
<1>3. \A d \in 0 .. y - 1 :
         d \div w \in Nat /\ current_season(d, y) = SeasonAt[Quarter(d \div w)]
  BY <1>1, SeasonOfDay, Zenon
<1>. HIDE DEF w
<1>4. current_season(0, y) = "Spring"
  <2>1. 0 \div w = 0
    BY <1>2
  <2>2. SeasonAt[Quarter(0)] = "Spring"
    BY DEF SeasonAt, Quarter
  <2>. QED  BY <1>1, <1>3, <2>1, <2>2, Zenon
<1>5. current_season(y - 1, y) = "Winter"
  <2>. DEFINE k == (y - 1) \div w
  <2>1. k >= 3 /\ k \in Nat
    BY <1>1, <1>2, <1>3, LastQuotient
  <2>. HIDE DEF k
  <2>2. SeasonAt[Quarter(k)] = "Winter"
    BY <2>1 DEF SeasonAt, Quarter
  <2>. QED  BY <1>1, <1>3, <2>2, Zenon DEF k
<1>6. ASSUME NEW d \in 0 .. y - 2
      PROVE  \E q \in 0 .. 3, turn \in 0 .. 1 :
               /\ q + turn <= 3
               /\ current_season(d, y) = SeasonAt[q]
               /\ current_season(d + 1, y) = SeasonAt[q + turn]
  <2>. DEFINE k == d \div w
              m == (d + 1) \div w
  <2>1. d \in Nat /\ d \in 0 .. y - 1 /\ d + 1 \in 0 .. y - 1
    BY <1>1
  <2>2. /\ k \in Nat /\ current_season(d, y) = SeasonAt[Quarter(k)]
        /\ m \in Nat /\ current_season(d + 1, y) = SeasonAt[Quarter(m)]
    BY <1>3, <2>1, Zenon
  <2>3. m = k \/ m = k + 1
    BY <1>2, <2>1, NextQuotient, Zenon
  <2>. HIDE DEF k, m
  <2>4. \E q \in 0 .. 3, turn \in 0 .. 1 :
          q + turn <= 3 /\ Quarter(k) = q /\ Quarter(m) = q + turn
    BY <2>2, <2>3 DEF Quarter
  <2>. QED  BY <2>2, <2>4, Zenon
<1>. QED  BY <1>4, <1>5, <1>6, Zenon

LEMMA EveryTickTurns ==
  ASSUME NEW t \in Nat
  PROVE  current_season(t, 4) = SeasonAt[t % 4]
<1>. DEFINE q == t % 4
<1>1. q \in 0 .. 3 /\ 4 \div 4 = 1
  OBVIOUS
<1>. HIDE DEF q
<1>2. Quarter(q \div 1) = q
  BY <1>1 DEF Quarter
<1>3. current_season(t, 4) = SeasonAt[Quarter(q \div 1)]
  BY <1>1 DEF current_season, q
<1>. QED  BY <1>2, <1>3 DEF q

\* The bytes map onto the range, in order.
LEMMA BytesMap ==
  ASSUME NEW lo \in Nat, NEW hi \in Nat, lo <= hi
  PROVE  /\ map_byte(0, lo, hi) = lo /\ map_byte(255, lo, hi) = hi
         /\ \A b \in 0 .. 255 : map_byte(b, lo, hi) \in lo .. hi
         /\ \A b \in 0 .. 254 : map_byte(b, lo, hi) <= map_byte(b + 1, lo, hi)
<1>. DEFINE D == hi - lo
<1>1. D \in Nat /\ hi = lo + D
  OBVIOUS
<1>. HIDE DEF D
<1>2. ASSUME NEW b \in Nat, NEW n \in Nat, n = b * D
      PROVE  map_byte(b, lo, hi) = lo + ((2 * n + 255) \div 510)
  <2>1. 2 * b * D = 2 * n
    BY <1>1, <1>2
  <2>. QED  BY <2>1 DEF map_byte, D
<1>3. 0 * D = 0 /\ map_byte(0, lo, hi) = lo + ((2 * 0 + 255) \div 510)
  BY <1>1, <1>2
<1>4. map_byte(0, lo, hi) = lo
  BY <1>3
<1>5. map_byte(255, lo, hi) = lo + ((2 * (255 * D) + 255) \div 510)
  BY <1>1, <1>2
<1>6. map_byte(255, lo, hi) = hi
  BY <1>1, <1>5
<1>7. ASSUME NEW b \in 0 .. 255
      PROVE  map_byte(b, lo, hi) \in lo .. hi
  <2>. DEFINE n == b * D
  <2>1. n \in Nat /\ (255 - b) * D >= 0 /\ (255 - b) * D = 255 * D - n
    BY <1>1
  <2>2. n <= 255 * D
    <3>. DEFINE c == (255 - b) * D
    <3>1. c \in Int /\ c >= 0 /\ c = 255 * D - n
      BY <2>1, <1>1
    <3>. HIDE DEF n, c
    <3>. QED  BY <1>1, <2>1, <3>1
  <2>3. map_byte(b, lo, hi) = lo + ((2 * n + 255) \div 510)
    BY <1>2, <2>1
  <2>. HIDE DEF n
  <2>. QED  BY <1>1, <2>1, <2>2, <2>3
<1>8. ASSUME NEW b \in 0 .. 254
      PROVE  map_byte(b, lo, hi) <= map_byte(b + 1, lo, hi)
  <2>. DEFINE n == b * D
              m == (b + 1) * D
  <2>1. n \in Nat /\ m \in Nat /\ m = n + D
    BY <1>1
  <2>2. /\ map_byte(b, lo, hi) = lo + ((2 * n + 255) \div 510)
        /\ map_byte(b + 1, lo, hi) = lo + ((2 * m + 255) \div 510)
    BY <1>2, <2>1
  <2>. HIDE DEF n, m
  <2>. QED  BY <1>1, <2>1, <2>2
<1>. QED  BY <1>4, <1>6, <1>7, <1>8

LEMMA TraitOfByte ==
  ASSUME NEW t \in DOMAIN Bounds, NEW b
  PROVE  /\ Bounds[t][1] \in Nat /\ Bounds[t][2] \in Nat /\ Bounds[t][1] <= Bounds[t][2]
         /\ decode([g \in 1 .. 16 |-> b])[t] = map_byte(b, Bounds[t][1], Bounds[t][2])
<1>1. /\ Bounds[t][1] \in Nat /\ Bounds[t][2] \in Nat /\ Bounds[t][1] <= Bounds[t][2]
      /\ Gene[t] \in 1 .. 16
  BY DEF Bounds, Gene
<1>2. [g \in 1 .. 16 |-> b][Gene[t]] = b
  BY <1>1
<1>. QED  BY <1>1, <1>2, Zenon DEF decode

(* Every trait of every gene stays in its bounds.                          *)
THEOREM TraitsAlwaysFit == TraitsFit
<1>. DEFINE value(t, b) == decode([g \in 1 .. 16 |-> b])[t]
<1>1. ASSUME NEW t \in DOMAIN Bounds
      PROVE  /\ value(t, 0) = Bounds[t][1] /\ value(t, 255) = Bounds[t][2]
             /\ \A b \in 0 .. 254 : value(t, b) <= value(t, b + 1)
  <2>. DEFINE lo == Bounds[t][1]
              hi == Bounds[t][2]
  <2>1. lo \in Nat /\ hi \in Nat /\ lo <= hi /\ \A b : value(t, b) = map_byte(b, lo, hi)
    BY TraitOfByte, Zenon
  <2>. HIDE DEF lo, hi, value
  <2>2. /\ map_byte(0, lo, hi) = lo /\ map_byte(255, lo, hi) = hi
        /\ \A b \in 0 .. 254 : map_byte(b, lo, hi) <= map_byte(b + 1, lo, hi)
    BY <2>1, BytesMap
  <2>. QED  BY <2>1, <2>2, Zenon DEF lo, hi
<1>. QED  BY <1>1, Zenon DEF TraitsFit

LEMMA DecodedTrait ==
  ASSUME NEW t \in DOMAIN Bounds, NEW b \in 0 .. 255
  PROVE  decode([g \in 1 .. 16 |-> b])[t] \in Bounds[t][1] .. Bounds[t][2]
<1>. DEFINE lo == Bounds[t][1]
            hi == Bounds[t][2]
<1>1. /\ lo \in Nat /\ hi \in Nat /\ lo <= hi
      /\ decode([g \in 1 .. 16 |-> b])[t] = map_byte(b, lo, hi)
  BY TraitOfByte, Zenon
<1>. HIDE DEF lo, hi
<1>2. map_byte(b, lo, hi) \in lo .. hi
  BY <1>1, BytesMap, Zenon
<1>. QED  BY <1>1, <1>2, Zenon DEF lo, hi

LEMMA DecodingInOrder == DecodingIsInOrder
<1>1. SeasonsTurn(1 .. 23)
  <2>1. 1 .. 23 \in SUBSET Nat
    OBVIOUS
  <2>. QED  BY <2>1, SeasonsAlwaysTurn, Zenon
<1>2. ASSUME NEW b \in 0 .. 255
      PROVE  LET t == decode([g \in 1 .. 16 |-> b]) IN
             /\ t.speed > 0 /\ t.metabolism > 0 /\ t.forage_efficiency > 0
             /\ t.reproduction_threshold > 1 /\ t.swim >= 0
  <2>. DEFINE t == decode([g \in 1 .. 16 |-> b])
  <2>1. \A f \in DOMAIN Bounds : t[f] \in Bounds[f][1] .. Bounds[f][2]
    BY DecodedTrait
  <2>. HIDE DEF t
  <2>2. /\ t.speed \in 1 .. 3 /\ t.metabolism \in 1 .. 5 /\ t.forage_efficiency \in 1 .. 3
        /\ t.reproduction_threshold \in 50 .. 200 /\ t.swim \in 0 .. 3
    BY <2>1 DEF Bounds
  <2>3. /\ t.speed > 0 /\ t.metabolism > 0 /\ t.forage_efficiency > 0
        /\ t.reproduction_threshold > 1 /\ t.swim >= 0
    BY <2>2
  <2>. QED  BY <2>3 DEF t
<1>. QED  BY <1>1, <1>2, TraitsAlwaysFit, Zenon DEF DecodingIsInOrder

-----------------------------------------------------------------------------
(* What the browser draws of a captured world is the world's grids, in     *)
(* worlds of every width and height and at every tick.                     *)
THEOREM SnapshotsAlwaysArrive == Spec => []SnapshotsArrive
<1>1. CodecIsFaithful
  <2>1. {<<4, 2>>, <<3, 3>>, <<2, 5>>} \in SUBSET ((Nat \ {0}) \X (Nat \ {0}))
    OBVIOUS
  <2>2. {0, 1, 130, 255} \in SUBSET (0 .. 255) /\ 5 \in Nat
    OBVIOUS
  <2>3. GridsArrive({<<4, 2>>, <<3, 3>>, <<2, 5>>})
    BY <2>1, GridsAlwaysArrive, Zenon
  <2>4. BytesArrive({0, 1, 130, 255}, 5)
    BY <2>2, BytesAlwaysArrive, Zenon
  <2>. QED  BY <2>3, <2>4 DEF CodecIsFaithful
<1>2. ASSUME NEW grid \in SUBSET Cells
      PROVE  Shown(grid) = grid
  <2>1. Width \in Nat \ {0} /\ Height \in Nat \ {0}
    BY ConfigAssumption
  <2>. QED  BY <1>2, <2>1, GridArrives, Zenon DEF Shown, Cells
<1>3. TypeOK => SnapshotsArrive
  BY <1>1, <1>2 DEF TypeOK, SnapshotsArrive
<1>. QED  BY <1>3, TypeCorrect, PTL

(* Traits and seasons are in order at every tick.                          *)
THEOREM EnvironmentAlwaysInOrder == Spec => []EnvironmentInOrder
<1>1. TypeOK => EnvironmentInOrder
  BY DecodingInOrder, EveryTickTurns DEF TypeOK, EnvironmentInOrder
<1>. QED  BY <1>1, TypeCorrect, PTL
=============================================================================
