------------------------------- MODULE Torus -------------------------------
(***************************************************************************)
(* The ground of the world (grid.hpp, terrain.cpp, direction.cpp): a torus *)
(* of cells with a kind of terrain each, and what a move on it costs.      *)
(***************************************************************************)
EXTENDS Integers

CONSTANTS
  Width, Height,       \* config.width, config.height
  Terrain              \* what World::init rolled for every cell

Cells == (0 .. Width - 1) \X (0 .. Height - 1)

TerrainKinds == {"Plain", "Forest", "Water", "Rock"}

Offsets == {<<0, -1>>, <<1, 0>>, <<0, 1>>, <<-1, 0>>}

\* Every coordinate is wrapped around the torus.
Wrap(x, y) == <<x % Width, y % Height>>

Step(p, o) == Wrap(p[1] + o[1], p[2] + o[2])

Neighbours(p) == {Step(p, o) : o \in Offsets}

\* Mutant: rock is as easy as plain ground.
FlatRock(t) == IF t = "Water" THEN 3 ELSE 1

MovementCost(t) == CASE t = "Water" -> 3 [] t = "Rock" -> 2 [] OTHER -> 1

\* Swimming makes water cheaper, never cheaper than plain ground.
MoveCost(traits, t) ==
  LET cost == MovementCost(t)
  IN  IF t = "Water" /\ traits.swim > 0
      THEN IF cost - traits.swim > 1 THEN cost - traits.swim ELSE 1
      ELSE cost
=============================================================================
