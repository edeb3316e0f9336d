------------------------------ MODULE MCWorld ------------------------------
(* Small worlds for TLC: one to three cells in a row, two genomes.  The    *)
(* trait ranges are those of traits.hpp scaled down, with the thresholds   *)
(* low enough for reproduction within three ticks.                         *)
EXTENDS WorldShown

CONSTANTS plain, fast

MCGenomes == {plain, fast}

MCTraits ==
  [g \in MCGenomes |->
     IF g = plain
     THEN [speed |-> 1, metabolism |-> 1, reproduction_threshold |-> 2,
           swim |-> 0, forage_efficiency |-> 1]
     ELSE [speed |-> 2, metabolism |-> 2, reproduction_threshold |-> 4,
           swim |-> 1, forage_efficiency |-> 3]]

\* The plain genome asks for more than an agent of the barren world starts with.
ThriftyTraits == [MCTraits EXCEPT ![plain].reproduction_threshold = 7]

Row(kinds) == [c \in Cells |-> kinds[c[1] + 1]]

LakeAndRock == Row(<<"Water", "Rock">>)
AllKinds == Row(<<"Forest", "Water", "Rock">>)
=============================================================================
