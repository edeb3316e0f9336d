---------------------------- MODULE Environment ----------------------------
(***************************************************************************)
(* What the world computes from bytes and ticks: the traits a genome        *)
(* stands for, and the season of a tick.                                    *)
(***************************************************************************)
EXTENDS Integers

\* The bounds of traits.hpp, and the gene of each trait, counted from 1.
Bounds == [vision |-> <<1, 5>>, speed |-> <<1, 3>>, metabolism |-> <<1, 5>>,
           reproduction_threshold |-> <<50, 200>>, swim |-> <<0, 3>>,
           forage_efficiency |-> <<1, 3>>]
Gene == [vision |-> 1, speed |-> 2, metabolism |-> 3,
         reproduction_threshold |-> 4, swim |-> 5, forage_efficiency |-> 6]

\* byte / 255 * (hi - lo) rounded to the nearest: 255 is odd, so the floating
\* point value is never at a half.
map_byte(byte, lo, hi) == lo + (2 * byte * (hi - lo) + 255) \div 510

decode(genome) ==
  [t \in DOMAIN Bounds |-> map_byte(genome[Gene[t]], Bounds[t][1], Bounds[t][2])]

Seasons == {"Spring", "Summer", "Autumn", "Winter"}
SeasonAt == [q \in 0 .. 3 |-> CASE q = 0 -> "Spring" [] q = 1 -> "Summer"
                                [] q = 2 -> "Autumn" [] OTHER -> "Winter"]

\* Mutant: what a year has more than four quarters begins the next spring.
QuarterAgain(q) == q % 4

\* The days a year has more than four equal quarters are winter's.
Quarter(q) == IF q >= 4 THEN 3 ELSE q

current_season(tick, year_length) ==
  IF year_length \div 4 <= 0 THEN "Spring"
  ELSE SeasonAt[Quarter((tick % year_length) \div (year_length \div 4))]

(***************************************************************************)
(* Properties.                                                             *)
(***************************************************************************)

\* Every byte of every gene decodes to a value in the bounds of its trait,
\* both bounds are reached, and a larger byte never means a smaller value.
TraitsFit ==
  \A t \in DOMAIN Bounds :
    LET value(b) == decode([g \in 1 .. 16 |-> b])[t] IN
    /\ value(0) = Bounds[t][1] /\ value(255) = Bounds[t][2]
    /\ \A b \in 0 .. 254 : value(b) <= value(b + 1)

\* A year of any length, also one that is no multiple of four, begins in
\* spring, ends in winter and has its seasons once and in order.
SeasonsTurn(years) ==
  \A y \in years \ 0 .. 3 :
    /\ current_season(0, y) = "Spring" /\ current_season(y - 1, y) = "Winter"
    /\ \A d \in 0 .. y - 2 : \E q \in 0 .. 3, turn \in 0 .. 1 :
         /\ q + turn <= 3
         /\ current_season(d, y) = SeasonAt[q] /\ current_season(d + 1, y) = SeasonAt[q + turn]
=============================================================================
