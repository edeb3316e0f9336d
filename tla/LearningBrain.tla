--------------------------- MODULE LearningBrain ---------------------------
(***************************************************************************)
(* The brain that learns (engine/src/brain_learning.cpp): it perturbs its  *)
(* network, acts with the candidate until the end of the interval, and     *)
(* keeps it if the energy rose.  A network is a value: its weights, and    *)
(* what it makes the agent do, are left out; the world sets the energy.    *)
(***************************************************************************)
EXTENDS Integers

CONSTANTS
  Nets,
  Energies,   \* what the energy may be when the brain is ticked
  Interval    \* update_interval_

ASSUME LearningAssumption ==
  /\ Energies \subseteq Int
  /\ Interval \in Nat \ {0}

VARIABLES
  round,         \* tick_counter_ % update_interval_
  net,
  candidate,
  hasCandidate,
  inference,     \* the network of inference_brain_
  prevEnergy,
  acting,        \* the network that acted in the last tick
  tried          \* ticks the candidate has acted

learningVars == <<round, net, candidate, hasCandidate, inference, prevEnergy, acting, tried>>

LearningInit ==
  /\ round = 0
  /\ net \in Nets
  /\ candidate = net
  /\ hasCandidate = FALSE
  /\ inference = net
  /\ prevEnergy = 0
  /\ acting = net
  /\ tried = 0

\* The interval ends while a candidate is tried ...
Evaluates(p) == p = 0 /\ hasCandidate
\* ... and it is kept if the energy rose in the last tick.
Improved(energy) == energy - prevEnergy > 0

EndsTrial(p, energy) == Evaluates(p)

\* A new candidate is made after the first tick of an interval.
Perturbs(p, onTrial) == p = 1 /\ ~onTrial

\* Mutant: the candidate is made and not used.
KeepInference(old, c) == old
UseCandidate(old, c) == c

\* Bound: ticks are not counted past the interval.
Count(n) == IF n > Interval THEN n ELSE n + 1

(* LearningBrain::tick: evaluate, act, perturb.                            *)
Tick(energy, c) ==
  LET p == (round + 1) % Interval
      kept == Evaluates(p) /\ Improved(energy)
      onTrial == hasCandidate /\ ~EndsTrial(p, energy)
      used == IF kept THEN candidate ELSE inference
  IN  /\ round' = p
      /\ net' = IF kept THEN candidate ELSE net
      /\ prevEnergy' = energy
      /\ acting' = used
      /\ IF Perturbs(p, onTrial)
         THEN /\ candidate' = c
              /\ hasCandidate' = TRUE
              /\ inference' = UseCandidate(used, c)
              /\ tried' = 0
         ELSE /\ hasCandidate' = onTrial
              /\ inference' = used
              /\ tried' = IF onTrial THEN Count(tried) ELSE 0
              /\ UNCHANGED candidate

LearningNext == \E energy \in Energies, c \in Nets : Tick(energy, c)

LearningSpec == LearningInit /\ [][LearningNext]_learningVars
-----------------------------------------------------------------------------
(* Properties *)

(* What is learnt has been tried: the network changes only to one that     *)
(* acted in every tick since it was made, and when the energy rose.        *)
LearnsWhatItTried ==
  [][net' # net => /\ net' = acting /\ tried = Interval - 2
                   /\ prevEnergy' > prevEnergy]_learningVars

(* "Keep changes that improve the reward": without a candidate on trial    *)
(* the brain acts with the network it keeps.                               *)
RejectedIsDropped == hasCandidate \/ inference = net
=============================================================================
