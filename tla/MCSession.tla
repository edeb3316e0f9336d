----------------------------- MODULE MCSession -----------------------------
(***************************************************************************)
(* Session for TLC: two tabs of one browser; e-mails and the two tabs are  *)
(* interchangeable.                                                        *)
(***************************************************************************)
EXTENDS Session, TLC

CONSTANT b1
OneBrowser == [t \in Tabs |-> b1]

Symmetry == Permutations(Tabs) \union Permutations(Emails)
=============================================================================
