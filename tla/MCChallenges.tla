----------------------------- MODULE MCChallenges -----------------------------
(***************************************************************************)
(* Challenges for TLC: challenges of the same owner are alike.             *)
(***************************************************************************)
EXTENDS Challenges, TLC

Symmetry == Permutations(Protect) \union Permutations(Renew) \union Permutations(Slot)
===============================================================================
