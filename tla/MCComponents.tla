----------------------------- MODULE MCComponents -----------------------------
(***************************************************************************)
(* Components for TLC: the components are alike.                           *)
(***************************************************************************)
EXTENDS Components, TLC

Symmetry == Permutations(Component) \union Permutations(Theme)
===============================================================================
