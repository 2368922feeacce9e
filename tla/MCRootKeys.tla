------------------------------ MODULE MCRootKeys ------------------------------
(***************************************************************************)
(* RootKeys for TLC.                                                       *)
(***************************************************************************)
EXTENDS RootKeys, TLC

Symmetry ==
  Permutations(AccountKey) \union Permutations(PasscodeKey) \union Permutations(ItemsKey)
===============================================================================
