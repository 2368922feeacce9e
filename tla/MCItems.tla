-------------------------------- MODULE MCItems --------------------------------
(***************************************************************************)
(* Items for TLC.                                                          *)
(***************************************************************************)
EXTENDS Items

Symmetry == Permutations(Stream)
===============================================================================
