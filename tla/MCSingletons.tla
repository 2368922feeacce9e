------------------------------ MODULE MCSingletons ------------------------------
(***************************************************************************)
(* Singletons for TLC.                                                     *)
(***************************************************************************)
EXTENDS Singletons
===============================================================================
