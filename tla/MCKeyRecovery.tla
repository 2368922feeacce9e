----------------------------- MODULE MCKeyRecovery -----------------------------
(***************************************************************************)
(* KeyRecovery for TLC.                                                    *)
(***************************************************************************)
EXTENDS KeyRecovery
===============================================================================
