------------------------------- MODULE Filter -------------------------------
(***************************************************************************)
(* Arrays filtered by what their elements are.  Sequences has SelectSeq,   *)
(* which the provers know nothing of; Where is the same as a recursive     *)
(* function; KeyRecoveryProofs, ComponentsProofs say what it leaves.       *)
(***************************************************************************)
EXTENDS Naturals, Sequences

\* The elements of q that are in S, in their order.
Where(q, S) ==
  LET W[n \in 0 .. Len(q)] ==
        IF n = 0 THEN <<>>
        ELSE IF q[n] \in S THEN Append(W[n - 1], q[n]) ELSE W[n - 1]
  IN W[Len(q)]
===============================================================================
