-------------------------------- MODULE UuidMap --------------------------------
(****************************************************************************)
(* UuidMap: which items an item has a relationship with, and which have one *)
(* with it.  The arrays hold no uuid twice, and their order is left out.    *)
(****************************************************************************)

CONSTANT Uuid

NewMap == [direct |-> [u \in Uuid |-> {}], inverse |-> [u \in Uuid |-> {}]]

EstablishRelationship(m, a, b) ==
  [direct |-> [m.direct EXCEPT ![a] = @ \union {b}],
   inverse |-> [m.inverse EXCEPT ![b] = @ \union {a}]]

DeestablishRelationship(m, a, b) ==
  [direct |-> [m.direct EXCEPT ![a] = @ \ {b}],
   inverse |-> [m.inverse EXCEPT ![b] = @ \ {a}]]

\* Previous relationships are removed before the new ones are made.
SetAllRelationships(m, a, relationships) ==
  [direct |-> [m.direct EXCEPT ![a] = relationships],
   inverse |-> [u \in Uuid |-> IF u \in relationships THEN m.inverse[u] \union {a}
                               ELSE IF u \in m.direct[a] THEN m.inverse[u] \ {a}
                               ELSE m.inverse[u]]]

\* What a refers to, and what refers to a, is forgotten.
RemoveFromMap(m, a) ==
  [direct |-> [u \in Uuid |-> IF u = a THEN {}
                              ELSE IF u \in m.inverse[a] THEN m.direct[u] \ {a}
                              ELSE m.direct[u]],
   inverse |-> [u \in Uuid |-> IF u = a THEN {}
                               ELSE IF u \in m.direct[a] THEN m.inverse[u] \ {a}
                               ELSE m.inverse[u]]]

Maps == [direct : [Uuid -> SUBSET Uuid], inverse : [Uuid -> SUBSET Uuid]]

(***************************************************************************)
(* The two maps are converses: either can be asked.                        *)
(***************************************************************************)
Converse(m) == \A a, b \in Uuid : b \in m.direct[a] <=> a \in m.inverse[b]
===============================================================================
