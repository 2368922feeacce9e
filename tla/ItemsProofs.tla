---------------------------- MODULE ItemsProofs ----------------------------
(***************************************************************************)
(* That streams are given all that happens to items, that the index of     *)
(* references can be asked from both sides, and that a deletion leaves no  *)
(* reference behind, for any items, consumers and emissions.               *)
(***************************************************************************)
EXTENDS Items, FiniteSetTheorems, SequenceTheorems, TLAPS

(***************************************************************************)
(* The invariant of the streams.  One emission is being notified at most:  *)
(* of items e, to streams of which those in S are still to be given them.  *)
(* The others agree with the collection; these agree but for e, which the  *)
(* collection has taken over.                                              *)
(***************************************************************************)
Records == \E a, b, c : history = [unannounced |-> a, discarded |-> b, relinked |-> c]
Announced == Item \ history.unannounced
AgreesOn(s, us) == \A u \in us : streams[s][u] = items[u]

TakenOver(e) == \A u \in Item \intersect DOMAIN e : items[u] = IF Discardable(e[u]) THEN None ELSE e[u]
Notifying(e, S) ==
  /\ running = <<[payloads |-> e, streams |-> S]>>
  /\ TakenOver(e)
  /\ \A s \in S : AgreesOn(s, Announced \ DOMAIN e)
  /\ \A s \in Subscribed \ S : AgreesOn(s, Announced)

StreamInv ==
  /\ Records
  /\ items = [u \in Item |-> items[u]] /\ streams = [s \in Stream |-> streams[s]]
  /\ \/ running = <<>> /\ \A s \in Subscribed : AgreesOn(s, Announced)
     \/ \E e, S : Notifying(e, S)

-----------------------------------------------------------------------------
(***************************************************************************)
(* The steps.                                                              *)
(***************************************************************************)
\* What changes neither the collection nor what a stream was given.
LEMMA Unmoved ==
  ASSUME StreamInv, Records', history'.unannounced = history.unannounced,
         UNCHANGED <<items, running, streams>>
  PROVE  StreamInv'
<1>1. Announced' = Announced /\ Subscribed' = Subscribed
  BY DEF Announced, Subscribed
<1>2. CASE running = <<>> /\ \A s \in Subscribed : AgreesOn(s, Announced)
  BY <1>1, <1>2 DEF StreamInv, AgreesOn
<1>3. ASSUME NEW e, NEW S, Notifying(e, S) PROVE StreamInv'
  <2>1. Notifying(e, S)'
    BY <1>1, <1>3 DEF Notifying, TakenOver, AgreesOn
  <2> QED BY <2>1 DEF StreamInv
<1> QED BY <1>2, <1>3 DEF StreamInv

LEMMA InitStreams == Init => StreamInv
  BY DEF Init, StreamInv, Records, Subscribed

\* The collection takes an emission over, and every stream is to be given it.
LEMMA PopQueueStreams == StreamInv /\ PopQueue => StreamInv'
<1> SUFFICES ASSUME StreamInv, PopQueue PROVE StreamInv'
  OBVIOUS
<1> PICK e, S : e = queue[Len(running) + 1].payloads /\ S = Subscribed
  OBVIOUS
<1>1. running = <<>> /\ \A s \in Subscribed : AgreesOn(s, Announced)
  BY DEF PopQueue, MayPop, StreamInv, Notifying
<1>2. /\ \A u \in Item : items'[u] = IF u \notin DOMAIN e THEN items[u]
                                     ELSE IF Discardable(e[u]) THEN None ELSE e[u]
      /\ items' = [u \in Item |-> items'[u]]
  BY DEF PopQueue
<1>3. running' = <<[payloads |-> e, streams |-> S]>>
  BY <1>1 DEF PopQueue
<1>4. Records' /\ history'.unannounced = history.unannounced \ DOMAIN e
  BY DEF PopQueue, StreamInv, Records
<1>5. streams' = streams /\ Subscribed = S /\ Subscribed' = S
  BY DEF PopQueue, Subscribed
<1>6. TakenOver(e)'
  BY <1>2 DEF TakenOver
<1>7. \A s \in S : AgreesOn(s, Announced \ DOMAIN e)'
  BY <1>1, <1>2, <1>4, <1>5 DEF AgreesOn, Announced
<1>8. Notifying(e, S)'
  BY <1>3, <1>5, <1>6, <1>7 DEF Notifying
<1> QED BY <1>2, <1>4, <1>5, <1>8 DEF StreamInv

\* What replaces the only element of a sequence.
LEMMA OneReplaced ==
  ASSUME NEW e, NEW S, NEW s
  PROVE  [<<[payloads |-> e, streams |-> S]>> EXCEPT ![1].streams = @ \ {s}] =
           <<[payloads |-> e, streams |-> S \ {s}]>>
<1> DEFINE x == <<[payloads |-> e, streams |-> S]>>
           y == [x EXCEPT ![1].streams = @ \ {s}]
           z == <<[payloads |-> e, streams |-> S \ {s}]>>
<1>1. x = [n \in 1 .. 1 |-> [payloads |-> e, streams |-> S]]
  OBVIOUS
<1>2. z = [n \in 1 .. 1 |-> [payloads |-> e, streams |-> S \ {s}]]
  OBVIOUS
<1>3. y = [n \in 1 .. 1 |-> [payloads |-> e, streams |-> S \ {s}]]
  BY <1>1
<1> QED BY <1>2, <1>3

\* A stream is given the emission; what its consumer then changes is only emitted.
LEMMA NotifyStreams == ASSUME StreamInv, NEW s \in Stream, Notify(s) PROVE StreamInv'
<1>1. PICK e, S : Notifying(e, S)
  BY DEF StreamInv, Notify
<1>2. Top.payloads = e /\ Top.streams = S /\ s \in S
  BY <1>1 DEF Notifying, Top, Notify
<1>3. /\ streams' = [streams EXCEPT ![s] = Given(@, e)]
      /\ UNCHANGED <<items, history>>
  BY <1>2 DEF Notify
<1>4. running' = <<[payloads |-> e, streams |-> S \ {s}]>>
  <2>1. running = <<[payloads |-> e, streams |-> S]>> /\ Len(running) = 1
    BY <1>1 DEF Notifying
  <2>2. running' = [running EXCEPT ![1].streams = @ \ {s}]
    BY <2>1 DEF Notify
  <2> QED BY <2>1, <2>2, OneReplaced
<1>5. /\ streams'[s] = Given(streams[s], e)
      /\ \A t \in Stream \ {s} : streams'[t] = streams[t]
      /\ streams' = [t \in Stream |-> streams'[t]]
  BY <1>3 DEF StreamInv
<1>6. Announced' = Announced
  BY <1>3 DEF Announced
<1>7. AgreesOn(s, Announced)'
  <2> SUFFICES ASSUME NEW u \in Announced PROVE streams'[s][u] = items[u]
    BY <1>3, <1>6 DEF AgreesOn
  <2>1. CASE u \in DOMAIN e
    BY <1>1, <1>5, <2>1 DEF Notifying, TakenOver, Given, Announced
  <2>2. CASE u \notin DOMAIN e
    BY <1>1, <1>2, <1>5, <2>2 DEF Notifying, AgreesOn, Given, Announced
  <2> QED BY <2>1, <2>2
<1>8. \A t \in Subscribed' \ (S \ {s}) : AgreesOn(t, Announced)'
  BY <1>1, <1>3, <1>5, <1>6, <1>7 DEF Notifying, AgreesOn, Subscribed
<1>9. \A t \in S \ {s} : AgreesOn(t, Announced \ DOMAIN e)'
  <2> SUFFICES ASSUME NEW t \in S, t # s PROVE AgreesOn(t, Announced \ DOMAIN e)'
    OBVIOUS
  <2>1. streams'[t] = streams[t]
    BY <1>3 DEF StreamInv
  <2> QED BY <1>1, <1>3, <1>6, <2>1 DEF Notifying, AgreesOn
<1>10. Notifying(e, S \ {s})'
  BY <1>1, <1>3, <1>4, <1>8, <1>9 DEF Notifying, TakenOver
<1> QED BY <1>3, <1>5, <1>10 DEF StreamInv, Records

\* All streams have been given it, and agree.
LEMMA ResolveStreams == StreamInv /\ Resolve => StreamInv'
<1> SUFFICES ASSUME StreamInv, Resolve PROVE StreamInv'
  OBVIOUS
<1>1. PICK e, S : Notifying(e, S)
  BY DEF StreamInv, Resolve
<1>2. S = {} /\ running' = <<>>
  BY <1>1 DEF Notifying, Resolve, Top
<1>3. UNCHANGED <<items, streams, history>>
  BY DEF Resolve
<1>4. \A s \in Subscribed : AgreesOn(s, Announced)
  BY <1>1, <1>2 DEF Notifying
<1> QED BY <1>2, <1>3, <1>4 DEF StreamInv, Records, AgreesOn, Announced, Subscribed

\* Most operations emit, or do not concern items.
LEMMA OthersStreams ==
  ASSUME StreamInv,
         \/ \E u \in Item : ChangeItem(u) \/ Retrieve(u) \/ Saved(u) \/ Linked(u)
         \/ \E n \in Note : CreateItem(n) \/ \E copy \in Note : CopyItem(n, copy, TRUE) \/ CopyItem(n, copy, FALSE)
         \/ \E u \in Deletable : SetItemToBeDeleted(u)
         \/ \E u, a \in Item : DropReference(u, a)
         \/ \E sort \in {"asc", "dsc"}, filter \in BOOLEAN : SetDisplayOptions(sort, filter)
         \/ \E sort \in {"asc", "dsc"}, tag \in Tag \union {None} : SetCriteria(tag, sort)
         \/ DisplayElements
         \/ UNCHANGED vars
  PROVE  StreamInv'
<1>1. UNCHANGED <<items, running, streams>>
  BY DEF ChangeItem, Retrieve, Saved, Linked, CreateItem, CopyItem, SetItemToBeDeleted,
         DropReference, Does, SetDisplayOptions, SetCriteria, DisplayElements, vars
<1>2. \/ history' = history
      \/ \E r : history' = [history EXCEPT !.relinked = r]
  BY DEF ChangeItem, Retrieve, Saved, Linked, CreateItem, CopyItem, SetItemToBeDeleted,
         DropReference, SetDisplayOptions, SetCriteria, DisplayElements, vars
<1>3. Records' /\ history'.unannounced = history.unannounced
  BY <1>2 DEF StreamInv, Records
<1> QED BY <1>1, <1>3, Unmoved

\* What is removed locally is no longer announced.
LEMMA RemoveStreams == ASSUME StreamInv, NEW v \in Item, RemoveItemLocally(v) PROVE StreamInv'
<1>1. /\ items' = [items EXCEPT ![v] = None]
      /\ running = <<>> /\ UNCHANGED <<running, streams>>
  BY DEF RemoveItemLocally, Quiet
<1>2. /\ items' = [u \in Item |-> items'[u]]
      /\ \A u \in Item \ {v} : items'[u] = items[u]
  BY <1>1 DEF StreamInv
<1>3. Records' /\ history'.unannounced = history.unannounced \union {v}
  BY DEF RemoveItemLocally, StreamInv, Records
<1>4. \A s \in Subscribed : AgreesOn(s, Announced)
  BY <1>1 DEF StreamInv, Notifying
<1> QED BY <1>1, <1>2, <1>3, <1>4 DEF StreamInv, AgreesOn, Announced, Subscribed

\* A new stream agrees with the collection, whatever is being notified.
LEMMA SubscribeStreams ==
  ASSUME StreamInv, NEW s \in Stream, Subscribe(s) \/ Unsubscribe(s)
  PROVE  StreamInv'
<1>1. UNCHANGED <<items, running, history>>
  BY DEF Subscribe, Unsubscribe
<1>2. /\ streams' = [t \in Stream |-> streams'[t]]
      /\ \A t \in Stream \ {s} : streams'[t] = streams[t]
      /\ streams'[s] = items \/ streams'[s] = None
  BY DEF Subscribe, Unsubscribe, StreamInv
<1>3. Announced' = Announced
  BY <1>1 DEF Announced
<1>4. CASE running = <<>> /\ \A t \in Subscribed : AgreesOn(t, Announced)
  <2>1. \A t \in Subscribed' : AgreesOn(t, Announced)'
    BY <1>1, <1>2, <1>3, <1>4 DEF AgreesOn, Subscribed
  <2> QED BY <1>1, <1>2, <1>4, <2>1 DEF StreamInv, Records
<1>5. ASSUME NEW e, NEW S, Notifying(e, S) PROVE StreamInv'
  <2>1. Subscribe(s) /\ streams'[s] = items
    BY <1>5 DEF Subscribe, Unsubscribe, Quiet, Notifying, StreamInv
  <2>2. \A t : streams'[t] = IF t = s THEN items ELSE streams[t]
    BY <2>1 DEF Subscribe, StreamInv
  <2>3. Notifying(e, S)'
    BY <1>1, <1>3, <1>5, <2>2 DEF Notifying, TakenOver, AgreesOn, Subscribed
  <2> QED BY <1>1, <1>2, <2>3 DEF StreamInv, Records
<1> QED BY <1>4, <1>5 DEF StreamInv

\* Every step keeps the invariant.
LEMMA StreamStep == StreamInv /\ [Next]_vars => StreamInv'
<1> SUFFICES ASSUME StreamInv, [Next]_vars PROVE StreamInv'
  OBVIOUS
<1>1. CASE Emission
  BY <1>1, PopQueueStreams, NotifyStreams, ResolveStreams DEF Emission
<1>2. CASE Operation
  BY <1>2, OthersStreams, RemoveStreams DEF Operation
<1>3. CASE Consumer
  BY <1>3, OthersStreams, SubscribeStreams DEF Consumer
<1>4. CASE UNCHANGED vars
  BY <1>4, OthersStreams
<1> QED BY <1>1, <1>2, <1>3, <1>4 DEF Next

(*****************************************************************************)
(* However consumers subscribe, and change items while they are notified, at *)
(* the end every stream has what the collection has.                         *)
(*****************************************************************************)
THEOREM StreamsAreGivenAll == Spec => []StreamsAgree
<1>1. StreamInv => StreamsAgree
  BY DEF StreamInv, Notifying, StreamsAgree, Quiet, AgreesOn, Announced
<1> QED BY <1>1, InitStreams, StreamStep, PTL DEF Spec

-----------------------------------------------------------------------------
(***************************************************************************)
(* A new map is a map, and its halves are converses.                       *)
(***************************************************************************)
THEOREM NewMapIsConverse == R!NewMap \in R!Maps /\ R!Converse(R!NewMap)
  BY DEF R!NewMap, R!Maps, R!Converse

(***************************************************************************)
(* establishRelationship keeps them so.                                    *)
(***************************************************************************)
THEOREM EstablishKeepsConverse ==
  ASSUME NEW m \in R!Maps, NEW a \in Item, NEW b \in Item, R!Converse(m)
  PROVE  /\ R!EstablishRelationship(m, a, b) \in R!Maps
         /\ R!Converse(R!EstablishRelationship(m, a, b))
  BY DEF R!Maps, R!Converse, R!EstablishRelationship

(***************************************************************************)
(* deestablishRelationship keeps them so.                                  *)
(***************************************************************************)
THEOREM DeestablishKeepsConverse ==
  ASSUME NEW m \in R!Maps, NEW a \in Item, NEW b \in Item, R!Converse(m)
  PROVE  /\ R!DeestablishRelationship(m, a, b) \in R!Maps
         /\ R!Converse(R!DeestablishRelationship(m, a, b))
  BY DEF R!Maps, R!Converse, R!DeestablishRelationship

(*******************************************************************************)
(* setAllRelationships, which the collection calls for every item it is given, *)
(* keeps them so.                                                              *)
(*******************************************************************************)
THEOREM SetAllKeepsConverse ==
  ASSUME NEW m \in R!Maps, NEW a \in Item, NEW relationships \in SUBSET Item, R!Converse(m)
  PROVE  /\ R!SetAllRelationships(m, a, relationships) \in R!Maps
         /\ R!Converse(R!SetAllRelationships(m, a, relationships))
<1> DEFINE s == R!SetAllRelationships(m, a, relationships)
<1>1. s \in R!Maps
  BY DEF R!Maps, R!SetAllRelationships
<1>2. ASSUME NEW x \in Item, NEW y \in Item
      PROVE  y \in s.direct[x] <=> x \in s.inverse[y]
  <2>1. CASE x = a
    BY <2>1 DEF R!Maps, R!Converse, R!SetAllRelationships
  <2>2. CASE x # a
    BY <2>2 DEF R!Maps, R!Converse, R!SetAllRelationships
  <2> QED BY <2>1, <2>2
<1> QED BY <1>1, <1>2 DEF R!Converse

(******************************************************************************)
(* removeFromMap, which it calls for what is deleted or discarded, keeps them *)
(* so, and leaves nothing that refers to what was removed.                    *)
(******************************************************************************)
THEOREM RemoveKeepsConverse ==
  ASSUME NEW m \in R!Maps, NEW a \in Item, R!Converse(m)
  PROVE  /\ R!RemoveFromMap(m, a) \in R!Maps
         /\ R!Converse(R!RemoveFromMap(m, a))
         /\ \A u \in Item : a \notin R!RemoveFromMap(m, a).direct[u]
<1> DEFINE s == R!RemoveFromMap(m, a)
<1>1. s \in R!Maps
  BY DEF R!Maps, R!RemoveFromMap
<1>2. ASSUME NEW x \in Item, NEW y \in Item
      PROVE  y \in s.direct[x] <=> x \in s.inverse[y]
  <2>1. CASE x = a
    BY <2>1 DEF R!Maps, R!Converse, R!RemoveFromMap
  <2>2. CASE x # a
    BY <2>2 DEF R!Maps, R!Converse, R!RemoveFromMap
  <2> QED BY <2>1, <2>2
<1>3. \A u \in Item : a \notin s.direct[u]
  BY DEF R!Maps, R!Converse, R!RemoveFromMap
<1> QED BY <1>1, <1>2, <1>3 DEF R!Converse
-----------------------------------------------------------------------------
(*****************************************************************************)
(* A fold over a finite set.  CHOOSE takes its elements in some order: a set *)
(* that is not empty is one element more than the set that it leaves.        *)
(*****************************************************************************)
\* A set of numbers has a least one.
LEMMA Least ==
  ASSUME NEW T \in SUBSET Nat, T # {}
  PROVE  \E m \in T : \A n \in T : m <= n
<1> DEFINE R1 == {p \in Nat \X Nat : p[1] < p[2]}
<1>1. IsWellFoundedOn(R1, Nat)
  BY NatLessThanWellFounded DEF OpToRel
<1>2. PICK m \in T : \A n \in T : ~ (<<n, m>> \in R1)
  <2> HIDE DEF R1
  <2> QED BY <1>1, WFMin
<1>3. ASSUME NEW n \in T, n < m PROVE FALSE
  BY <1>2, <1>3
<1> QED BY <1>3

\* Induction up to N: T is the set of numbers that the predicate holds of.
LEMMA UpTo ==
  ASSUME NEW N \in Nat, NEW T, 0 \in T, \A n \in 1..N : n - 1 \in T => n \in T
  PROVE  0..N \subseteq T
<1> DEFINE Out == (0..N) \ T
<1> SUFFICES ASSUME Out # {} PROVE FALSE
  OBVIOUS
<1>1. PICK m \in Out : \A n \in Out : m <= n
  <2>1. Out \in SUBSET Nat
    OBVIOUS
  <2> QED BY <2>1, Least
<1>2. m \in 1..N /\ m - 1 \in 0..N /\ m - 1 \notin Out
  BY <1>1
<1> QED BY <1>1, <1>2

\* Subsets of S are ranked by c: the next set of a fold is of the next lower rank.
Picked(s) == CHOOSE x \in s : TRUE
Rank(c, S, N) ==
  /\ c \in [SUBSET S -> 0..N]
  /\ \A s \in SUBSET S : /\ c[s] = 0 <=> s = {}
                         /\ s # {} => Picked(s) \in s /\ c[s \ {Picked(s)}] = c[s] - 1

\* By their cardinalities, sets are ranked so.
LEMMA Ranked ==
  ASSUME NEW S, IsFiniteSet(S)
  PROVE  \E N \in Nat : \E c : Rank(c, S, N)
<1> PICK N \in Nat : N = Cardinality(S)
  BY FS_CardinalityType
<1> DEFINE c == [s \in SUBSET S |-> Cardinality(s)]
<1>1. ASSUME NEW s \in SUBSET S
      PROVE  c[s] \in 0..N /\ IsFiniteSet(s) /\ (c[s] = 0 <=> s = {})
  <2>1. IsFiniteSet(s) /\ Cardinality(s) <= N /\ Cardinality(s) \in Nat
    BY FS_Subset, FS_CardinalityType
  <2> QED BY <2>1, FS_EmptySet
<1>2. ASSUME NEW s \in SUBSET S, s # {}
      PROVE  Picked(s) \in s /\ c[s \ {Picked(s)}] = c[s] - 1
  <2>1. Picked(s) \in s
    BY <1>2 DEF Picked
  <2>2. Cardinality(s \ {Picked(s)}) = Cardinality(s) - 1
    BY <1>1, <2>1, FS_RemoveElement
  <2> QED BY <2>1, <2>2
<1>3. c \in [SUBSET S -> 0..N]
  BY <1>1
<1> HIDE DEF c
<1>4. Rank(c, S, N)
  BY <1>1, <1>2, <1>3 DEF Rank
<1> QED BY <1>4

\* A fold over S, of functions F[x], from v.
Fold1(g, Dom, v, F) ==
  \A s \in Dom : g[s] = IF s = {} THEN v ELSE F[Picked(s)][g[s \ {Picked(s)}]]

\* There is such a fold: on sets of rank 0, and from rank to rank.
LEMMA FoldExists ==
  ASSUME NEW S, IsFiniteSet(S), NEW W, NEW v \in W, NEW F, \A x \in S : F[x] \in [W -> W]
  PROVE  \E g \in [SUBSET S -> W] : Fold1(g, SUBSET S, v, F)
<1>1. PICK N \in Nat : \E c : Rank(c, S, N)
  BY Ranked
<1>2. PICK c : Rank(c, S, N)
  BY <1>1
<1> DEFINE Lower(k) == {s \in SUBSET S : c[s] <= k}
           T == {k \in 0..N : \E g \in [Lower(k) -> W] : Fold1(g, Lower(k), v, F)}
<1>3. 0 \in T
  <2> DEFINE g == [s \in Lower(0) |-> v]
  <2>1. ASSUME NEW s \in Lower(0) PROVE s = {}
    <3>1. c[s] \in 0..N /\ c[s] <= 0 /\ (c[s] = 0 => s = {})
      BY <1>2 DEF Rank
    <3> QED BY <3>1
  <2>2. g \in [Lower(0) -> W] /\ Fold1(g, Lower(0), v, F)
    BY <2>1 DEF Fold1
  <2>3. 0 \in 0..N
    OBVIOUS
  <2> HIDE DEF g, Lower
  <2> QED BY <2>2, <2>3
<1>4. ASSUME NEW k \in 1..N, k - 1 \in T PROVE k \in T
  <2>1. PICK f : f \in [Lower(k - 1) -> W] /\ Fold1(f, Lower(k - 1), v, F)
    BY <1>4
  <2> DEFINE Value(h, s) == IF s = {} THEN v ELSE F[Picked(s)][h[s \ {Picked(s)}]]
             g == [s \in Lower(k) |-> IF s \in Lower(k - 1) THEN f[s] ELSE Value(f, s)]
  <2>2. ASSUME NEW s \in Lower(k), s # {}
        PROVE  Picked(s) \in S /\ s \ {Picked(s)} \in Lower(k - 1) /\ s \ {Picked(s)} \in Lower(k)
    <3>1. Picked(s) \in s /\ c[s \ {Picked(s)}] = c[s] - 1 /\ c[s] \in 0..N /\ c[s] <= k
      BY <1>2, <2>2 DEF Rank
    <3>2. s \ {Picked(s)} \in SUBSET S /\ Picked(s) \in S
      BY <3>1
    <3> QED BY <3>1, <3>2
  <2>3. \A s \in Lower(k - 1) : s \in Lower(k)
    BY <1>2 DEF Rank
  <2>4. ASSUME NEW s \in Lower(k) PROVE Value(f, s) \in W
    <3>1. CASE s = {}
      BY <3>1
    <3>2. CASE s # {}
      <4>1. f[s \ {Picked(s)}] \in W /\ F[Picked(s)] \in [W -> W]
        BY <2>1, <2>2, <3>2
      <4> QED BY <3>2, <4>1
    <3> QED BY <3>1, <3>2
  <2> HIDE DEF Lower
  <2>5. g \in [Lower(k) -> W]
    <3> HIDE DEF Value
    <3> QED BY <2>1, <2>4
  <2>6. ASSUME NEW s \in Lower(k) PROVE g[s] = Value(g, s)
    <3>1. g[s] = Value(f, s)
      BY <2>1 DEF Fold1
    <3>2. s # {} => g[s \ {Picked(s)}] = f[s \ {Picked(s)}]
      BY <2>2
    <3> HIDE DEF g
    <3> QED BY <3>1, <3>2
  <2>7. Fold1(g, Lower(k), v, F)
    BY <2>6 DEF Fold1
  <2> HIDE DEF g
  <2> QED BY <2>5, <2>7
<1>5. N \in T
  <2> HIDE DEF T
  <2>1. N \in 0..N
    OBVIOUS
  <2> QED BY <1>3, <1>4, <2>1, UpTo
<1>6. Lower(N) = SUBSET S
  BY <1>2 DEF Rank
<1> HIDE DEF Lower
<1> QED BY <1>5, <1>6
-----------------------------------------------------------------------------
(**********************************************)
(* The index of references after an emission. *)
(**********************************************)
\* What one payload makes of the index.
Indexing(m, u, p) == IF p.deleted THEN R!RemoveFromMap(m, u) ELSE R!SetAllRelationships(m, u, p.refs)

\* What an emission e makes of it, of which the items in s have been taken over.
Refers(m, e, s, a, b) ==
  IF a \in s THEN ~e[a].deleted /\ b \in e[a].refs ELSE b \in m.direct[a]
TakenIn(m, e, s, r) ==
  /\ r \in R!Maps /\ R!Converse(r)
  /\ \A a, b \in Item : b \in r.direct[a] => Refers(m, e, s, a, b)
  /\ \A a, b \in Item : Refers(m, e, s, a, b) /\ ~(b \in s /\ e[b].deleted) => b \in r.direct[a]

\* One more item is taken over.
LEMMA IndexingKeeps ==
  ASSUME NEW m \in R!Maps, NEW D \in SUBSET Item, NEW e \in [D -> Payload], NEW s \in SUBSET D,
         NEW r, NEW u \in D \ s, TakenIn(m, e, s, r)
  PROVE  TakenIn(m, e, s \union {u}, Indexing(r, u, e[u]))
<1> PICK n : n = Indexing(r, u, e[u])
  OBVIOUS
<1> PICK t : t = s \union {u}
  OBVIOUS
<1>1. u \in Item /\ r \in R!Maps /\ R!Converse(r) /\ e[u].refs \in SUBSET Item /\ e[u] \in Payload
  BY DEF TakenIn, Payload, Item
<1>2. n \in R!Maps /\ R!Converse(n)
  BY <1>1, SetAllKeepsConverse, RemoveKeepsConverse DEF Indexing
<1>3. CASE e[u].deleted
  <2>1. \A a, b \in Item : b \in n.direct[a] <=> a # u /\ b # u /\ b \in r.direct[a]
    BY <1>1, <1>3 DEF Indexing, R!RemoveFromMap, R!Maps, R!Converse
  <2>2. ASSUME NEW a \in Item, NEW b \in Item, b \in n.direct[a] PROVE Refers(m, e, t, a, b)
    <3>1. a # u /\ Refers(m, e, s, a, b)
      BY <2>1, <2>2 DEF TakenIn
    <3> QED BY <3>1 DEF Refers
  <2>3. ASSUME NEW a \in Item, NEW b \in Item, Refers(m, e, t, a, b), ~(b \in t /\ e[b].deleted)
        PROVE  b \in n.direct[a]
    <3>1. a # u /\ b # u
      BY <1>3, <2>3 DEF Refers
    <3>2. Refers(m, e, s, a, b) /\ ~(b \in s /\ e[b].deleted)
      BY <2>3, <3>1 DEF Refers
    <3> QED BY <2>1, <3>1, <3>2 DEF TakenIn
  <2> QED BY <1>2, <2>2, <2>3 DEF TakenIn
<1>4. CASE ~e[u].deleted
  <2>1. \A a, b \in Item : b \in n.direct[a] <=> IF a = u THEN b \in e[u].refs ELSE b \in r.direct[a]
    BY <1>1, <1>4 DEF Indexing, R!SetAllRelationships, R!Maps
  <2>2. ASSUME NEW a \in Item, NEW b \in Item, b \in n.direct[a] PROVE Refers(m, e, t, a, b)
    <3>1. a # u => Refers(m, e, s, a, b)
      BY <2>1, <2>2 DEF TakenIn
    <3> QED BY <1>4, <2>1, <2>2, <3>1 DEF Refers
  <2>3. ASSUME NEW a \in Item, NEW b \in Item, Refers(m, e, t, a, b), ~(b \in t /\ e[b].deleted)
        PROVE  b \in n.direct[a]
    <3>1. CASE a = u
      BY <2>1, <2>3, <3>1 DEF Refers
    <3>2. CASE a # u
      <4>1. Refers(m, e, s, a, b) /\ ~(b \in s /\ e[b].deleted)
        BY <2>3, <3>2 DEF Refers
      <4> QED BY <2>1, <3>2, <4>1 DEF TakenIn
    <3> QED BY <3>1, <3>2
  <2> QED BY <1>2, <2>2, <2>3 DEF TakenIn
<1> QED BY <1>3, <1>4

\* What the fold of SetReferences computes.
LEMMA SetReferencesIs ==
  ASSUME NEW m \in R!Maps, R!Converse(m), NEW D \in SUBSET Item, NEW e \in [D -> Payload]
  PROVE  TakenIn(m, e, D, SetReferences(m, e))
<1> DEFINE F == [u \in D |-> [r \in R!Maps |-> Indexing(r, u, e[u])]]
           Value(g, s) == IF s = {} THEN m ELSE Indexing(g[s \ {Picked(s)}], Picked(s), e[Picked(s)])
           Goes(g) == g = [s \in SUBSET D |-> Value(g, s)]
           taken == CHOOSE g : Goes(g)
<1>1. IsFiniteSet(D)
  BY ItemAssumption, FS_Subset
<1>2. \A u \in D : F[u] \in [R!Maps -> R!Maps]
  <2> SUFFICES ASSUME NEW u \in D, NEW r \in R!Maps PROVE Indexing(r, u, e[u]) \in R!Maps
    OBVIOUS
  <2>1. u \in Item /\ e[u].refs \in SUBSET Item
    BY DEF Payload, Item
  <2> QED BY <2>1 DEF Indexing, R!Maps, R!RemoveFromMap, R!SetAllRelationships
<1>3. PICK f \in [SUBSET D -> R!Maps] : Fold1(f, SUBSET D, m, F)
  <2> HIDE DEF F
  <2> QED BY <1>1, <1>2, FoldExists
<1>4. Goes(f)
  <2>1. ASSUME NEW s \in SUBSET D PROVE f[s] = Value(f, s)
    <3>1. s # {} => Picked(s) \in D /\ s \ {Picked(s)} \in SUBSET D
      BY DEF Picked
    <3>2. s # {} => f[s \ {Picked(s)}] \in R!Maps
      BY <3>1
    <3>3. f[s] = IF s = {} THEN m ELSE F[Picked(s)][f[s \ {Picked(s)}]]
      <4> HIDE DEF F
      <4> QED BY <1>3 DEF Fold1
    <3> QED BY <3>1, <3>2, <3>3
  <2> HIDE DEF Value
  <2> QED BY <2>1
<1>5. SetReferences(m, e) = taken[D]
  BY DEF SetReferences, FoldSet, MapThenFoldSet, Picked, Indexing
<1>6. Goes(taken)
  <2> HIDE DEF Goes
  <2> QED BY <1>4
<1> HIDE DEF taken
<1>7. \A s \in SUBSET D : taken[s] = Value(taken, s)
  <2> HIDE DEF Value
  <2> QED BY <1>6
<1>8. PICK N \in Nat : \E c : Rank(c, D, N)
  BY <1>1, Ranked
<1>9. PICK c : Rank(c, D, N)
  BY <1>8
<1> DEFINE T == {k \in 0..N : \A s \in SUBSET D : c[s] <= k => TakenIn(m, e, s, taken[s])}
<1>10. 0 \in T
  <2>1. ASSUME NEW s \in SUBSET D, c[s] <= 0 PROVE TakenIn(m, e, s, taken[s])
    <3>1. s = {}
      <4>1. c[s] \in 0..N /\ (c[s] = 0 => s = {})
        BY <1>9 DEF Rank
      <4> QED BY <2>1, <4>1
    <3>2. taken[s] = m
      BY <1>7, <3>1
    <3> QED BY <3>1, <3>2 DEF TakenIn, Refers
  <2>2. 0 \in 0..N
    OBVIOUS
  <2> QED BY <2>1, <2>2
<1>11. ASSUME NEW k \in 1..N, k - 1 \in T PROVE k \in T
  <2>1. ASSUME NEW s \in SUBSET D, c[s] <= k PROVE TakenIn(m, e, s, taken[s])
    <3>1. CASE c[s] <= k - 1
      BY <1>11, <3>1
    <3>2. CASE c[s] = k
      <4>1. /\ s # {} /\ Picked(s) \in s /\ c[s \ {Picked(s)}] = k - 1
            /\ s \ {Picked(s)} \in SUBSET D
        BY <1>9, <3>2 DEF Rank
      <4>2. TakenIn(m, e, s \ {Picked(s)}, taken[s \ {Picked(s)}])
        BY <1>11, <4>1
      <4>3. taken[s] = Indexing(taken[s \ {Picked(s)}], Picked(s), e[Picked(s)])
        BY <1>7, <4>1
      <4>4. TakenIn(m, e, (s \ {Picked(s)}) \union {Picked(s)}, taken[s])
        <5>1. Picked(s) \in D \ (s \ {Picked(s)})
          BY <4>1
        <5>2. s \ {Picked(s)} \in SUBSET D
          BY <4>1
        <5>3. TakenIn(m, e, (s \ {Picked(s)}) \union {Picked(s)},
                      Indexing(taken[s \ {Picked(s)}], Picked(s), e[Picked(s)]))
          BY <4>2, <5>1, <5>2, IndexingKeeps
        <5> QED BY <4>3, <5>3
      <4>5. (s \ {Picked(s)}) \union {Picked(s)} = s
        BY <4>1
      <4> QED BY <4>4, <4>5
    <3>3. c[s] \in 0..N
      BY <1>9 DEF Rank
    <3> QED BY <2>1, <3>1, <3>2, <3>3
  <2>2. k \in 0..N
    OBVIOUS
  <2> QED BY <2>1, <2>2
<1>12. N \in T
  <2> HIDE DEF T
  <2>1. N \in 0..N
    OBVIOUS
  <2> QED BY <1>10, <1>11, <2>1, UpTo
<1>13. c[D] <= N /\ D \in SUBSET D
  BY <1>9 DEF Rank
<1>14. TakenIn(m, e, D, taken[D])
  BY <1>12, <1>13
<1> QED BY <1>5, <1>14
-----------------------------------------------------------------------------
(******************************************************************************)
(* The invariant of the references.  Only two things are dead, that is, known *)
(* and not live: what is deleted but not yet saved, and what was discarded.   *)
(* A live item may refer to a dead one while its deletion will still drop the *)
(* reference, or if the server has sent it since.                             *)
(******************************************************************************)
Known(u) == u \in history.discarded \/ items[u] # None
Dead(u) == Known(u) /\ ~Live(u)

\* A live item a has a reference to n, which is dead: who still drops it, or why nobody does.
Owed(a, n) ==
  deletions[n].pc = "none" \/ a \in deletions[n].left \/ <<a, n>> \in history.relinked
Dropping(a, n) ==
  /\ deletions[n].pc = "await" /\ running = <<>> /\ Len(queue) = 1
  /\ queue[1].owner = n /\ a \in DOMAIN queue[1].payloads

\* The deletion of n is about to reach the collection, and knows all that refers to n.
Deleting(n) ==
  /\ Live(n) /\ deletions[n].pc = "await"
  /\ running = <<>> /\ Len(queue) = 1
  /\ DOMAIN queue[1].payloads = {n} /\ queue[1].payloads[n].deleted
  /\ \A a \in Item : Live(a) /\ n \in items[a].refs => a \in deletions[n].left

\* Only tags refer to items; what is deleted and not yet saved is a note, or the user deleted it.
Sound(u, p) ==
  (u \in Note => p.refs = {}) /\ (p.deleted => u \in Note \union Deletable \/ ~p.dirty)

Payloads == UNION {[D -> Payload] : D \in SUBSET Item}
Emitted == [payloads : Payloads, owner : Item \union {None}]
Deletion == [pc : {"none", "await", "linked", "done", "failed"}, left : SUBSET Tag]

LinkTypes ==
  /\ items \in [Item -> Payload \union {None}]
  /\ references \in R!Maps /\ R!Converse(references)
  /\ queue \in Seq(Emitted)
  /\ deletions \in [Item -> Deletion]

\* The collection keeps nothing that is deleted and saved.
Kept == \A u \in Item : items[u] # None => Sound(u, items[u]) /\ ~Discardable(items[u])

\* The index has the references of live items, all but those to dead ones.
Indexed ==
  /\ \A a, b \in Item : b \in references.direct[a] => Live(a) /\ b \in items[a].refs
  /\ \A a, b \in Item : Live(a) /\ b \in items[a].refs /\ ~Dead(b) => b \in references.direct[a]

\* Whoever refers to a dead item will drop the reference.
Links ==
  \A a, n \in Item : Live(a) /\ n \in items[a].refs /\ Dead(n) => Owed(a, n) \/ Dropping(a, n)

\* An item whose deletion has begun is dead, or is about to be.
Begun ==
  \A n \in Item : /\ deletions[n].pc # "none" => Dead(n) \/ Deleting(n)
                  /\ deletions[n].pc \in {"done", "failed"} => deletions[n].left = {}

\* What emissions that are still to reach the collection bring; only one may delete.
Coming(e) ==
  \A u \in DOMAIN e :
    /\ Sound(u, e[u])
    /\ IF e[u].deleted THEN Len(queue) = 1
       ELSE ~Dead(u) /\ \A n \in e[u].refs : Dead(n) => Owed(u, n)

\* An operation waits for the first emission only.
Emissions ==
  /\ running # <<>> => queue # <<>>
  /\ \A i \in 1..Len(queue) :
       /\ queue[i].owner # None => i = 1 /\ deletions[queue[i].owner].pc = "await"
       /\ i > Len(running) => Coming(queue[i].payloads)

LinkInv == LinkTypes /\ Kept /\ Indexed /\ Links /\ Begun /\ Emissions

-----------------------------------------------------------------------------
\* The payloads of an emission are those of its items.
LEMMA PayloadsIs ==
  /\ \A D \in SUBSET Item : [D -> Payload] \subseteq Payloads
  /\ \A e \in Payloads : DOMAIN e \in SUBSET Item /\ e \in [DOMAIN e -> Payload]
<1>1. \A D \in SUBSET Item : [D -> Payload] \subseteq Payloads
  BY DEF Payloads
<1>2. ASSUME NEW e \in Payloads PROVE DOMAIN e \in SUBSET Item /\ e \in [DOMAIN e -> Payload]
  <2>1. PICK D \in SUBSET Item : e \in [D -> Payload]
    BY <1>2 DEF Payloads
  <2>2. DOMAIN e = D
    BY <2>1
  <2> QED BY <2>1, <2>2
<1> QED BY <1>1, <1>2

\* An emission of one item.
LEMMA OnlyIs ==
  ASSUME NEW u \in Item, NEW p \in Payload
  PROVE  Only(u, p) \in Payloads /\ DOMAIN Only(u, p) = {u} /\ Only(u, p)[u] = p
<1>1. {u} \in SUBSET Item /\ Only(u, p) \in [{u} -> Payload]
  BY DEF Only
<1> QED BY <1>1, PayloadsIs DEF Only

\* Live items are not dead, and items that are neither are unknown.
LEMMA Living ==
  ASSUME LinkTypes, NEW u \in Item
  PROVE  /\ Live(u) => items[u] \in Payload /\ ~items[u].deleted /\ ~Dead(u)
         /\ items[u] # None => items[u] \in Payload
         /\ Blank \in Payload /\ Deleted \in Payload /\ [Deleted EXCEPT !.dirty = TRUE] \in Payload
         /\ None \notin Payload
<1>1. items[u] \in Payload \union {None} /\ None \notin Payload
  BY ItemAssumption DEF LinkTypes
<1>2. Blank \in Payload /\ Deleted \in Payload /\ [Deleted EXCEPT !.dirty = TRUE] \in Payload
  <2>1. PICK p : p = [Deleted EXCEPT !.dirty = TRUE]
    OBVIOUS
  <2>2. PICK d : d = Deleted
    OBVIOUS
  <2>3. d = [rank |-> 1, pinned |-> FALSE, refs |-> {}, deleted |-> TRUE, dirty |-> FALSE]
    BY <2>2 DEF Blank, Deleted
  <2>4. p = [rank |-> 1, pinned |-> FALSE, refs |-> {}, deleted |-> TRUE, dirty |-> TRUE]
    <3>1. p = [d EXCEPT !.dirty = TRUE]
      BY <2>1, <2>2
    <3> QED BY <2>3, <3>1
  <2>5. Blank \in Payload /\ d \in Payload /\ p \in Payload
    BY <2>3, <2>4 DEF Blank, Payload
  <2> QED BY <2>1, <2>2, <2>5
<1>3. Live(u) => items[u] \in Payload /\ ~items[u].deleted /\ ~Dead(u)
  BY <1>1 DEF Live, Dead, Known
<1> QED BY <1>1, <1>2, <1>3

\* The index is that of a loaded collection, where nothing is dead.
LEMMA InitLinks == Init => LinkInv
<1> SUFFICES ASSUME Init PROVE LinkInv
  OBVIOUS
<1>1. PICK loaded \in SUBSET Item : loaded = Tag \union Stored
  BY ItemAssumption DEF Item
<1>2. /\ items \in [Item -> Payload \union {None}]
      /\ \A u \in Item : items[u] = None <=> u \notin loaded
      /\ \A u \in loaded : /\ items[u] \in Payload /\ ~items[u].deleted
                           /\ u \in Note => items[u].refs = {}
                           /\ items[u].refs \subseteq Stored
  <2>1. PICK tagged \in [Tag -> SUBSET Stored] :
          items = [u \in Item |-> IF u \in Tag THEN [Blank EXCEPT !.refs = tagged[u]]
                                  ELSE IF u \in Stored THEN Blank ELSE None]
    BY DEF Init
  <2>2. /\ Blank \in Payload /\ ~Blank.deleted /\ Blank.refs = {} /\ None \notin Payload
        /\ Stored \subseteq Note
    BY ItemAssumption DEF Blank, Payload
  <2>3. \A u \in Tag : /\ [Blank EXCEPT !.refs = tagged[u]] \in Payload
                       /\ ~[Blank EXCEPT !.refs = tagged[u]].deleted
                       /\ [Blank EXCEPT !.refs = tagged[u]].refs = tagged[u]
    <3> SUFFICES ASSUME NEW u \in Tag PROVE
           /\ [Blank EXCEPT !.refs = tagged[u]] \in Payload
           /\ ~[Blank EXCEPT !.refs = tagged[u]].deleted
           /\ [Blank EXCEPT !.refs = tagged[u]].refs = tagged[u]
      OBVIOUS
    <3>1. tagged[u] \in SUBSET Note
      BY <2>2
    <3>2. PICK p : p = [Blank EXCEPT !.refs = tagged[u]]
      OBVIOUS
    <3>3. p = [rank |-> 1, pinned |-> FALSE, refs |-> tagged[u], deleted |-> FALSE, dirty |-> FALSE]
      BY <3>2 DEF Blank
    <3>4. p \in Payload /\ ~p.deleted /\ p.refs = tagged[u]
      BY <3>1, <3>3 DEF Payload
    <3> QED BY <3>4, <3>2
  <2>4. ASSUME NEW u \in Item
        PROVE  /\ items[u] \in Payload \union {None} /\ (items[u] = None <=> u \notin loaded)
               /\ u \in loaded => /\ items[u] \in Payload /\ ~items[u].deleted
                                  /\ u \in Note => items[u].refs = {}
                                  /\ items[u].refs \subseteq Stored
    <3>1. CASE u \in Tag
      <4>1. items[u] = [Blank EXCEPT !.refs = tagged[u]] /\ u \in loaded /\ u \notin Note
        BY <1>1, <2>1, <3>1, ItemAssumption DEF Item
      <4> QED BY <2>2, <2>3, <3>1, <4>1
    <3>2. CASE u \notin Tag /\ u \in Stored
      <4>1. items[u] = Blank /\ u \in loaded
        BY <1>1, <2>1, <3>2
      <4> QED BY <2>2, <4>1
    <3>3. CASE u \notin loaded
      BY <1>1, <2>1, <3>3
    <3> QED BY <1>1, <3>1, <3>2, <3>3
  <2>5. items = [u \in Item |-> items[u]]
    BY <2>1
  <2> QED BY <2>4, <2>5
<1> PICK e \in [loaded -> Payload] : e = [u \in loaded |-> items[u]]
  BY <1>2
<1>3. TakenIn(R!NewMap, e, loaded, references)
  BY <1>1, NewMapIsConverse, SetReferencesIs DEF Init
<1>4. /\ queue = <<>> /\ running = <<>> /\ deletions = [u \in Item |-> Undeleted]
      /\ history = [unannounced |-> {}, discarded |-> {}, relinked |-> {}]
  BY DEF Init
<1>5. \A u \in Item : /\ deletions[u].pc = "none" /\ (Live(u) <=> u \in loaded) /\ ~Dead(u)
  BY <1>2, <1>4 DEF Undeleted, Live, Dead, Known
<1>6. LinkTypes
  <2>1. Undeleted \in Deletion
    BY DEF Undeleted, Deletion
  <2> QED BY <1>2, <1>3, <1>4, <2>1 DEF LinkTypes, TakenIn
<1>7. Kept
  BY <1>2 DEF Kept, Sound, Discardable
<1>8. Indexed
  <2>1. \A a, b \in Item : b \in references.direct[a] =>
          Refers(R!NewMap, e, loaded, a, b)
    BY <1>3 DEF TakenIn
  <2>2. \A a, b \in Item : Refers(R!NewMap, e, loaded, a, b) <=> Live(a) /\ b \in items[a].refs
    BY <1>2, <1>5 DEF Refers, R!NewMap
  <2>3. \A a, b \in Item : Refers(R!NewMap, e, loaded, a, b) => b \in references.direct[a]
    <3>1. \A b \in loaded : ~e[b].deleted
      BY <1>2
    <3> QED BY <1>3, <3>1 DEF TakenIn
  <2> QED BY <2>1, <2>2, <2>3 DEF Indexed
<1>9. Links /\ Begun /\ Emissions
  BY <1>4, <1>5 DEF Links, Begun, Emissions
<1> QED BY <1>6, <1>7, <1>8, <1>9 DEF LinkInv

\* What changes neither the collection nor the emissions.
LEMMA StillLinked ==
  ASSUME LinkInv, UNCHANGED <<items, references, queue, deletions>>,
         Len(running') = Len(running), running' = <<>> <=> running = <<>>,
         history'.discarded = history.discarded, history'.relinked = history.relinked
  PROVE  LinkInv'
<1>1. \A u : (Live(u)' <=> Live(u)) /\ (Dead(u)' <=> Dead(u))
  BY DEF Live, Dead, Known
<1>2. \A a, n : /\ Owed(a, n)' <=> Owed(a, n)
                /\ Dropping(a, n)' <=> Dropping(a, n)
                /\ Deleting(n)' <=> Deleting(n)
  BY <1>1 DEF Owed, Dropping, Deleting
<1>3. \A e : Coming(e) => Coming(e)'
  BY <1>1, <1>2 DEF Coming
<1> QED BY <1>1, <1>2, <1>3 DEF LinkInv, LinkTypes, Kept, Indexed, Links, Begun, Emissions

\* Between emissions: dead items that a live one refers to are owed, and only they are deleted.
LEMMA WhenQuiet ==
  ASSUME LinkInv, Quiet
  PROVE  /\ \A a, n \in Item : Live(a) /\ n \in items[a].refs /\ Dead(n) => Owed(a, n)
         /\ \A n \in Item : deletions[n].pc # "none" => Dead(n)
  BY DEF LinkInv, Links, Begun, Dropping, Deleting, Quiet

\* Steps between emissions that do not touch the collection.
LEMMA QuietKeeps ==
  ASSUME LinkInv, Quiet, UNCHANGED <<items, references, queue, running, history>>,
         deletions' \in [Item -> Deletion], Begun',
         \A a, n \in Item : Live(a) /\ n \in items[a].refs /\ Dead(n) /\ Owed(a, n) => Owed(a, n)'
  PROVE  LinkInv'
<1>1. \A u : (Live(u)' <=> Live(u)) /\ (Dead(u)' <=> Dead(u))
  BY DEF Live, Dead, Known
<1>2. Links'
  BY <1>1, WhenQuiet DEF Links
<1>3. Emissions'
  BY DEF Emissions, Quiet
<1>4. LinkTypes' /\ Kept' /\ Indexed'
  BY <1>1 DEF LinkInv, LinkTypes, Kept, Indexed
<1> QED BY <1>2, <1>3, <1>4 DEF LinkInv

\* An operation emits e.
LEMMA DoesKeeps ==
  ASSUME LinkInv, NEW e \in Payloads, NEW o \in Item \union {None}, Does(e, o),
         history'.discarded = history.discarded,
         deletions' \in [Item -> Deletion], Begun',
         \A a, n \in Item : Live(a) /\ n \in items[a].refs /\ Dead(n) /\ Owed(a, n) =>
                              Owed(a, n)' \/ Dropping(a, n)',
         o # None => deletions'[o].pc = "await",
         \A u \in DOMAIN e :
           /\ Sound(u, e[u])
           /\ ~e[u].deleted => ~Dead(u) /\ \A n \in e[u].refs : Dead(n) => Owed(u, n)'
  PROVE  LinkInv'
<1>1. /\ Quiet /\ UNCHANGED <<items, references, running>>
      /\ queue' = <<[payloads |-> e, owner |-> o]>>
  BY DEF Does, Emit, Quiet
<1>2. \A u : (Live(u)' <=> Live(u)) /\ (Dead(u)' <=> Dead(u))
  BY <1>1 DEF Live, Dead, Known
<1>3. Links'
  BY <1>1, <1>2, WhenQuiet DEF Links
<1>4. Len(queue') = 1 /\ queue'[1].payloads = e /\ queue'[1].owner = o /\ queue' # <<>>
  BY <1>1
<1>5. Coming(e)'
  BY <1>2, <1>4 DEF Coming
<1>6. Emissions'
  BY <1>4, <1>5 DEF Emissions
<1>7. LinkTypes'
  <2>1. queue' \in Seq(Emitted)
    BY <1>1 DEF Emitted
  <2> QED BY <1>1, <2>1 DEF LinkInv, LinkTypes
<1>8. Kept' /\ Indexed'
  BY <1>1, <1>2 DEF LinkInv, Kept, Indexed
<1> QED BY <1>3, <1>6, <1>7, <1>8 DEF LinkInv

\* Most emit without an effect on what is being deleted.
LEMMA EmitKeeps ==
  ASSUME LinkInv, NEW e \in Payloads, Does(e, None), deletions' = deletions,
         history'.discarded = history.discarded, history.relinked \subseteq history'.relinked,
         \A u \in DOMAIN e :
           /\ Sound(u, e[u])
           /\ ~e[u].deleted => ~Dead(u) /\ \A n \in e[u].refs : Dead(n) => Owed(u, n)'
  PROVE  LinkInv'
<1>1. Quiet /\ UNCHANGED <<items>>
  BY DEF Does
<1>2. \A u : Dead(u)' <=> Dead(u)
  BY <1>1 DEF Live, Dead, Known
<1>3. Begun'
  BY <1>1, <1>2, WhenQuiet DEF Begun, LinkInv
<1>4. \A a, n : Owed(a, n) => Owed(a, n)'
  BY DEF Owed
<1>5. deletions' \in [Item -> Deletion]
  BY DEF LinkInv, LinkTypes
<1> QED BY <1>3, <1>4, <1>5, DoesKeeps

\* What a change makes of an item.
LEMMA ChangedIs ==
  ASSUME LinkInv, NEW u \in Item, Live(u), NEW p \in Changed(u)
  PROVE  /\ p \in Payload /\ Sound(u, p) /\ ~p.deleted
         /\ \A n \in p.refs : n \in Item /\ (n \in items[u].refs \/ Live(n))
<1>1. items[u] \in Payload /\ ~items[u].deleted /\ Sound(u, items[u])
  BY Living DEF LinkInv, Kept
<1>2. PICK q : q = items[u]
  OBVIOUS
<1>3. q \in Payload /\ ~q.deleted /\ (u \in Note => q.refs = {})
  BY <1>1, <1>2 DEF Sound
<1>4. \/ p = [[q EXCEPT !.dirty = TRUE] EXCEPT !.rank = 3 - @]
      \/ p = [[q EXCEPT !.dirty = TRUE] EXCEPT !.pinned = ~@]
      \/ /\ u \in Tag
         /\ \E n \in Note : Live(n) /\ p = [[q EXCEPT !.dirty = TRUE] EXCEPT !.refs = @ \union {n}]
      \/ \E n \in q.refs : p = [[q EXCEPT !.dirty = TRUE] EXCEPT !.refs = @ \ {n}]
  BY <1>2 DEF Changed
<1>5. /\ p \in Payload /\ ~p.deleted
      /\ \A n \in p.refs : n \in q.refs \/ (u \in Tag /\ Live(n))
  <2>1. PICK d : d = [q EXCEPT !.dirty = TRUE]
    OBVIOUS
  <2>2. d \in Payload /\ ~d.deleted /\ d.refs = q.refs /\ d.rank \in 1..2
    BY <1>3, <2>1 DEF Payload
  <2>3. \/ p = [d EXCEPT !.rank = 3 - @]
        \/ p = [d EXCEPT !.pinned = ~@]
        \/ u \in Tag /\ \E n \in Note : Live(n) /\ p = [d EXCEPT !.refs = @ \union {n}]
        \/ \E n \in q.refs : p = [d EXCEPT !.refs = @ \ {n}]
    BY <1>4, <2>1
  <2>4. CASE p = [d EXCEPT !.rank = 3 - @]
    <3>1. 3 - d.rank \in 1..2
      BY <2>2
    <3>2. p \in Payload /\ ~p.deleted /\ p.refs = q.refs
      BY <2>2, <2>4, <3>1 DEF Payload
    <3> QED BY <3>2
  <2>5. CASE p = [d EXCEPT !.pinned = ~@]
    <3>1. (~d.pinned) \in BOOLEAN
      OBVIOUS
    <3>2. p \in Payload /\ ~p.deleted /\ p.refs = q.refs
      BY <2>2, <2>5, <3>1 DEF Payload
    <3> QED BY <3>2
  <2>6. ASSUME NEW n \in Note, u \in Tag, Live(n), p = [d EXCEPT !.refs = @ \union {n}]
        PROVE  /\ p \in Payload /\ ~p.deleted
               /\ \A m \in p.refs : m \in q.refs \/ (u \in Tag /\ Live(m))
    <3>1. p \in Payload /\ ~p.deleted /\ p.refs = q.refs \union {n}
      BY <2>2, <2>6 DEF Payload
    <3> QED BY <2>6, <3>1
  <2>7. ASSUME NEW n \in q.refs, p = [d EXCEPT !.refs = @ \ {n}]
        PROVE  /\ p \in Payload /\ ~p.deleted
               /\ \A m \in p.refs : m \in q.refs \/ (u \in Tag /\ Live(m))
    <3>1. p \in Payload /\ ~p.deleted /\ p.refs = q.refs \ {n}
      BY <2>2, <2>7 DEF Payload
    <3> QED BY <3>1
  <2> QED BY <2>3, <2>4, <2>5, <2>6, <2>7
<1>6. Note \intersect Tag = {} /\ p.refs \in SUBSET Item
  BY <1>5, ItemAssumption DEF Payload, Item
<1> QED BY <1>3, <1>5, <1>6, <1>2 DEF Sound

\* A changed item refers to what it referred to, and to what is live.
LEMMA ChangeItemLinks == ASSUME LinkInv, NEW u \in Item, ChangeItem(u) PROVE LinkInv'
<1>1. PICK p \in Changed(u) : Does(Only(u, p), None)
  BY DEF ChangeItem
<1>2. Live(u) /\ Quiet /\ UNCHANGED <<deletions, history>>
  BY <1>1 DEF ChangeItem, Does
<1>3. /\ p \in Payload /\ Sound(u, p) /\ ~p.deleted
      /\ \A n \in p.refs : n \in Item /\ (n \in items[u].refs \/ Live(n))
  BY <1>2, ChangedIs
<1>4. \A n \in p.refs : Dead(n) => Owed(u, n)'
  BY <1>2, <1>3, WhenQuiet DEF Dead, Owed
<1>5. ~Dead(u)
  BY <1>2 DEF Dead
<1>6. Only(u, p) \in Payloads /\ DOMAIN Only(u, p) = {u} /\ Only(u, p)[u] = p
  BY <1>3, OnlyIs
<1> QED BY <1>1, <1>2, <1>3, <1>4, <1>5, <1>6, EmitKeeps

\* A new item refers to nothing.
LEMMA CreateItemLinks == ASSUME LinkInv, NEW n \in Note, CreateItem(n) PROVE LinkInv'
<1>1. PICK p : p = [Blank EXCEPT !.dirty = TRUE]
  OBVIOUS
<1>2. Does(Only(n, p), None) /\ UNCHANGED <<deletions, history>> /\ ~Dead(n) /\ n \in Item
  BY <1>1 DEF CreateItem, Dead, Known, Item
<1>3. p = [rank |-> 1, pinned |-> FALSE, refs |-> {}, deleted |-> FALSE, dirty |-> TRUE]
  BY <1>1 DEF Blank
<1>4. p \in Payload /\ p.refs = {} /\ ~p.deleted
  BY <1>3 DEF Payload
<1>5. Sound(n, p)
  BY <1>4 DEF Sound
<1>6. Only(n, p) \in Payloads /\ DOMAIN Only(n, p) = {n} /\ Only(n, p)[n] = p
  BY <1>2, <1>4, OnlyIs
<1> QED BY <1>2, <1>4, <1>5, <1>6, EmitKeeps

\* What refers to an item that is not dead is a tag, and in the index.
LEMMA Referring ==
  ASSUME LinkInv, NEW n \in Item
  PROVE  /\ \A u \in references.inverse[n] :
              u \in Item /\ u \in Tag /\ Live(u) /\ n \in items[u].refs
         /\ ~Dead(n) => \A u \in Item : Live(u) /\ n \in items[u].refs => u \in references.inverse[n]
<1>1. ASSUME NEW u \in references.inverse[n] PROVE u \in Item /\ n \in references.direct[u]
  BY DEF LinkInv, LinkTypes, R!Maps, R!Converse
<1>2. \A u \in Item : Live(u) /\ n \in items[u].refs => u \in Tag
  BY DEF LinkInv, Kept, Sound, Live, Item
<1>3. \A u \in references.inverse[n] : u \in Item /\ u \in Tag /\ Live(u) /\ n \in items[u].refs
  BY <1>1, <1>2 DEF LinkInv, Indexed
<1>4. ~Dead(n) => \A u \in Item : Live(u) /\ n \in items[u].refs => u \in references.inverse[n]
  BY DEF LinkInv, Indexed, LinkTypes, R!Maps, R!Converse
<1> QED BY <1>3, <1>4

\* What refers to the item now refers to a copy that is live.
LEMMA CopyItemLinks ==
  ASSUME LinkInv, NEW n \in Note, NEW copy \in Note, NEW alternates \in BOOLEAN,
         CopyItem(n, copy, alternates)
  PROVE  LinkInv'
<1>1. PICK referring : referring = {u \in references.inverse[n] : items[u] # None}
  OBVIOUS
<1>2. PICK removed : removed = IF alternates THEN {n} ELSE {}
  OBVIOUS
<1> DEFINE Moved(u) == [items[u] EXCEPT !.refs = (@ \union {copy}) \ removed, !.dirty = TRUE]
<1>3. PICK e : e = [u \in referring \union {copy} \union removed |->
                      IF u = copy THEN [items[n] EXCEPT !.dirty = TRUE]
                      ELSE IF u = n THEN Deleted ELSE Moved(u)]
  OBVIOUS
<1>4. /\ Live(n) /\ items[copy] = None /\ copy \notin history.discarded
      /\ Does(e, None) /\ UNCHANGED <<deletions, history>>
  BY <1>1, <1>2, <1>3 DEF CopyItem
<1>5. n \in Item /\ copy \in Item /\ ~Dead(copy) /\ Quiet
  BY <1>4 DEF Dead, Known, Item, Does
<1>6. DOMAIN e \in SUBSET Item /\ \A u \in DOMAIN e : u \in {copy, n} \/ u \in referring
  BY <1>1, <1>2, <1>3, <1>5, Referring
<1>7. ASSUME NEW u \in DOMAIN e
      PROVE  /\ e[u] \in Payload /\ Sound(u, e[u])
             /\ ~e[u].deleted => ~Dead(u) /\ \A m \in e[u].refs : Dead(m) => Owed(u, m)'
  <2>1. CASE u = copy
    <3> PICK q, p : q = items[n] /\ p = [q EXCEPT !.dirty = TRUE]
      OBVIOUS
    <3>1. e[u] = p
      BY <1>3, <2>1
    <3>2. q \in Payload /\ ~q.deleted /\ q.refs = {}
      BY <1>4, <1>5, Living DEF LinkInv, Kept, Sound
    <3>3. p \in Payload /\ ~p.deleted /\ p.refs = {}
      BY <3>2 DEF Payload
    <3> QED BY <1>5, <2>1, <3>1, <3>3 DEF Sound
  <2>2. CASE u = n /\ u # copy
    <3>1. e[u] = Deleted
      BY <1>3, <2>2
    <3>2. Deleted \in Payload /\ Deleted.refs = {} /\ Deleted.deleted
      BY <1>5, Living DEF LinkInv, Deleted, Blank
    <3> QED BY <2>2, <3>1, <3>2 DEF Sound
  <2>3. CASE u \notin {n, copy}
    <3> PICK q, p :
          q = items[u] /\ p = [q EXCEPT !.refs = (@ \union {copy}) \ removed, !.dirty = TRUE]
      OBVIOUS
    <3>1. e[u] = p
      BY <1>3, <2>3
    <3>2. u \in Item /\ u \in Tag /\ Live(u)
      BY <1>1, <1>5, <1>6, <2>3, Referring
    <3>3. q \in Payload /\ ~q.deleted
      BY <3>2, Living DEF LinkInv
    <3>4. p \in Payload /\ ~p.deleted /\ p.refs = (q.refs \union {copy}) \ removed
      BY <3>3 DEF Payload
    <3>5. Sound(u, p)
      BY <3>2, <3>4, ItemAssumption DEF Sound
    <3>6. ASSUME NEW m \in p.refs, Dead(m) PROVE Owed(u, m)'
      <4>1. m \in q.refs /\ m \in Item
        BY <1>5, <3>3, <3>4, <3>6 DEF Payload, Item
      <4> QED BY <1>4, <1>5, <3>2, <3>6, <4>1, WhenQuiet DEF Owed
    <3>7. ~Dead(u)
      BY <3>2 DEF Dead
    <3> QED BY <3>1, <3>4, <3>5, <3>6, <3>7
  <2> QED BY <2>1, <2>2, <2>3
<1>8. e \in Payloads
  <2>1. e = [u \in DOMAIN e |-> e[u]]
    BY <1>3
  <2>2. e \in [DOMAIN e -> Payload]
    BY <1>7, <2>1
  <2> QED BY <1>6, <2>2, PayloadsIs
<1> QED BY <1>4, <1>7, <1>8, EmitKeeps

\* What was saved is as it was, or is discarded.
LEMMA SavedLinks == ASSUME LinkInv, NEW u \in Item, Saved(u) PROVE LinkInv'
<1>1. PICK q : q = items[u]
  OBVIOUS
<1>2. PICK p : p = [q EXCEPT !.dirty = FALSE]
  OBVIOUS
<1>3. Does(Only(u, p), None) /\ UNCHANGED <<deletions, history>> /\ q # None /\ Quiet
  BY <1>1, <1>2 DEF Saved, Does
<1>4. q \in Payload /\ Sound(u, q)
  BY <1>1, <1>3, Living DEF LinkInv, Kept
<1>5. p \in Payload /\ p.refs = q.refs /\ (p.deleted <=> q.deleted) /\ ~p.dirty
  BY <1>2, <1>4 DEF Payload
<1>6. Sound(u, p)
  BY <1>4, <1>5 DEF Sound
<1>7. ~p.deleted => Live(u) /\ ~Dead(u)
  BY <1>1, <1>3, <1>5 DEF Live, Dead
<1>8. ASSUME ~p.deleted, NEW n \in p.refs, Dead(n) PROVE Owed(u, n)'
  <2>1. n \in Item
    BY <1>4, <1>5 DEF Payload, Item
  <2> QED BY <1>1, <1>3, <1>5, <1>7, <1>8, <2>1, WhenQuiet DEF Owed
<1>9. Only(u, p) \in Payloads /\ DOMAIN Only(u, p) = {u} /\ Only(u, p)[u] = p
  BY <1>5, OnlyIs
<1> QED BY <1>3, <1>6, <1>7, <1>8, <1>9, EmitKeeps

\* What the server sends does not revive what was discarded.
LEMMA RetrieveLinks ==
  ASSUME Records, LinkInv, ~Restores, NEW u \in Item, Retrieve(u)
  PROVE  LinkInv'
<1>1. Quiet /\ deletions' = deletions
  BY DEF Retrieve, Does
<1>2. CASE Does(Only(u, Deleted), None) /\ UNCHANGED history
  <2>1. Deleted \in Payload /\ Deleted.refs = {} /\ Deleted.deleted /\ ~Deleted.dirty
    BY Living DEF LinkInv, Deleted, Blank
  <2>2. Sound(u, Deleted)
    BY <2>1 DEF Sound
  <2>3. /\ Only(u, Deleted) \in Payloads
        /\ DOMAIN Only(u, Deleted) = {u} /\ Only(u, Deleted)[u] = Deleted
    BY <2>1, OnlyIs
  <2> QED BY <1>1, <1>2, <2>1, <2>2, <2>3, EmitKeeps
<1>3. ASSUME NEW refs \in IF u \in Tag THEN SUBSET Note ELSE {{}},
             Does(Only(u, [Blank EXCEPT !.rank = 2, !.refs = refs]), None),
             history' = [history EXCEPT !.relinked = @ \union {<<u, n>> : n \in refs \intersect
               {n \in Note : ~Live(n) /\ (n \in history.discarded \/ items[n] # None)}}]
      PROVE  LinkInv'
  <2>1. PICK p : p = [Blank EXCEPT !.rank = 2, !.refs = refs]
    OBVIOUS
  <2>2. p = [rank |-> 2, pinned |-> FALSE, refs |-> refs, deleted |-> FALSE, dirty |-> FALSE]
    BY <2>1 DEF Blank
  <2>3. /\ p \in Payload /\ p.refs = refs /\ ~p.deleted
        /\ refs \subseteq Note /\ (u \notin Tag => refs = {})
    BY <2>2 DEF Payload
  <2>4. Sound(u, p)
    BY <2>3, ItemAssumption DEF Sound
  <2>5. ~Dead(u)
    BY DEF Retrieve, Dead, Known, Live, LinkInv, Kept, Discardable
  <2>6. /\ history'.discarded = history.discarded /\ history.relinked \subseteq history'.relinked
        /\ \A n \in refs : Dead(n) => <<u, n>> \in history'.relinked
    BY <1>3, <2>3 DEF Records, Dead, Known
  <2>7. \A n \in p.refs : Dead(n) => Owed(u, n)'
    BY <2>3, <2>6 DEF Owed
  <2>8. Only(u, p) \in Payloads /\ DOMAIN Only(u, p) = {u} /\ Only(u, p)[u] = p
    BY <2>3, OnlyIs
  <2>9. Does(Only(u, p), None)
    BY <1>3, <2>1
  <2> QED BY <1>1, <2>3, <2>4, <2>5, <2>6, <2>7, <2>8, <2>9, EmitKeeps
<1> QED BY <1>2, <1>3 DEF Retrieve

\* The index knows all that refers to an item that is still live.
LEMMA SetItemToBeDeletedLinks ==
  ASSUME LinkInv, NEW u \in Deletable, SetItemToBeDeleted(u)
  PROVE  LinkInv'
<1>1. PICK p : p = [Deleted EXCEPT !.dirty = TRUE]
  OBVIOUS
<1>2. PICK owing : owing = references.inverse[u]
  OBVIOUS
<1>3. /\ Live(u) /\ Does(Only(u, p), u) /\ history' = history
      /\ deletions' = [deletions EXCEPT ![u] = [pc |-> "await", left |-> owing]]
  BY <1>1, <1>2 DEF SetItemToBeDeleted
<1>4. u \in Item /\ ~Dead(u) /\ Quiet /\ UNCHANGED <<items, running>>
  BY <1>3, ItemAssumption DEF Dead, Does
<1>5. /\ p \in Payload /\ p.refs = {} /\ p.deleted
      /\ \A x : x = u => Sound(x, p)
  <2>1. PICK d : d = Deleted
    OBVIOUS
  <2>2. d \in Payload /\ d.refs = {} /\ d.deleted
    BY <1>4, <2>1, Living DEF LinkInv, Deleted, Blank
  <2>3. p = [d EXCEPT !.dirty = TRUE]
    BY <1>1, <2>1
  <2>4. p \in Payload /\ p.refs = {} /\ p.deleted
    BY <2>2, <2>3 DEF Payload
  <2> QED BY <2>4 DEF Sound
<1>6. Only(u, p) \in Payloads /\ DOMAIN Only(u, p) = {u} /\ Only(u, p)[u] = p
  BY <1>4, <1>5, OnlyIs
<1>7. owing \in SUBSET Tag /\ \A a \in Item : Live(a) /\ u \in items[a].refs => a \in owing
  BY <1>2, <1>4, Referring
<1>8. /\ deletions' \in [Item -> Deletion]
      /\ deletions'[u].pc = "await" /\ deletions'[u].left = owing
      /\ \A n \in Item \ {u} : deletions'[n] = deletions[n]
  <2>1. [pc |-> "await", left |-> owing] \in Deletion
    BY <1>7 DEF Deletion
  <2> QED BY <1>3, <1>4, <2>1 DEF LinkInv, LinkTypes
<1>9. \A n : (Live(n)' <=> Live(n)) /\ (Dead(n)' <=> Dead(n))
  BY <1>3, <1>4 DEF Live, Dead, Known
<1>10. Deleting(u)'
  <2>1. queue' = <<[payloads |-> Only(u, p), owner |-> u]>> /\ running' = <<>>
    BY <1>3 DEF Does, Emit, Quiet
  <2> QED BY <1>3, <1>4, <1>5, <1>6, <1>7, <1>8, <1>9, <2>1 DEF Deleting
<1>11. Begun'
  <2>1. \A n \in Item \ {u} : deletions'[n].pc # "none" => Dead(n)'
    BY <1>4, <1>8, <1>9, WhenQuiet
  <2> QED BY <1>8, <1>10, <2>1 DEF Begun, LinkInv
<1>12. \A a, n \in Item : Dead(n) /\ Owed(a, n) => Owed(a, n)'
  BY <1>3, <1>4, <1>8 DEF Owed
<1> QED BY <1>3, <1>4, <1>5, <1>6, <1>8, <1>11, <1>12, DoesKeeps

\* Nothing is left to drop the reference.
LEMMA LinkedLinks == ASSUME LinkInv, NEW u \in Item, Linked(u) PROVE LinkInv'
<1>1. /\ Quiet /\ UNCHANGED <<items, references, queue, running, history>>
      /\ deletions[u].pc = "linked" /\ deletions[u].left = {}
      /\ deletions' = [deletions EXCEPT ![u].pc = "done"]
  BY DEF Linked, Captured
<1>2. /\ deletions' \in [Item -> Deletion]
      /\ \A n \in Item : /\ deletions'[n].left = deletions[n].left
                         /\ n # u => deletions'[n] = deletions[n]
      /\ deletions'[u].pc = "done"
  <2>1. PICK d : d = deletions[u]
    OBVIOUS
  <2>2. d \in Deletion /\ deletions' = [deletions EXCEPT ![u] = [d EXCEPT !.pc = "done"]]
    BY <1>1, <2>1 DEF LinkInv, LinkTypes
  <2>3. PICK k : k = [d EXCEPT !.pc = "done"]
    OBVIOUS
  <2>4. k \in Deletion /\ k.pc = "done" /\ k.left = d.left
    BY <2>2, <2>3 DEF Deletion
  <2>5. deletions' = [deletions EXCEPT ![u] = k]
    BY <2>2, <2>3
  <2> QED BY <2>1, <2>4, <2>5 DEF LinkInv, LinkTypes
<1>3. \A a, n \in Item : Owed(a, n) => Owed(a, n)'
  BY <1>1, <1>2 DEF Owed
<1>4. \A n : Dead(n)' <=> Dead(n)
  BY <1>1 DEF Live, Dead, Known
<1>5. Begun'
  BY <1>1, <1>2, <1>4, WhenQuiet DEF Begun, LinkInv
<1> QED BY <1>1, <1>2, <1>3, <1>5, QuietKeeps

\* If the user deletes a tag, there is no other tag.  Else the deletion of a note ends with an error
\* at the tag that is deleted, perhaps before it has reached the others.
OneReferrer == \A t \in Deletable \intersect Tag, s \in Tag : s = t

\* One item less has the reference, or the deletion ends.
LEMMA DropReferenceLinks ==
  ASSUME OneReferrer, LinkInv, NEW u \in Item, NEW a \in Item, DropReference(u, a)
  PROVE  LinkInv'
<1>1. PICK d : d = deletions[u]
  OBVIOUS
<1>2. d \in Deletion /\ d.pc = "linked" /\ a \in d.left /\ a \in Tag /\ history' = history
  BY <1>1 DEF LinkInv, LinkTypes, DropReference, Captured, Deletion
<1>3. ASSUME NEW k \in Deletion, deletions' = [deletions EXCEPT ![u] = k]
      PROVE  /\ deletions' \in [Item -> Deletion] /\ deletions'[u] = k
             /\ \A n \in Item \ {u} : deletions'[n] = deletions[n]
  BY <1>3 DEF LinkInv, LinkTypes
<1>4. ASSUME Quiet, UNCHANGED <<items, references, queue, running>>,
             NEW k \in Deletion, deletions' = [deletions EXCEPT ![u] = k],
             k.pc = "linked" \/ k.left = {},
             \A b \in Item : Live(b) /\ u \in items[b].refs /\ b \in d.left => b \in k.left
      PROVE  LinkInv'
  <2>1. /\ deletions' \in [Item -> Deletion] /\ deletions'[u] = k
        /\ \A n \in Item \ {u} : deletions'[n] = deletions[n]
    BY <1>3, <1>4
  <2>2. \A n : Dead(n)' <=> Dead(n)
    BY <1>2, <1>4 DEF Live, Dead, Known
  <2>3. Dead(u) /\ \A n \in Item : deletions[n].pc # "none" => Dead(n)
    BY <1>1, <1>2, <1>4, WhenQuiet
  <2>4. Begun'
    BY <1>4, <2>1, <2>2, <2>3 DEF Begun, LinkInv
  <2>5. ASSUME NEW b \in Item, NEW n \in Item, Live(b), n \in items[b].refs, Owed(b, n)
        PROVE  Owed(b, n)'
    BY <1>1, <1>2, <1>4, <2>1, <2>5 DEF Owed
  <2> QED BY <1>2, <1>4, <2>1, <2>4, <2>5, QuietKeeps
<1>5. ASSUME items[a] = None, Quiet, UNCHANGED <<items, references, queue, running>>,
             deletions' = [deletions EXCEPT ![u].left = @ \ {a}]
      PROVE  LinkInv'
  <2>1. PICK k : k = [d EXCEPT !.left = @ \ {a}]
    OBVIOUS
  <2>2. k \in Deletion /\ k.pc = "linked" /\ k.left = d.left \ {a}
    BY <1>2, <2>1 DEF Deletion
  <2>3. deletions' = [deletions EXCEPT ![u] = k]
    BY <1>1, <1>5, <2>1
  <2>4. ~Live(a)
    BY <1>5 DEF Live
  <2> QED BY <1>4, <1>5, <2>2, <2>3, <2>4
<1>6. ASSUME items[a] # None, items[a].deleted,
             Quiet, UNCHANGED <<items, references, queue, running>>,
             deletions' = [deletions EXCEPT ![u] = [pc |-> "failed", left |-> {}]]
      PROVE  LinkInv'
  <2>1. a \in Deletable
    BY <1>2, <1>6, ItemAssumption DEF LinkInv, Kept, Sound, Discardable
  <2>2. ASSUME NEW b \in Item, Live(b), u \in items[b].refs PROVE FALSE
    <3>1. b \in Tag
      BY <2>2 DEF LinkInv, Kept, Sound, Live, Item
    <3>2. b = a
      BY <1>2, <2>1, <3>1 DEF OneReferrer
    <3> QED BY <1>6, <2>2, <3>2 DEF Live
  <2>3. [pc |-> "failed", left |-> {}] \in Deletion
    BY DEF Deletion
  <2>4. PICK k : k = [pc |-> "failed", left |-> {}]
    OBVIOUS
  <2> QED BY <1>4, <1>6, <2>2, <2>3, <2>4
<1>7. ASSUME Live(a), Does(Only(a, [items[a] EXCEPT !.refs = @ \ {u}, !.dirty = TRUE]), u),
             deletions' = [deletions EXCEPT ![u] = [pc |-> "await", left |-> @.left \ {a}]]
      PROVE  LinkInv'
  <2>1. PICK q : q = items[a]
    OBVIOUS
  <2>2. PICK p : p = [q EXCEPT !.refs = @ \ {u}, !.dirty = TRUE]
    OBVIOUS
  <2>3. q \in Payload /\ ~q.deleted
    BY <1>7, <2>1, Living DEF LinkInv
  <2>4. p \in Payload /\ ~p.deleted /\ p.refs = q.refs \ {u}
    BY <2>2, <2>3 DEF Payload
  <2>5. Sound(a, p)
    BY <1>2, <2>4, ItemAssumption DEF Sound
  <2>6. Does(Only(a, p), u) /\ Quiet /\ UNCHANGED <<items, running>>
    BY <1>7, <2>1, <2>2 DEF Does
  <2>7. Only(a, p) \in Payloads /\ DOMAIN Only(a, p) = {a} /\ Only(a, p)[a] = p
    BY <2>4, OnlyIs
  <2>8. PICK k : k = [pc |-> "await", left |-> d.left \ {a}]
    OBVIOUS
  <2>9. k \in Deletion /\ k.pc = "await" /\ k.left = d.left \ {a}
    BY <1>2, <2>8 DEF Deletion
  <2>10. deletions' = [deletions EXCEPT ![u] = k]
    BY <1>1, <1>7, <2>8
  <2>11. /\ deletions' \in [Item -> Deletion] /\ deletions'[u] = k
         /\ \A n \in Item \ {u} : deletions'[n] = deletions[n]
    BY <1>3, <2>9, <2>10
  <2>12. \A n : Dead(n)' <=> Dead(n)
    BY <1>2, <2>6 DEF Live, Dead, Known
  <2>13. Dead(u) /\ \A n \in Item : deletions[n].pc # "none" => Dead(n)
    BY <1>1, <1>2, <2>6, WhenQuiet
  <2>14. Begun'
    BY <2>9, <2>11, <2>12, <2>13 DEF Begun, LinkInv
  <2>15. /\ queue' = <<[payloads |-> Only(a, p), owner |-> u]>> /\ running' = <<>>
    BY <2>6 DEF Does, Emit, Quiet
  <2>16. Dropping(a, u)'
    BY <2>7, <2>9, <2>11, <2>15 DEF Dropping
  <2>17. ASSUME NEW b \in Item, NEW n \in Item, Owed(b, n) PROVE Owed(b, n)' \/ Dropping(b, n)'
    BY <1>1, <1>2, <2>9, <2>11, <2>16, <2>17 DEF Owed
  <2>18. ASSUME NEW n \in p.refs, Dead(n) PROVE Owed(a, n)'
    <3>1. n \in Item /\ n # u /\ n \in items[a].refs
      BY <2>1, <2>3, <2>4 DEF Payload, Item
    <3>2. Owed(a, n)
      BY <1>7, <2>6, <2>18, <3>1, WhenQuiet
    <3> QED BY <1>2, <2>11, <3>1, <3>2 DEF Owed
  <2>19. ~Dead(a) /\ u # None
    BY <1>7, ItemAssumption DEF Dead
  <2> QED BY <1>2, <2>4, <2>5, <2>6, <2>7, <2>9, <2>11, <2>14, <2>17, <2>18, <2>19, DoesKeeps
<1> QED BY <1>5, <1>6, <1>7 DEF DropReference

\* Nothing deletes what is live, between emissions.
LEMMA RemoveItemLocallyLinks ==
  ASSUME Records, LinkInv, NEW u \in Item, RemoveItemLocally(u)
  PROVE  LinkInv'
<1>1. /\ Quiet /\ Live(u) /\ UNCHANGED <<queue, running, deletions>>
      /\ items' = [items EXCEPT ![u] = None] /\ references' = R!RemoveFromMap(references, u)
      /\ history'.discarded = history.discarded \union {u}
      /\ history'.relinked = history.relinked
  BY DEF RemoveItemLocally, Records
<1>2. /\ items' \in [Item -> Payload \union {None}] /\ items'[u] = None
      /\ \A x \in Item \ {u} : items'[x] = items[x]
  BY <1>1 DEF LinkInv, LinkTypes
<1>3. \A x \in Item \ {u} : (Live(x)' <=> Live(x)) /\ (Dead(x)' <=> Dead(x))
  BY <1>1, <1>2 DEF Live, Dead, Known
<1>4. ~Live(u)' /\ Dead(u)' /\ ~Dead(u) /\ deletions[u].pc = "none"
  BY <1>1, <1>2, WhenQuiet DEF Live, Dead, Known
<1>5. /\ references' \in R!Maps /\ R!Converse(references')
      /\ \A a, b \in Item : b \in references'.direct[a] <=> a # u /\ b # u /\ b \in references.direct[a]
  <2>1. references \in R!Maps /\ R!Converse(references)
    BY DEF LinkInv, LinkTypes
  <2>2. references' \in R!Maps /\ R!Converse(references')
    BY <1>1, <2>1, RemoveKeepsConverse
  <2>3. \A a, b \in Item : b \in references'.direct[a] <=> a # u /\ b # u /\ b \in references.direct[a]
    BY <1>1, <2>1 DEF R!RemoveFromMap, R!Maps, R!Converse
  <2> QED BY <2>2, <2>3
<1>6. LinkTypes'
  BY <1>1, <1>2, <1>5 DEF LinkInv, LinkTypes
<1>7. Kept'
  BY <1>2 DEF LinkInv, Kept
<1>8. Indexed'
  BY <1>2, <1>3, <1>4, <1>5 DEF LinkInv, Indexed
<1>9. Links'
  BY <1>1, <1>2, <1>3, <1>4, WhenQuiet DEF Links, Owed
<1>10. Begun'
  BY <1>1, <1>3, <1>4, WhenQuiet DEF Begun, LinkInv
<1>11. Emissions'
  BY <1>1 DEF Emissions, Quiet
<1> QED BY <1>6, <1>7, <1>8, <1>9, <1>10, <1>11 DEF LinkInv

\* What is queued.
LEMMA QueueIs ==
  ASSUME LinkInv
  PROVE  /\ queue \in Seq(Emitted) /\ Len(queue) \in Nat /\ (queue # <<>> => Len(queue) >= 1)
         /\ \A i \in 1..Len(queue) :
              queue[i].payloads \in Payloads /\ queue[i].owner \in Item \union {None}
<1>1. queue \in Seq(Emitted)
  BY DEF LinkInv, LinkTypes
<1>2. \A i \in 1..Len(queue) : queue[i] \in Emitted
  BY <1>1
<1>3. Len(queue) \in Nat /\ (queue # <<>> => Len(queue) >= 1)
  BY <1>1
<1> QED BY <1>1, <1>2, <1>3 DEF Emitted

\* The collection and its index take an emission over.
LEMMA PopQueueLinks == ASSUME StreamInv, LinkInv, PopQueue PROVE LinkInv'
<1>1. PICK e : e = queue[1].payloads
  OBVIOUS
<1>2. PICK D : D = DOMAIN e
  OBVIOUS
<1>3. running = <<>> /\ queue # <<>> /\ Len(running) = 0
  BY DEF PopQueue, MayPop
<1>4. e \in Payloads /\ Len(queue) >= 1 /\ Len(queue) \in Nat
  BY <1>1, <1>3, QueueIs
<1>5. D \in SUBSET Item /\ e \in [D -> Payload]
  BY <1>2, <1>4, PayloadsIs
<1>6. Coming(e)
  BY <1>1, <1>3, <1>4 DEF LinkInv, Emissions
<1>7. /\ items' = [u \in Item |-> IF u \in D /\ ~Discardable(e[u]) THEN e[u]
                                  ELSE IF u \in D THEN None ELSE items[u]]
      /\ references' = SetReferences(references, e)
      /\ UNCHANGED <<queue, deletions>> /\ running' # <<>> /\ Len(running') = 1
      /\ history'.relinked = history.relinked
      /\ history'.discarded = history.discarded \union {u \in D : Discardable(e[u])}
  <2>1. history' = [history EXCEPT !.unannounced = @ \ D,
                                   !.discarded = @ \union (D \ {u \in D : ~Discardable(e[u])})]
    BY <1>1, <1>2, <1>3 DEF PopQueue
  <2>2. /\ history'.relinked = history.relinked
        /\ history'.discarded = history.discarded \union (D \ {u \in D : ~Discardable(e[u])})
    BY <2>1 DEF StreamInv, Records
  <2>3. /\ items' = [u \in Item |-> IF u \in D /\ ~Discardable(e[u]) THEN e[u]
                                    ELSE IF u \in D THEN None ELSE items[u]]
        /\ references' = SetReferences(references, e)
        /\ UNCHANGED <<queue, deletions>> /\ running' # <<>> /\ Len(running') = 1
    BY <1>1, <1>2, <1>3 DEF PopQueue
  <2> QED BY <2>2, <2>3
<1>8. ASSUME NEW u \in D
      PROVE  /\ Sound(u, e[u])
             /\ e[u].deleted => Len(queue) = 1 /\ Dead(u)' /\ ~Live(u)'
             /\ ~e[u].deleted => /\ ~Dead(u) /\ ~Dead(u)' /\ Live(u)' /\ items'[u] = e[u]
                                 /\ \A n \in e[u].refs : Dead(n) => Owed(u, n)
  <2>1. e[u] # None /\ u \in Item
    BY <1>5, ItemAssumption
  <2>2. /\ Sound(u, e[u]) /\ (e[u].deleted => Len(queue) = 1)
        /\ ~e[u].deleted => ~Dead(u) /\ \A n \in e[u].refs : Dead(n) => Owed(u, n)
    BY <1>2, <1>6 DEF Coming
  <2>3. CASE e[u].deleted
    BY <1>7, <2>1, <2>2, <2>3 DEF Live, Dead, Known, Discardable
  <2>4. CASE ~e[u].deleted
    BY <1>7, <2>1, <2>2, <2>4 DEF Live, Dead, Known, Discardable
  <2> QED BY <2>2, <2>3, <2>4
<1>9. ASSUME NEW u \in Item \ D
      PROVE  items'[u] = items[u] /\ (Live(u)' <=> Live(u)) /\ (Dead(u)' <=> Dead(u))
  BY <1>7, <1>9 DEF Live, Dead, Known
<1>10. \A u \in Item : /\ Dead(u) => Dead(u)'
                       /\ Dead(u)' /\ ~Dead(u) => u \in D /\ e[u].deleted /\ Len(queue) = 1
  BY <1>8, <1>9
<1>11. TakenIn(references, e, D, references')
  BY <1>5, <1>7, SetReferencesIs DEF LinkInv, LinkTypes
<1>12. LinkTypes'
  <2>1. items' \in [Item -> Payload \union {None}]
    BY <1>5, <1>7 DEF LinkInv, LinkTypes
  <2> QED BY <1>7, <1>11, <2>1 DEF LinkInv, LinkTypes, TakenIn
<1>13. Kept'
  <2> SUFFICES ASSUME NEW u \in Item, items'[u] # None
               PROVE  Sound(u, items'[u]) /\ ~Discardable(items'[u])
    BY DEF Kept
  <2> QED BY <1>7, <1>8, <1>9 DEF LinkInv, Kept
<1>14. Indexed'
  <2>1. ASSUME NEW a \in Item, NEW b \in Item, b \in references'.direct[a]
        PROVE  Live(a)' /\ b \in items'[a].refs
    <3>1. Refers(references, e, D, a, b)
      BY <1>11, <2>1 DEF TakenIn
    <3>2. CASE a \in D
      BY <1>8, <3>1, <3>2 DEF Refers
    <3>3. CASE a \notin D
      BY <1>9, <3>1, <3>3 DEF Refers, LinkInv, Indexed
    <3> QED BY <3>2, <3>3
  <2>2. ASSUME NEW a \in Item, NEW b \in Item, Live(a)', b \in items'[a].refs, ~Dead(b)'
        PROVE  b \in references'.direct[a]
    <3>1. ~(b \in D /\ e[b].deleted) /\ ~Dead(b)
      BY <1>8, <1>10, <2>2
    <3>2. CASE a \in D
      BY <1>8, <1>11, <2>2, <3>1, <3>2 DEF TakenIn, Refers
    <3>3. CASE a \notin D
      <4>1. b \in references.direct[a]
        BY <1>9, <2>2, <3>1, <3>3 DEF LinkInv, Indexed
      <4> QED BY <1>11, <3>1, <3>3, <4>1 DEF TakenIn, Refers
    <3> QED BY <3>2, <3>3
  <2> QED BY <2>1, <2>2 DEF Indexed
<1>15. \A a, n : Owed(a, n)' <=> Owed(a, n)
  BY <1>7 DEF Owed
<1>16. Links'
  <2> SUFFICES ASSUME NEW a \in Item, NEW n \in Item, Live(a)', n \in items'[a].refs, Dead(n)'
               PROVE  Owed(a, n)
    BY <1>15 DEF Links
  <2>1. a \in D => ~e[a].deleted /\ n \in e[a].refs
    BY <1>8
  <2>2. CASE Dead(n)
    <3>1. CASE a \in D
      BY <1>8, <2>1, <2>2, <3>1
    <3>2. CASE a \notin D
      <4>1. Owed(a, n) \/ Dropping(a, n)
        BY <1>9, <2>2, <3>2 DEF LinkInv, Links
      <4> QED BY <1>1, <1>2, <3>2, <4>1 DEF Dropping
    <3> QED BY <3>1, <3>2
  <2>3. CASE ~Dead(n)
    <3>1. n \in D /\ e[n].deleted
      BY <1>10, <2>3
    <3>2. CASE deletions[n].pc = "none"
      BY <3>2 DEF Owed
    <3>3. CASE Deleting(n)
      <4>1. D = {n} /\ \A b \in Item : Live(b) /\ n \in items[b].refs => b \in deletions[n].left
        BY <1>1, <1>2, <3>3 DEF Deleting
      <4>2. a \notin D
        BY <2>1, <3>1, <4>1
      <4> QED BY <1>9, <4>1, <4>2 DEF Owed
    <3> QED BY <2>3, <3>2, <3>3 DEF LinkInv, Begun
  <2> QED BY <2>2, <2>3
<1>17. Begun'
  <2>1. ASSUME NEW n \in Item, Deleting(n) PROVE Dead(n)'
    <3>1. n \in D /\ e[n].deleted
      BY <1>1, <1>2, <2>1 DEF Deleting
    <3> QED BY <1>8, <3>1
  <2> QED BY <1>7, <1>10, <2>1 DEF LinkInv, Begun
<1>18. Emissions'
  <2>1. ASSUME NEW i \in 1..Len(queue), i > 1, NEW f, f = queue[i].payloads PROVE Coming(f)'
    <3>1. Coming(f) /\ f \in Payloads
      BY <1>3, <2>1, QueueIs DEF LinkInv, Emissions
    <3>2. Len(queue) # 1
      BY <1>4, <2>1
    <3>3. \A u \in Item : Dead(u)' <=> Dead(u)
      BY <1>10, <3>2
    <3>4. \A u \in DOMAIN f : u \in Item /\ \A n \in f[u].refs : n \in Item
      BY <3>1, PayloadsIs DEF Payload, Item
    <3> QED BY <1>7, <1>15, <3>1, <3>2, <3>3, <3>4 DEF Coming
  <2>2. \A i \in 1..Len(queue) : i > 1 => Coming(queue[i].payloads)'
    BY <1>7, <2>1
  <2> QED BY <1>3, <1>7, <2>2 DEF LinkInv, Emissions
<1> QED BY <1>12, <1>13, <1>14, <1>16, <1>17, <1>18 DEF LinkInv

\* One emission at most is being notified.
LEMMA RunsOne ==
  ASSUME StreamInv, running # <<>>
  PROVE  \E x : running = <<x>>
  BY DEF StreamInv, Notifying

\* What a consumer changes while it is notified waits behind the emission.
LEMMA NotifyLinks == ASSUME StreamInv, LinkInv, NEW s \in Stream, Notify(s) PROVE LinkInv'
<1>1. /\ running # <<>> /\ running' = [running EXCEPT ![Len(running)].streams = @ \ {s}]
      /\ UNCHANGED <<items, references, deletions, history>>
  BY DEF Notify
<1>2. Len(running) = 1 /\ Len(running') = 1 /\ running' # <<>>
  <2>1. PICK x : running = <<x>>
    BY <1>1, RunsOne
  <2>2. Len(running) = 1 /\ running' = [running EXCEPT ![1].streams = @ \ {s}]
    BY <1>1, <2>1
  <2>3. Len(running') = 1
    BY <2>1, <2>2
  <2> QED BY <2>2, <2>3
<1>3. CASE queue' = queue
  BY <1>1, <1>2, <1>3, StillLinked
<1>4. ASSUME NEW u \in Item, Live(u), NEW p \in Changed(u), Emit(Only(u, p), None) PROVE LinkInv'
  <2>1. PICK m : m = [payloads |-> Only(u, p), owner |-> None]
    OBVIOUS
  <2>2. /\ p \in Payload /\ Sound(u, p) /\ ~p.deleted
        /\ \A n \in p.refs : n \in Item /\ (n \in items[u].refs \/ Live(n))
    BY <1>4, ChangedIs
  <2>3. Only(u, p) \in Payloads /\ DOMAIN Only(u, p) = {u} /\ Only(u, p)[u] = p
    BY <2>2, OnlyIs
  <2>4. m \in Emitted /\ queue' = Append(queue, m)
    BY <1>4, <2>1, <2>3 DEF Emit, Emitted
  <2>5. queue \in Seq(Emitted) /\ Len(queue) \in Nat /\ Len(queue) >= 1
    BY <1>1, QueueIs DEF LinkInv, Emissions
  <2>6. /\ queue' \in Seq(Emitted) /\ queue' # <<>>
        /\ Len(queue') = Len(queue) + 1 /\ queue'[Len(queue')] = m
        /\ \A i \in 1..Len(queue) : queue'[i] = queue[i]
    BY <2>4, <2>5
  <2>7. \A x : (Live(x)' <=> Live(x)) /\ (Dead(x)' <=> Dead(x))
    BY <1>1 DEF Live, Dead, Known
  <2>8. \A a, n : (Owed(a, n)' <=> Owed(a, n)) /\ ~Dropping(a, n) /\ ~Deleting(n)
    BY <1>1 DEF Owed, Dropping, Deleting
  <2>9. Coming(Only(u, p))'
    <3>1. ~Dead(u)
      BY <1>4 DEF Dead
    <3>2. \A n \in p.refs : Dead(n) => Owed(u, n)
      BY <1>4, <2>2, <2>8 DEF LinkInv, Links, Dead
    <3> QED BY <2>2, <2>3, <2>7, <2>8, <3>1, <3>2 DEF Coming
  <2>10. ASSUME NEW i \in 1..Len(queue), i > 1, NEW f, f = queue[i].payloads PROVE Coming(f)'
    <3>1. Coming(f)
      BY <1>2, <2>10 DEF LinkInv, Emissions
    <3>2. Len(queue) # 1
      BY <2>5, <2>10
    <3> QED BY <2>7, <2>8, <3>1, <3>2 DEF Coming
  <2>11. Emissions'
    <3>1. ASSUME NEW i \in 1..Len(queue')
          PROVE  /\ queue'[i].owner # None => i = 1 /\ deletions'[queue'[i].owner].pc = "await"
                 /\ i > 1 => \A f : f = queue'[i].payloads => Coming(f)'
      <4>1. CASE i \in 1..Len(queue)
        <5>1. queue'[i] = queue[i]
          BY <2>6, <4>1
        <5>2. queue[i].owner # None => i = 1 /\ deletions[queue[i].owner].pc = "await"
          BY <4>1 DEF LinkInv, Emissions
        <5> QED BY <1>1, <2>10, <4>1, <5>1, <5>2
      <4>2. CASE i = Len(queue')
        <5>1. queue'[i].owner = None /\ queue'[i].payloads = Only(u, p)
          BY <2>1, <2>6, <4>2
        <5> QED BY <2>9, <5>1
      <4> QED BY <2>5, <2>6, <4>1, <4>2
    <3> QED BY <1>2, <2>6, <3>1 DEF Emissions
  <2>12. Links' /\ Begun' /\ Kept' /\ Indexed' /\ LinkTypes'
    BY <1>1, <2>6, <2>7, <2>8 DEF LinkInv, Links, Begun, Kept, Indexed, LinkTypes
  <2> QED BY <2>11, <2>12 DEF LinkInv
<1> QED BY <1>3, <1>4 DEF Notify

\* The caller of the emission goes on.
LEMMA ResolveLinks == ASSUME StreamInv, LinkInv, Resolve PROVE LinkInv'
<1>1. running # <<>> /\ Len(running) = 1 /\ running' = <<>> /\ Len(running') = 0
  <2>1. PICK x : running = <<x>>
    BY RunsOne DEF Resolve
  <2>2. running' = SubSeq(running, 1, 0)
    BY <2>1 DEF Resolve
  <2> QED BY <2>1, <2>2
<1>2. PICK o : o = queue[1].owner
  OBVIOUS
<1>3. /\ queue' = SubSeq(queue, 1, 0) \o SubSeq(queue, 2, Len(queue))
      /\ deletions' = IF o = None THEN deletions ELSE [deletions EXCEPT ![o].pc = "linked"]
      /\ UNCHANGED <<items, references, history>>
  BY <1>1, <1>2 DEF Resolve
<1>4. /\ queue \in Seq(Emitted) /\ Len(queue) \in Nat /\ Len(queue) >= 1
      /\ o \in Item \union {None}
  <2>1. queue # <<>>
    BY <1>1 DEF LinkInv, Emissions
  <2> QED BY <1>2, <2>1, QueueIs
<1>5. /\ queue' \in Seq(Emitted)
      /\ Len(queue') = Len(queue) - 1
      /\ \A i \in 1..Len(queue') : queue'[i] = queue[i + 1]
  <2>1. queue # <<>>
    BY <1>4
  <2>2. queue' = Tail(queue)
    <3>1. SubSeq(queue, 2, Len(queue)) = Tail(queue)
      BY <1>4, <2>1, TailIsSubSeq
    <3>2. SubSeq(queue, 1, 0) = <<>> /\ Tail(queue) \in Seq(Emitted)
      BY <1>4, <2>1
    <3> QED BY <1>3, <3>1, <3>2
  <2> QED BY <1>4, <2>1, <2>2, HeadTailProperties
<1>6. o # None => deletions[o].pc = "await"
  BY <1>2, <1>4 DEF LinkInv, Emissions
<1>7. /\ deletions' \in [Item -> Deletion]
      /\ \A n \in Item : /\ deletions'[n].left = deletions[n].left
                         /\ deletions'[n].pc = "none" <=> deletions[n].pc = "none"
                         /\ deletions'[n].pc = deletions[n].pc \/ deletions'[n].pc = "linked"
  <2>1. CASE o = None
    BY <1>3, <2>1 DEF LinkInv, LinkTypes
  <2>2. CASE o # None
    <3>1. PICK d : d = deletions[o]
      OBVIOUS
    <3>2. PICK k : k = [d EXCEPT !.pc = "linked"]
      OBVIOUS
    <3>3. d \in Deletion /\ d.pc = "await" /\ o \in Item
      BY <1>4, <1>6, <2>2, <3>1 DEF LinkInv, LinkTypes
    <3>4. k \in Deletion /\ k.pc = "linked" /\ k.left = d.left
      BY <3>2, <3>3 DEF Deletion
    <3>5. deletions' = [deletions EXCEPT ![o] = k]
      BY <1>3, <2>2, <3>1, <3>2
    <3> QED BY <3>1, <3>3, <3>4, <3>5 DEF LinkInv, LinkTypes
  <2> QED BY <2>1, <2>2
<1>8. \A x : (Live(x)' <=> Live(x)) /\ (Dead(x)' <=> Dead(x))
  BY <1>3 DEF Live, Dead, Known
<1>9. \A a, n \in Item : (Owed(a, n)' <=> Owed(a, n)) /\ ~Dropping(a, n) /\ ~Deleting(n)
  BY <1>1, <1>3, <1>7 DEF Owed, Dropping, Deleting
<1>10. Links' /\ Begun' /\ Kept' /\ Indexed' /\ LinkTypes'
  BY <1>3, <1>5, <1>7, <1>8, <1>9 DEF LinkInv, Links, Begun, Kept, Indexed, LinkTypes
<1>11. Emissions'
  <2>1. ASSUME NEW i \in 1..Len(queue'), NEW f, f = queue'[i].payloads
        PROVE  queue'[i].owner = None /\ Coming(f)'
    <3>1. i + 1 \in 1..Len(queue) /\ i + 1 > 1 /\ Len(queue) # 1 /\ i + 1 # 1
      BY <1>4, <1>5
    <3>2. queue'[i] = queue[i + 1]
      BY <1>5
    <3>3. queue[i + 1].owner = None /\ Coming(f) /\ f \in Payloads
      BY <1>1, <2>1, <3>1, <3>2, QueueIs DEF LinkInv, Emissions
    <3>4. \A u \in DOMAIN f : u \in Item /\ \A n \in f[u].refs : n \in Item
      BY <3>3, PayloadsIs DEF Payload, Item
    <3> QED BY <1>8, <1>9, <3>1, <3>2, <3>3, <3>4 DEF Coming
  <2> QED BY <1>1, <2>1 DEF Emissions
<1> QED BY <1>10, <1>11 DEF LinkInv

(*****************************************************************************)
(* If the server restores nothing that was discarded here, and no tag is     *)
(* deleted while there is another: when setItemToBeDeleted of a note is      *)
(* over, nothing refers to the note but by what the server has sent since.   *)
(*****************************************************************************)
THEOREM DeletionsUnlink ==
  ASSUME ~Restores, OneReferrer
  PROVE  Spec => []DeletionUnlinks
<1>1. StreamInv /\ LinkInv /\ [Next]_vars => LinkInv'
  <2> SUFFICES ASSUME StreamInv, LinkInv, [Next]_vars PROVE LinkInv'
    OBVIOUS
  <2>1. Records
    BY DEF StreamInv
  <2>2. CASE Emission
    BY <2>2, PopQueueLinks, NotifyLinks, ResolveLinks DEF Emission
  <2>3. CASE Operation
    BY <2>1, <2>3, ChangeItemLinks, CreateItemLinks, CopyItemLinks, SetItemToBeDeletedLinks,
       DropReferenceLinks, LinkedLinks, RemoveItemLocallyLinks, RetrieveLinks, SavedLinks
    DEF Operation
  <2>4. CASE Consumer \/ UNCHANGED vars
    BY <2>4, StillLinked DEF Consumer, Subscribe, Unsubscribe, SetDisplayOptions, SetCriteria,
       DisplayElements, vars
  <2> QED BY <2>2, <2>3, <2>4 DEF Next
<1>2. LinkInv => DeletionUnlinks
  <2> SUFFICES ASSUME LinkInv, NEW n \in Note, deletions[n].pc \in {"done", "failed"}, ~Live(n),
                      NEW a \in Item, Live(a), n \in items[a].refs
               PROVE  <<a, n>> \in history.relinked
    BY DEF DeletionUnlinks
  <2>1. n \in Item
    BY DEF Item
  <2>2. Dead(n) /\ deletions[n].left = {}
    BY <2>1 DEF LinkInv, Begun, Deleting
  <2> QED BY <2>1, <2>2 DEF LinkInv, Links, Owed, Dropping
<1>3. Spec => []StreamInv
  BY InitStreams, StreamStep, PTL DEF Spec
<1> QED BY <1>1, <1>2, <1>3, InitLinks, PTL DEF Spec
=============================================================================
