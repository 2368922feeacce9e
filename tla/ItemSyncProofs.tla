---------------------------- MODULE ItemSyncProofs ----------------------------
(****************************************************************************)
(* That the variables keep their types, that no item becomes clean that was *)
(* not uploaded, and that the sync token is never ahead of the items, for   *)
(* any number of items, edits here and elsewhere, pages, lost requests and  *)
(* restarts.                                                                *)
(****************************************************************************)
EXTENDS ItemSync, FiniteSetTheorems, TLAPS

(****************************************************************************)
(* Types, with n contents written so far.                                   *)
(****************************************************************************)
Payloads(n) == [content : 0 .. n, version : Nat, deleted : BOOLEAN, dirty : BOOLEAN,
                dirtied : {"unset", "before", "since"}, began : BOOLEAN]
ServerItems(n) == [content : 0 .. n, version : Nat, deleted : BOOLEAN]
Elements(n) == [p : Payloads(n), saved : BOOLEAN]

\* The functions from some of the uuids to S.
Partial(S) == UNION {[D -> S] : D \in SUBSET Uuid}

Responses(n) == [saved : SUBSET Uuid, retrieved : SUBSET Uuid, conflicts : SUBSET Uuid,
                 data : [Uuid -> ServerItems(n) \cup {None}], token : Nat]

Operations(n) ==
  [pc : {"idle", "saving", "ready", "sent", "received", "storing", "stored", "clearing",
         "stuck"},
   mode : {"Default", "DownloadFirst"}, items : [Uuid -> Payloads(n) \cup {None}],
   unsynced : SUBSET Uuid, pending : SUBSET Uuid, token : Nat, resp : Responses(n),
   collections : Seq(Partial(Elements(n))), unsaved : Partial(Payloads(n))]

Histories == [Uuid -> [staged : Content, newest : Content]]

\* What the operation refers to is there.
References ==
  /\ op.pending \subseteq Present(op.items)
  /\ op.resp.saved \cup op.resp.retrieved \cup op.resp.conflicts \subseteq Present(op.resp.data)

Kept(f) == \A u \in Present(f) : ~discardable(f[u])
Undated(f) == \A u \in Present(f) : f[u] = Stored(f[u])

ClientTypes(n) ==
  /\ master \in [Uuid -> Payloads(n) \cup {None}] /\ Kept(master)
  /\ disk \in [Uuid -> Payloads(n) \cup {None}] /\ Kept(disk) /\ Undated(disk)
  /\ history \in Histories
  /\ conflictMap \in [Uuid -> SUBSET Uuid]
  /\ token \in Nat /\ diskToken \in Nat /\ firstDone \in BOOLEAN

OtherTypes(n) ==
  /\ server \in [Uuid -> ServerItems(n) \cup {None}]
  /\ clock \in Nat /\ uuids \in Nat
  /\ uploaded \subseteq 0 .. n
  /\ copyOf \in [Uuid -> Uuid \cup {0}]
  /\ deletions \in SUBSET Uuid /\ missed \in SUBSET Uuid

OperationTypes(n) == op \in Operations(n) /\ References

WrittenType(n) ==
  written \in Seq([item : Uuid, replaces : SUBSET Content]) /\ n = Len(written)

Types(n) == WrittenType(n) /\ ClientTypes(n) /\ OtherTypes(n) /\ OperationTypes(n)

TypeInv == \E n \in Nat : Types(n)

-----------------------------------------------------------------------------
(****************************************************************************)
(* The sets of types.                                                       *)
(****************************************************************************)
LEMMA PayloadsArePayloads ==
  ASSUME NEW n \in Nat
  PROVE  /\ Payloads(n) \subseteq Payload /\ None \notin Payloads(n)
         /\ ServerItems(n) \subseteq ServerItem /\ None \notin ServerItems(n)
         /\ Elements(n) \subseteq Element
<1>1. 0 .. n \subseteq Content
  BY DEF Content
<1>2. Payloads(n) \subseteq Payload
  BY <1>1 DEF Payloads, Payload
<1>3. ServerItems(n) \subseteq ServerItem
  BY <1>1 DEF ServerItems, ServerItem
<1>4. Elements(n) \subseteq Element
  BY <1>2 DEF Elements, Element
<1> QED
  BY <1>2, <1>3, <1>4, NoneAssumption

LEMMA PartialIs ==
  ASSUME NEW S, NEW f
  PROVE  /\ f \in Partial(S) <=> DOMAIN f \in SUBSET Uuid /\ f \in [DOMAIN f -> S]
         /\ f \in Partial(S) => \A u \in DOMAIN f : f[u] \in S
BY DEF Partial

LEMMA PartialGrows ==
  ASSUME NEW S, NEW T, S \subseteq T
  PROVE  Partial(S) \subseteq Partial(T)
<1>1. ASSUME NEW f \in Partial(S) PROVE f \in Partial(T)
  <2>1. DOMAIN f \in SUBSET Uuid /\ f \in [DOMAIN f -> S]
    BY <1>1, PartialIs
  <2>2. f \in [DOMAIN f -> T]
    BY <2>1
  <2> QED
    BY <2>1, <2>2, PartialIs
<1> QED
  BY <1>1

LEMMA OperationsGrow ==
  ASSUME NEW m \in Nat, NEW n \in Nat, m <= n
  PROVE  /\ Payloads(m) \subseteq Payloads(n) /\ ServerItems(m) \subseteq ServerItems(n)
         /\ Operations(m) \subseteq Operations(n)
<1>1. 0 .. m \subseteq 0 .. n
  OBVIOUS
<1>2. Payloads(m) \subseteq Payloads(n) /\ ServerItems(m) \subseteq ServerItems(n)
  BY <1>1 DEF Payloads, ServerItems
<1>3. Elements(m) \subseteq Elements(n)
  BY <1>2 DEF Elements
<1>4. Responses(m) \subseteq Responses(n)
  BY <1>2 DEF Responses
<1>5. /\ Partial(Elements(m)) \subseteq Partial(Elements(n))
      /\ Partial(Payloads(m)) \subseteq Partial(Payloads(n))
  BY <1>2, <1>3, PartialGrows
<1>6. Seq(Partial(Elements(m))) \subseteq Seq(Partial(Elements(n)))
  BY <1>5
<1> QED
  BY <1>2, <1>4, <1>5, <1>6 DEF Operations

\* What was typed with fewer contents is typed still.
LEMMA TypesGrow ==
  ASSUME NEW m \in Nat, NEW n \in Nat, m <= n
  PROVE  /\ ClientTypes(m) => ClientTypes(n)
         /\ OtherTypes(m) => OtherTypes(n)
         /\ OperationTypes(m) => OperationTypes(n)
<1>1. /\ Payloads(m) \subseteq Payloads(n) /\ ServerItems(m) \subseteq ServerItems(n)
      /\ Operations(m) \subseteq Operations(n) /\ 0 .. m \subseteq 0 .. n
  BY OperationsGrow
<1> QED
  BY <1>1 DEF ClientTypes, OtherTypes, OperationTypes

(****************************************************************************)
(* The operators that build payloads and maps of them.                      *)
(****************************************************************************)
LEMMA ChangedPayload ==
  ASSUME NEW C, NEW V, NEW D, NEW B,
         NEW p \in [content : C, version : V, deleted : B, dirty : B, dirtied : D, began : B],
         NEW a \in C, NEW b \in B, NEW c \in B, NEW d \in D
  PROVE  /\ [p EXCEPT !.content = a, !.dirty = c, !.dirtied = d]
              \in [content : C, version : V, deleted : B, dirty : B, dirtied : D, began : B]
         /\ [p EXCEPT !.content = a, !.deleted = b, !.dirty = c, !.dirtied = d]
              \in [content : C, version : V, deleted : B, dirty : B, dirtied : D, began : B]
OBVIOUS

LEMMA EditedPayload ==
  ASSUME NEW n \in Nat, NEW p \in Payloads(n), NEW c \in 0 .. n
  PROVE  [p EXCEPT !.content = c, !.dirty = TRUE, !.dirtied = "since"] \in Payloads(n)
<1>1. TRUE \in BOOLEAN /\ "since" \in {"unset", "before", "since"}
  OBVIOUS
<1> QED
  BY <1>1, ChangedPayload DEF Payloads

LEMMA DeletedPayload ==
  ASSUME NEW n \in Nat, NEW p \in Payloads(n)
  PROVE  [p EXCEPT !.content = NoContent, !.deleted = TRUE, !.dirty = TRUE,
                   !.dirtied = "since"] \in Payloads(n)
<1>1. NoContent \in 0 .. n /\ TRUE \in BOOLEAN /\ "since" \in {"unset", "before", "since"}
  BY DEF NoContent
<1> QED
  BY <1>1, ChangedPayload DEF Payloads

LEMMA UndatedStored ==
  ASSUME NEW n \in Nat, NEW p \in Payloads(n), p.dirtied = "unset", ~p.began
  PROVE  Stored(p) = p
<1>1. p.began = FALSE
  BY DEF Payloads
<1> QED
  BY <1>1 DEF Stored, Payloads

LEMMA SaveType ==
  ASSUME NEW n \in Nat, disk \in [Uuid -> Payloads(n) \cup {None}], Kept(disk), Undated(disk),
         NEW f \in Partial(Payloads(n))
  PROVE  Save(f) \in [Uuid -> Payloads(n) \cup {None}] /\ Kept(Save(f)) /\ Undated(Save(f))
<1> DEFINE g == Save(f)
<1>1. \A u \in DOMAIN f : f[u] \in Payloads(n)
  BY PartialIs
<1>2. ASSUME NEW u \in Uuid
      PROVE  /\ g[u] \in Payloads(n) \cup {None}
             /\ g[u] # None => ~discardable(g[u]) /\ g[u] = Stored(g[u])
  <2>1. CASE u \notin DOMAIN f
    BY <2>1 DEF Save, Kept, Undated, Present
  <2>2. CASE u \in DOMAIN f
    <3>1. f[u] \in Payloads(n) /\ Stored(f[u]) \in Payloads(n)
      BY <1>1, <2>2 DEF Payloads, Stored
    <3>2. Stored(Stored(f[u])) = Stored(f[u])
      BY <3>1 DEF Payloads, Stored
    <3>3. discardable(Stored(f[u])) <=> discardable(f[u])
      BY <3>1 DEF Payloads, Stored, discardable
    <3> QED
      BY <2>2, <3>1, <3>2, <3>3 DEF Save
  <2> QED
    BY <2>1, <2>2
<1>3. g = [u \in Uuid |-> g[u]]
  BY DEF Save
<1>4. g \in [Uuid -> Payloads(n) \cup {None}]
  <2> HIDE DEF g
  <2> QED
    BY <1>2, <1>3
<1>5. Kept(g) /\ Undated(g)
  <2> HIDE DEF g
  <2> QED
    BY <1>2 DEF Kept, Undated, Present
<1> QED
  BY <1>4, <1>5

LEMMA MappedType ==
  ASSUME NEW n \in Nat, master \in [Uuid -> Payloads(n) \cup {None}], Kept(master),
         NEW f \in Partial(Payloads(n))
  PROVE  Mapped(f) \in [Uuid -> Payloads(n) \cup {None}] /\ Kept(Mapped(f))
<1>1. \A u \in DOMAIN f : f[u] \in Payloads(n)
  BY PartialIs
<1> QED
  BY <1>1 DEF Mapped, Kept, Present

LEMMA RecordedType ==
  ASSUME NEW n \in Nat, history \in Histories, NEW f \in Partial(Payloads(n))
  PROVE  Recorded(f) \in Histories
<1>1. \A u \in DOMAIN f : f[u].content \in Content
  <2>1. \A p \in Payloads(n) : p.content \in Content
    BY DEF Payloads, Content
  <2> QED
    BY <2>1, PartialIs
<1>2. ASSUME NEW h \in [staged : Content, newest : Content], NEW c \in Content
      PROVE  Record(h, c) \in [staged : Content, newest : Content]
  BY DEF Record
<1> QED
  BY <1>1, <1>2 DEF Recorded, Histories

LEMMA RelatedType ==
  ASSUME conflictMap \in [Uuid -> SUBSET Uuid], NEW f, DOMAIN f \subseteq Uuid
  PROVE  Related(f) \in [Uuid -> SUBSET Uuid]
BY DEF Related

LEMMA OnlyType ==
  ASSUME NEW S, NEW u \in Uuid, NEW p \in S
  PROVE  Only(u, p) \in Partial(S)
BY PartialIs DEF Only

\* The uuids of the copies made of a response are new.
LEMMA CopyUuidIs ==
  ASSUME NEW u \in Duplicated, uuids \in Nat
  PROVE  /\ Cardinality(Duplicated) \in Nat
         /\ CopyUuid(u) \in uuids + 1 .. uuids + Cardinality(Duplicated)
<1> DEFINE S == {v \in Duplicated : v <= u}
<1>1. Duplicated \subseteq Uuid
  BY DEF Duplicated, Conflicted, Present
<1>2. IsFiniteSet(Uuid)
  BY UuidAssumption, FS_Interval DEF Uuid
<1>3. IsFiniteSet(Duplicated) /\ Cardinality(Duplicated) \in Nat
  BY <1>1, <1>2, FS_Subset, FS_CardinalityType
<1>4. S \subseteq Duplicated /\ u \in S
  BY <1>1, UuidAssumption DEF Uuid
<1>5. /\ IsFiniteSet(S) /\ Cardinality(S) \in Nat
      /\ Cardinality(S) <= Cardinality(Duplicated)
  BY <1>3, <1>4, FS_Subset, FS_CardinalityType
<1>6. Cardinality(S) # 0
  BY <1>4, <1>5, FS_EmptySet
<1> QED
  BY <1>3, <1>5, <1>6 DEF CopyUuid

\* What the deltas make of one payload.
LEMMA DeltaTypes ==
  ASSUME NEW n \in Nat, op \in Operations(n), master \in [Uuid -> Payloads(n) \cup {None}],
         NEW u \in Present(op.resp.data)
  PROVE  /\ Incoming(u) \in ServerItems(n)
         /\ TakenOver(u) \in Payloads(n)
         /\ SavedState(u) \in Payloads(n)
         /\ u \in Present(master) => KeptLeft(u) \in Payloads(n)
         /\ CopyMade(Incoming(u).content, Incoming(u).version) \in Payloads(n)
         /\ u \in Present(master) => /\ master[u] \in Payloads(n)
                                     /\ CopyMade(master[u].content, master[u].version)
                                          \in Payloads(n)
<1>1. u \in Uuid /\ Incoming(u) \in ServerItems(n)
  BY DEF Present, Incoming, Operations, Responses
<1>2. master[u] # None => master[u] \in Payloads(n)
  BY <1>1
<1>3. TakenOver(u) \in Payloads(n)
  BY <1>1, <1>2 DEF TakenOver, Payloads, ServerItems
<1>4. SavedState(u) \in Payloads(n)
  BY <1>1, <1>2, <1>3 DEF SavedState, Payloads, ServerItems
<1>5. ASSUME u \in Present(master) PROVE KeptLeft(u) \in Payloads(n)
  BY <1>1, <1>2, <1>5 DEF KeptLeft, Payloads, ServerItems, Present
<1>6. \A c \in 0 .. n, v \in Nat : CopyMade(c, v) \in Payloads(n)
  BY DEF CopyMade, Payloads
<1>7. Incoming(u).content \in 0 .. n /\ Incoming(u).version \in Nat
  BY <1>1 DEF ServerItems
<1>8. ASSUME u \in Present(master)
      PROVE  master[u] \in Payloads(n) /\ master[u].content \in 0 .. n /\ master[u].version \in Nat
  BY <1>2, <1>8 DEF Present, Payloads
<1> QED
  BY <1>1, <1>3, <1>4, <1>5, <1>6, <1>7, <1>8

LEMMA FinalType ==
  ASSUME NEW n \in Nat, NEW u \in Uuid, NEW p \in Payloads(n)
  PROVE  Final(u, p) \in Payloads(n)
<1>1. finalDirtyState(u, p) \in BOOLEAN
  BY DEF finalDirtyState, Payloads
<1> QED
  BY <1>1 DEF Final, Payloads

LEMMA AppliedType ==
  ASSUME NEW n \in Nat, op \in Operations(n), master \in [Uuid -> Payloads(n) \cup {None}],
         NEW S, S \subseteq Present(op.resp.data)
  PROVE  Applied(S) \in Partial(Elements(n))
<1>1. S \subseteq Uuid
  BY DEF Present
<1>2. \A u \in S : Final(u, TakenOver(u)) \in Payloads(n)
  BY <1>1, DeltaTypes, FinalType
<1>3. \A u \in S : Applied(S)[u] \in Elements(n)
  BY <1>2 DEF Applied, Elements
<1>4. DOMAIN Applied(S) = S /\ Applied(S) = [u \in S |-> Applied(S)[u]]
  BY DEF Applied
<1> QED
  BY <1>1, <1>3, <1>4, PartialIs

LEMMA ResolvedType ==
  ASSUME NEW n \in Nat, op \in Operations(n), master \in [Uuid -> Payloads(n) \cup {None}],
         uuids \in Nat, uuids + Cardinality(Duplicated) <= MaxUuid,
         NEW S, S \subseteq Present(op.resp.data) \cap Present(master), NEW recent
  PROVE  Resolved(S, recent) \in Partial(Elements(n))
<1> DEFINE f == Resolved(S, recent)
<1>1. S \cup Copied(S) \subseteq Uuid
  <2>1. \A u \in Duplicated : CopyUuid(u) \in Uuid
    BY CopyUuidIs, UuidAssumption DEF Uuid
  <2> QED
    BY <2>1 DEF Copied, Present
<1>2. ASSUME NEW v \in S PROVE f[v] \in Elements(n)
  <2>1. KeptLeft(v) \in Payloads(n) /\ TakenOver(v) \in Payloads(n)
    BY <1>2, DeltaTypes
  <2>2. Final(v, KeptLeft(v)) \in Payloads(n) /\ Final(v, TakenOver(v)) \in Payloads(n)
    BY <1>1, <2>1, FinalType
  <2> QED
    BY <2>2 DEF Resolved, Elements
<1>3. ASSUME NEW v \in Copied(S) \ S PROVE f[v] \in Elements(n)
  <2> DEFINE u == CHOOSE w \in S \cap Duplicated : CopyUuid(w) = v
  <2>1. u \in S
    BY <1>3 DEF Copied
  <2> HIDE DEF u
  <2>2. /\ CopyMade(Incoming(u).content, Incoming(u).version) \in Payloads(n)
        /\ CopyMade(master[u].content, master[u].version) \in Payloads(n)
    BY <2>1, DeltaTypes
  <2>3. f[v] = [saved |-> FALSE,
                p |-> IF u \in recent THEN CopyMade(Incoming(u).content, Incoming(u).version)
                      ELSE CopyMade(master[u].content, master[u].version)]
    BY DEF Resolved, u
  <2> QED
    BY <2>2, <2>3 DEF Elements
<1>4. DOMAIN f = S \cup Copied(S) /\ f = [v \in S \cup Copied(S) |-> f[v]]
  BY DEF Resolved
<1> HIDE DEF f
<1>5. \A v \in S \cup Copied(S) : f[v] \in Elements(n)
  BY <1>2, <1>3
<1> QED
  BY <1>1, <1>4, <1>5, PartialIs DEF f

LEMMA BothType ==
  ASSUME NEW S, NEW f \in Partial(S), NEW g \in Partial(S)
  PROVE  Both(f, g) \in Partial(S)
<1>1. /\ DOMAIN f \in SUBSET Uuid /\ DOMAIN g \in SUBSET Uuid
      /\ \A u \in DOMAIN f : f[u] \in S
      /\ \A u \in DOMAIN g : g[u] \in S
  BY PartialIs
<1>2. Both(f, g) \in [DOMAIN f \cup DOMAIN g -> S]
  BY <1>1 DEF Both
<1> QED
  BY <1>1, <1>2, PartialIs

\* Collections without the empty ones.
LEMMA NonEmptyIs ==
  ASSUME NEW T, NEW x \in T
  PROVE  /\ NonEmpty(x) \in Seq(T) /\ Len(NonEmpty(x)) \in 0 .. 1
         /\ \A i \in 1 .. Len(NonEmpty(x)) : NonEmpty(x)[i] = x
<1>1. <<>> \in Seq(T) /\ Len(<<>>) = 0
  OBVIOUS
<1>2. <<x>> \in Seq(T) /\ Len(<<x>>) = 1 /\ <<x>>[1] = x
  OBVIOUS
<1>3. CASE DOMAIN x = {}
  BY <1>1, <1>3 DEF NonEmpty
<1>4. CASE DOMAIN x # {}
  BY <1>2, <1>4 DEF NonEmpty
<1> QED
  BY <1>3, <1>4

LEMMA ConcatThree ==
  ASSUME NEW T, NEW a \in Seq(T), NEW b \in Seq(T), NEW d \in Seq(T)
  PROVE  /\ a \o b \o d \in Seq(T)
         /\ Len(a \o b \o d) = Len(a) + Len(b) + Len(d)
         /\ \A i \in 1 .. Len(a) + Len(b) + Len(d) :
              (a \o b \o d)[i] = IF i <= Len(a) THEN a[i]
                                ELSE IF i <= Len(a) + Len(b) THEN b[i - Len(a)]
                                ELSE d[i - Len(a) - Len(b)]
<1>1. /\ a \o b \in Seq(T) /\ Len(a \o b) = Len(a) + Len(b)
      /\ \A i \in 1 .. Len(a) + Len(b) :
           (a \o b)[i] = IF i <= Len(a) THEN a[i] ELSE b[i - Len(a)]
  OBVIOUS
<1> QED
  BY <1>1

\* Collection c consists of f, g and h, each at most once, and of each that has elements.
Collects(c, f, g, h) ==
  /\ \A i \in DOMAIN c : c[i] \in {f, g, h}
  /\ \A k \in {f, g, h} : DOMAIN k # {} => \E i \in DOMAIN c : c[i] = k
  /\ \A i, j \in DOMAIN c :
       i # j => \/ c[i] = f /\ c[j] \in {g, h}
                \/ c[i] = g /\ c[j] \in {f, h}
                \/ c[i] = h /\ c[j] \in {f, g}

LEMMA CollectionsAre ==
  ASSUME NEW T, NEW f \in T, NEW g \in T, NEW h \in T,
         NEW c, c = NonEmpty(f) \o NonEmpty(g) \o NonEmpty(h)
  PROVE  c \in Seq(T) /\ Collects(c, f, g, h)
<1> DEFINE a == NonEmpty(f)
           b == NonEmpty(g)
           d == NonEmpty(h)
<1>1. /\ a \in Seq(T) /\ b \in Seq(T) /\ d \in Seq(T)
      /\ Len(a) \in 0 .. 1 /\ Len(b) \in 0 .. 1 /\ Len(d) \in 0 .. 1
  BY NonEmptyIs
<1>2. /\ \A i \in 1 .. Len(a) : a[i] = f
      /\ \A i \in 1 .. Len(b) : b[i] = g
      /\ \A i \in 1 .. Len(d) : d[i] = h
  BY NonEmptyIs
<1>3. /\ c = a \o b \o d
      /\ (DOMAIN f # {} => Len(a) = 1) /\ (DOMAIN g # {} => Len(b) = 1)
      /\ (DOMAIN h # {} => Len(d) = 1)
  BY DEF NonEmpty
<1> HIDE DEF a, b, d
<1>4. c \in Seq(T) /\ Len(c) = Len(a) + Len(b) + Len(d)
  BY <1>1, <1>3, ConcatThree
<1>5. \A i \in 1 .. Len(a) + Len(b) + Len(d) :
        c[i] = IF i <= Len(a) THEN a[i] ELSE IF i <= Len(a) + Len(b) THEN b[i - Len(a)]
               ELSE d[i - Len(a) - Len(b)]
  BY <1>1, <1>3, ConcatThree
<1>6. ASSUME NEW i \in DOMAIN c
      PROVE  /\ i \in 1 .. Len(a) + Len(b) + Len(d)
             /\ c[i] = IF i <= Len(a) THEN f ELSE IF i <= Len(a) + Len(b) THEN g ELSE h
  <2>1. i \in 1 .. Len(a) + Len(b) + Len(d)
    BY <1>4
  <2>2. /\ i <= Len(a) => i \in 1 .. Len(a)
        /\ i > Len(a) /\ i <= Len(a) + Len(b) => i - Len(a) \in 1 .. Len(b)
        /\ i > Len(a) + Len(b) => i - Len(a) - Len(b) \in 1 .. Len(d)
    BY <1>1, <2>1
  <2>3. c[i] = IF i <= Len(a) THEN a[i] ELSE IF i <= Len(a) + Len(b) THEN b[i - Len(a)]
               ELSE d[i - Len(a) - Len(b)]
    BY <1>5, <2>1
  <2>4. CASE i <= Len(a)
    BY <1>2, <2>1, <2>2, <2>3, <2>4
  <2>5. CASE i > Len(a) /\ i <= Len(a) + Len(b)
    BY <1>1, <1>2, <2>1, <2>2, <2>3, <2>5
  <2>6. CASE i > Len(a) + Len(b)
    BY <1>1, <1>2, <2>1, <2>2, <2>3, <2>6
  <2> QED
    BY <1>1, <2>1, <2>4, <2>5, <2>6
<1> DEFINE la == Len(a)
           lb == Len(b)
           ld == Len(d)
<1>7. /\ la \in 0 .. 1 /\ lb \in 0 .. 1 /\ ld \in 0 .. 1
      /\ \A i \in DOMAIN c : i \in 1 .. la + lb + ld
      /\ \A i \in 1 .. la + lb + ld : i \in DOMAIN c
      /\ (DOMAIN f # {} => la = 1) /\ (DOMAIN g # {} => lb = 1) /\ (DOMAIN h # {} => ld = 1)
      /\ \A i \in DOMAIN c : c[i] = IF i <= la THEN f ELSE IF i <= la + lb THEN g ELSE h
  BY <1>1, <1>3, <1>4, <1>6
<1> HIDE DEF la, lb, ld
<1>8. ASSUME NEW i \in DOMAIN c, NEW j \in DOMAIN c, i # j
      PROVE  \/ c[i] = f /\ c[j] \in {g, h}
             \/ c[i] = g /\ c[j] \in {f, h}
             \/ c[i] = h /\ c[j] \in {f, g}
  <2>1. i \in 1 .. la + lb + ld /\ j \in 1 .. la + lb + ld
    BY <1>7
  <2>2. CASE i <= la
    <3>1. ~(j <= la) /\ c[i] = f
      BY <1>7, <1>8, <2>1, <2>2
    <3> QED
      BY <1>7, <3>1
  <2>3. CASE ~(i <= la) /\ i <= la + lb
    <3>1. ~(~(j <= la) /\ j <= la + lb) /\ c[i] = g
      BY <1>7, <1>8, <2>1, <2>3
    <3> QED
      BY <1>7, <3>1
  <2>4. CASE ~(i <= la) /\ ~(i <= la + lb)
    <3>1. j <= la + lb /\ c[i] = h
      BY <1>7, <1>8, <2>1, <2>4
    <3> QED
      BY <1>7, <3>1
  <2> QED
    BY <2>2, <2>3, <2>4
<1>9. \A i \in DOMAIN c : c[i] \in {f, g, h}
  BY <1>7
<1>10. \A k \in {f, g, h} : DOMAIN k # {} => \E i \in DOMAIN c : c[i] = k
  <2>1. ASSUME DOMAIN f # {} PROVE 1 \in DOMAIN c /\ c[1] = f
    <3>1. 1 \in 1 .. la + lb + ld /\ 1 <= la
      BY <1>7, <2>1
    <3> QED
      BY <1>7, <3>1
  <2>2. ASSUME DOMAIN g # {} PROVE la + 1 \in DOMAIN c /\ c[la + 1] = g
    <3>1. la + 1 \in 1 .. la + lb + ld /\ ~(la + 1 <= la) /\ la + 1 <= la + lb
      BY <1>7, <2>2
    <3>2. la + 1 \in DOMAIN c
      BY <1>7, <3>1
    <3> QED
      BY <1>7, <3>1, <3>2
  <2>3. ASSUME DOMAIN h # {} PROVE la + lb + 1 \in DOMAIN c /\ c[la + lb + 1] = h
    <3>1. /\ la + lb + 1 \in 1 .. la + lb + ld
          /\ ~(la + lb + 1 <= la) /\ ~(la + lb + 1 <= la + lb)
      BY <1>7, <2>3
    <3>2. la + lb + 1 \in DOMAIN c
      BY <1>7, <3>1
    <3> QED
      BY <1>7, <3>1, <3>2
  <2> QED
    BY <2>1, <2>2, <2>3
<1> QED
  BY <1>4, <1>8, <1>9, <1>10 DEF Collects

\* The collections that a response is turned into.
RetrievedCollection(recent) ==
  Both(Applied(op.resp.retrieved \ Contested), Resolved(Contested \cap Conflicted, recent))
SavedCollection == [u \in op.resp.saved |-> [saved |-> TRUE, p |-> Final(u, SavedState(u))]]
ConflictsCollection(recent) ==
  Both(Applied(op.resp.conflicts \ Conflicted),
       Resolved(op.resp.conflicts \cap Conflicted, recent))

LEMMA CollectionTypes ==
  ASSUME NEW n \in Nat, OperationTypes(n), master \in [Uuid -> Payloads(n) \cup {None}],
         uuids \in Nat, uuids + Cardinality(Duplicated) <= MaxUuid, NEW recent
  PROVE  /\ RetrievedCollection(recent) \in Partial(Elements(n))
         /\ SavedCollection \in Partial(Elements(n))
         /\ ConflictsCollection(recent) \in Partial(Elements(n))
<1>1. /\ op \in Operations(n) /\ op.resp \in Responses(n)
      /\ op.resp.saved \cup op.resp.retrieved \cup op.resp.conflicts
           \subseteq Present(op.resp.data)
      /\ Present(op.resp.data) \subseteq Uuid
  BY DEF OperationTypes, Operations, References, Present
<1>2. /\ Contested \cap Conflicted \subseteq Present(op.resp.data) \cap Present(master)
      /\ op.resp.conflicts \cap Conflicted \subseteq Present(op.resp.data) \cap Present(master)
  BY <1>1 DEF Contested, Conflicted
<1>3. /\ Applied(op.resp.retrieved \ Contested) \in Partial(Elements(n))
      /\ Applied(op.resp.conflicts \ Conflicted) \in Partial(Elements(n))
  BY <1>1, AppliedType
<1>4. /\ Resolved(Contested \cap Conflicted, recent) \in Partial(Elements(n))
      /\ Resolved(op.resp.conflicts \cap Conflicted, recent) \in Partial(Elements(n))
  BY <1>1, <1>2, ResolvedType
<1>5. \A u \in op.resp.saved : Final(u, SavedState(u)) \in Payloads(n)
  BY <1>1, DeltaTypes, FinalType
<1>6. SavedCollection \in [op.resp.saved -> Elements(n)]
  BY <1>5 DEF SavedCollection, Elements
<1>7. SavedCollection \in Partial(Elements(n))
  BY <1>1, <1>6, PartialIs
<1> QED
  BY <1>3, <1>4, <1>7, BothType DEF RetrievedCollection, ConflictsCollection

LEMMA MergedWithIs ==
  ASSUME NEW n \in Nat, NEW p \in Payloads(n), NEW e \in Elements(n), e.saved
  PROVE  /\ MergedWith(p, e) \in Payloads(n)
         /\ MergedWith(p, e).content = p.content
         /\ MergedWith(p, e).deleted = e.p.deleted
         /\ MergedWith(p, e).dirty = e.p.dirty
<1>1. p # None /\ e.p \in Payloads(n)
  BY PayloadsArePayloads DEF Elements
<1>2. MergedWith(p, e) = [p EXCEPT !.version = e.p.version, !.deleted = e.p.deleted,
                                   !.dirty = e.p.dirty, !.dirtied = e.p.dirtied]
  BY <1>1 DEF MergedWith
<1> QED
  BY <1>1, <1>2 DEF Payloads

LEMMA MergedType ==
  ASSUME NEW n \in Nat, master \in [Uuid -> Payloads(n) \cup {None}],
         NEW f \in Partial(Elements(n))
  PROVE  Merged(f) \in Partial(Payloads(n)) /\ DOMAIN Merged(f) = DOMAIN f
<1>1. DOMAIN f \in SUBSET Uuid /\ \A u \in DOMAIN f : f[u] \in Elements(n)
  BY PartialIs
<1>2. ASSUME NEW u \in DOMAIN f PROVE MergedWith(master[u], f[u]) \in Payloads(n)
  <2>1. u \in Uuid /\ f[u].p \in Payloads(n)
    BY <1>1 DEF Elements
  <2>2. CASE f[u].saved /\ master[u] # None
    BY <1>1, <2>1, <2>2, MergedWithIs
  <2>3. CASE ~(f[u].saved /\ master[u] # None)
    BY <1>1, <2>1, <2>3 DEF MergedWith
  <2> QED
    BY <2>2, <2>3
<1>3. Merged(f) \in [DOMAIN f -> Payloads(n)]
  BY <1>2 DEF Merged
<1> QED
  BY <1>1, <1>3, PartialIs

\* Emitting changes where the operation is, and what is left of the collections.
LEMMA EmitTypes ==
  ASSUME NEW n \in Nat, master \in [Uuid -> Payloads(n) \cup {None}], Kept(master),
         history \in Histories, conflictMap \in [Uuid -> SUBSET Uuid],
         op \in Operations(n), NEW cs \in Seq(Partial(Elements(n))), EmitNext(cs)
  PROVE  /\ master' \in [Uuid -> Payloads(n) \cup {None}] /\ Kept(master')
         /\ history' \in Histories /\ conflictMap' \in [Uuid -> SUBSET Uuid]
         /\ op' \in Operations(n)
         /\ op'.items = op.items /\ op'.pending = op.pending /\ op'.resp = op.resp
         /\ op'.unsynced = op.unsynced
<1>1. CASE cs = <<>>
  <2>1. <<>> \in Seq(Partial(Elements(n)))
    OBVIOUS
  <2>2. <<>> \in Partial(Payloads(n))
    <3>1. DOMAIN <<>> = {} /\ <<>> \in [{} -> Payloads(n)]
      OBVIOUS
    <3> QED
      BY <3>1, PartialIs
  <2>3. /\ op' = [op EXCEPT !.pc = "stored", !.collections = <<>>, !.unsaved = <<>>]
        /\ UNCHANGED items
    BY <1>1 DEF EmitNext
  <2>4. op' \in Operations(n)
    BY <2>1, <2>2, <2>3 DEF Operations
  <2>5. /\ op'.items = op.items /\ op'.pending = op.pending /\ op'.resp = op.resp
        /\ op'.unsynced = op.unsynced
    BY <2>3 DEF Operations
  <2> QED
    BY <2>3, <2>4, <2>5 DEF items
<1>2. CASE cs # <<>>
  <2> DEFINE f == Merged(Head(cs))
  <2>1. Head(cs) \in Partial(Elements(n)) /\ Tail(cs) \in Seq(Partial(Elements(n)))
    BY <1>2
  <2>2. f \in Partial(Payloads(n)) /\ DOMAIN f \subseteq Uuid
    BY <2>1, MergedType, PartialIs
  <2>3. /\ master' = Mapped(f) /\ conflictMap' = Related(f) /\ history' = Recorded(f)
        /\ op' = [op EXCEPT !.pc = "storing", !.collections = Tail(cs), !.unsaved = f]
    BY <1>2 DEF EmitNext
  <2> HIDE DEF f
  <2>4. /\ op' \in Operations(n)
        /\ op'.items = op.items /\ op'.pending = op.pending /\ op'.resp = op.resp
        /\ op'.unsynced = op.unsynced
    BY <2>1, <2>2, <2>3 DEF Operations
  <2> QED
    BY <2>2, <2>3, <2>4, MappedType, RelatedType, RecordedType
<1> QED
  BY <1>1, <1>2

-----------------------------------------------------------------------------
(****************************************************************************)
(* Types are kept by every step.                                            *)
(****************************************************************************)
LEMMA NoSyncType ==
  ASSUME NEW n \in Nat
  PROVE  NoSync \in Operations(n) /\ Present(NoSync.items) = {} /\ Present(NoResponse.data) = {}
<1>1. NoResponse \in Responses(n)
  BY DEF NoResponse, Responses
<1>2. <<>> \in Partial(Payloads(n))
  <2>1. DOMAIN <<>> = {} /\ <<>> \in [{} -> Payloads(n)]
    OBVIOUS
  <2> QED
    BY <2>1, PartialIs
<1>3. <<>> \in Seq(Partial(Elements(n)))
  OBVIOUS
<1> QED
  BY <1>1, <1>2, <1>3 DEF NoSync, Operations, Present, NoResponse

LEMMA TypeInvInit == Init => TypeInv
<1> SUFFICES ASSUME Init PROVE TypeInv
  OBVIOUS
<1>1. Initial \subseteq Uuid /\ Items \in Nat /\ Initial = 1 .. Items
  BY UuidAssumption DEF Initial, Uuid
<1>2. WrittenType(Items)
  BY <1>1 DEF Init, WrittenType
<1>3. OperationTypes(Items)
  BY <1>1, NoSyncType DEF Init, OperationTypes, References, NoSync, NoResponse
<1>4. master \in [Uuid -> Payloads(Items) \cup {None}]
  BY <1>1 DEF Init, Payloads
<1>5. Kept(master) /\ Undated(master)
  <2>1. ASSUME NEW u \in Present(master) PROVE ~discardable(master[u]) /\ master[u] = Stored(master[u])
    <3>1. /\ u \in Uuid
          /\ master[u] = [content |-> u, version |-> 1, deleted |-> FALSE, dirty |-> FALSE,
                          dirtied |-> "unset", began |-> FALSE]
      BY <2>1 DEF Init, Present
    <3>2. master[u] \in Payloads(Items)
      BY <1>4, <3>1, <2>1 DEF Present
    <3>3. master[u].dirtied = "unset" /\ master[u].began = FALSE /\ master[u].deleted = FALSE
      BY <3>1
    <3> QED
      BY <1>1, <3>2, <3>3, UndatedStored DEF discardable
  <2> QED
    BY <2>1 DEF Kept, Undated
<1>6. ClientTypes(Items)
  BY <1>1, <1>4, <1>5 DEF Init, ClientTypes, Histories, Content, NoContent
<1>7. OtherTypes(Items)
  BY <1>1 DEF Init, OtherTypes, ServerItems
<1> QED
  BY <1>1, <1>2, <1>3, <1>6, <1>7 DEF TypeInv, Types

LEMMA WriteType ==
  ASSUME NEW n \in Nat, WrittenType(n), NEW u \in Uuid, NEW old \in 0 .. n,
         written' = Write(u, old)
  PROVE  WrittenType(n + 1)' /\ n + 1 \in Nat
<1> DEFINE r == [item |-> u, replaces |-> IF old = NoContent THEN {}
                                          ELSE {old} \cup written[old].replaces]
<1>1. r \in [item : Uuid, replaces : SUBSET Content]
  <2>1. CASE old = NoContent
    BY <2>1
  <2>2. CASE old # NoContent
    <3>1. old \in 1 .. Len(written) /\ old \in Content
      BY <2>2 DEF WrittenType, NoContent, Content
    <3>2. \A S : written \in Seq(S) => written[old] \in S
      BY <3>1
    <3>3. written[old] \in [item : Uuid, replaces : SUBSET Content]
      BY <3>2 DEF WrittenType
    <3> QED
      BY <2>2, <3>1, <3>3
  <2> QED
    BY <2>1, <2>2
<1>2. written' = Append(written, r)
  BY DEF Write
<1> HIDE DEF r
<1> QED
  BY <1>1, <1>2 DEF WrittenType

LEMMA MapLocallyTypes ==
  ASSUME NEW n \in Nat, ClientTypes(n), NEW u \in Uuid, NEW p \in Payloads(n),
         MapLocally(u, p), UNCHANGED <<conflictMap, store>>
  PROVE  ClientTypes(n)'
<1>1. Only(u, p) \in Partial(Payloads(n))
  BY OnlyType
<1>2. /\ master' \in [Uuid -> Payloads(n) \cup {None}] /\ Kept(master')
      /\ history' \in Histories
  BY <1>1, MappedType, RecordedType DEF MapLocally, ClientTypes
<1> QED
  BY <1>2 DEF ClientTypes, store

LEMMA UserTypes ==
  ASSUME NEW n \in Nat, Types(n), NEW u \in Uuid, Edit(u) \/ Delete(u) \/ Create
  PROVE  TypeInv'
<1>0. /\ None \notin Payloads(n) /\ n + 1 \in Nat
      /\ ClientTypes(n + 1) /\ OtherTypes(n + 1) /\ OperationTypes(n + 1)
  BY PayloadsArePayloads, TypesGrow DEF Types
<1>1. CASE Edit(u)
  <2>1. master[u] \in Payloads(n) /\ master[u].content \in 0 .. n
    BY <1>1 DEF Edit, Types, ClientTypes, Payloads
  <2>2. WrittenType(n + 1)'
    BY <1>1, <2>1, WriteType DEF Edit, Types
  <2>3. Len(written') = n + 1
    BY <2>2 DEF WrittenType
  <2>4. [master[u] EXCEPT !.content = Len(written'), !.dirty = TRUE, !.dirtied = "since"]
          \in Payloads(n + 1)
    <3>1. master[u] \in Payloads(n + 1) /\ Len(written') \in 0 .. n + 1
      BY <1>0, <2>1, <2>3, OperationsGrow
    <3> QED
      BY <1>0, <3>1, EditedPayload
  <2>5. ClientTypes(n + 1)'
    BY <1>0, <1>1, <2>4, MapLocallyTypes DEF Edit
  <2>6. OtherTypes(n + 1)' /\ OperationTypes(n + 1)'
    BY <1>0, <1>1 DEF Edit, account, past, OtherTypes, OperationTypes, References, Present
  <2> QED
    BY <1>0, <2>2, <2>5, <2>6 DEF TypeInv, Types
<1>2. CASE Delete(u)
  <2>1. master[u] \in Payloads(n)
    BY <1>2 DEF Delete, Types, ClientTypes
  <2>2. [master[u] EXCEPT !.content = NoContent, !.deleted = TRUE, !.dirty = TRUE,
                          !.dirtied = "since"] \in Payloads(n)
    BY <2>1, DeletedPayload
  <2>3. ClientTypes(n)'
    BY <1>2, <2>2, MapLocallyTypes DEF Delete, Types
  <2>4. WrittenType(n)' /\ OtherTypes(n)' /\ OperationTypes(n)'
    BY <1>2 DEF Delete, Types, account, names, WrittenType, OtherTypes, OperationTypes,
                References, Present
  <2> QED
    BY <2>3, <2>4 DEF TypeInv, Types
<1>3. CASE Create
  <2>1. uuids + 1 \in Uuid /\ uuids' = uuids + 1
    BY <1>3, UuidAssumption DEF Create, Types, OtherTypes, Uuid
  <2>2. WrittenType(n + 1)'
    BY <1>3, <2>1, WriteType DEF Create, Types, NoContent
  <2>3. Len(written') = n + 1
    BY <2>2 DEF WrittenType
  <2>4. [content |-> Len(written'), version |-> 0, deleted |-> FALSE, dirty |-> TRUE,
         dirtied |-> "unset", began |-> FALSE] \in Payloads(n + 1)
    BY <2>3 DEF Payloads
  <2>5. ClientTypes(n + 1)'
    BY <1>0, <1>3, <2>1, <2>4, MapLocallyTypes DEF Create
  <2>6. OtherTypes(n + 1)' /\ OperationTypes(n + 1)'
    BY <1>0, <1>3, <2>1 DEF Create, account, past, OtherTypes, OperationTypes, References,
                            Present, Uuid
  <2> QED
    BY <1>0, <2>2, <2>5, <2>6 DEF TypeInv, Types
<1> QED
  BY <1>1, <1>2, <1>3

LEMMA RemoteTypes ==
  ASSUME NEW n \in Nat, Types(n), NEW u \in Uuid, RemoteEdit(u) \/ RemoteDelete(u)
  PROVE  TypeInv'
<1>0. /\ None \notin ServerItems(n) /\ n + 1 \in Nat
      /\ ClientTypes(n + 1) /\ OtherTypes(n + 1) /\ OperationTypes(n + 1)
  BY PayloadsArePayloads, TypesGrow DEF Types
<1>1. server[u] # None => server[u] \in ServerItems(n)
  BY DEF Types, OtherTypes
<1>2. CASE RemoteEdit(u)
  <2>1. server[u].content \in 0 .. n
    BY <1>1, <1>2 DEF RemoteEdit, ServerItems
  <2>2. WrittenType(n + 1)'
    BY <1>2, <2>1, WriteType DEF RemoteEdit, Types
  <2>3. Len(written') = n + 1
    BY <2>2 DEF WrittenType
  <2>4. ClientTypes(n + 1)' /\ OperationTypes(n + 1)'
    BY <1>0, <1>2 DEF RemoteEdit, client, items, store, ClientTypes, OperationTypes, References,
                      Present, Kept, Undated
  <2>5. [content |-> Len(written'), version |-> clock', deleted |-> FALSE] \in ServerItems(n + 1)
    BY <1>0, <1>2, <2>3 DEF RemoteEdit, OtherTypes, ServerItems
  <2>6. OtherTypes(n + 1)'
    BY <1>0, <1>2, <2>3, <2>5 DEF RemoteEdit, past, OtherTypes
  <2> QED
    BY <1>0, <2>2, <2>4, <2>6 DEF TypeInv, Types
<1>3. CASE RemoteDelete(u)
  <2>1. ClientTypes(n)' /\ OperationTypes(n)' /\ WrittenType(n)'
    BY <1>3 DEF RemoteDelete, client, items, store, names, Types, ClientTypes, OperationTypes,
                References, Present, Kept, Undated, WrittenType
  <2>2. [content |-> NoContent, version |-> clock', deleted |-> TRUE] \in ServerItems(n)
    BY <1>3 DEF RemoteDelete, Types, OtherTypes, ServerItems, NoContent
  <2>3. OtherTypes(n)'
    BY <1>3, <2>2 DEF RemoteDelete, names, Types, OtherTypes
  <2> QED
    BY <2>1, <2>3 DEF TypeInv, Types
<1> QED
  BY <1>2, <1>3

\* A request begins with the dirty items as they are; nothing but their dates changes.
LEMMA BeginSyncTypes ==
  ASSUME NEW n \in Nat, Types(n), BeginSync
  PROVE  /\ TypeInv'
         /\ op'.resp = NoResponse /\ op'.collections = <<>> /\ op'.unsaved = <<>>
         /\ op'.pc \in {"ready", "saving"} /\ op'.unsynced \subseteq Present(master)
         /\ \A u \in Present(op'.items) : u \in Present(master) /\ op'.items[u] = master[u]
         /\ \A u \in op'.pending : /\ u \in Present(op'.items) /\ master'[u] # None
                                   /\ master'[u].began = TRUE
         /\ \A u \in Present(master') : /\ u \in Present(master)
                                        /\ master'[u].content = master[u].content
                                        /\ master'[u].deleted = master[u].deleted
                                        /\ master'[u].dirty = master[u].dirty
         /\ Present(master) \subseteq Present(master')
         /\ Present(op'.items) = DirtyItems \ op'.unsynced
         /\ op'.token = token /\ missed' = missed \cup (op'.unsynced \cap Present(server))
         /\ UNCHANGED <<disk, token, diskToken, server, clock, uploaded, uuids>>
<1> PICK unsynced : unsynced = {u \in DirtyItems : neverSynced(master[u]) /\ master[u].deleted}
  OBVIOUS
<1> PICK captured : captured = DirtyItems \ unsynced
  OBVIOUS
<1> PICK mode : mode = IF firstDone THEN "Default" ELSE "DownloadFirst"
  OBVIOUS
<1> PICK pc : pc = IF captured = {} THEN "ready" ELSE "saving"
  OBVIOUS
<1> PICK its : its = [u \in Uuid |-> IF u \in captured THEN master[u] ELSE None]
  OBVIOUS
<1> PICK pending : pending = IF mode = "Default" THEN captured ELSE {}
  OBVIOUS
<1>1. /\ op' = [NoSync EXCEPT !.pc = pc, !.mode = mode, !.items = its, !.unsynced = unsynced,
                              !.pending = pending, !.token = token]
      /\ master' = [u \in Uuid |->
                      IF u \notin captured THEN master[u]
                      ELSE [master[u] EXCEPT !.began = TRUE,
                                             !.dirtied = IF @ = "unset" THEN @ ELSE "before"]]
      /\ missed' = missed \cup (unsynced \cap Present(server))
      /\ UNCHANGED <<conflictMap, history, store, account, names, deletions, left>>
  BY Zenon DEF BeginSync
<1>2. /\ captured \subseteq Present(master) /\ captured \subseteq Uuid /\ unsynced \subseteq Uuid
      /\ mode \in {"Default", "DownloadFirst"} /\ pc \in {"ready", "saving"}
      /\ pending \subseteq captured
  BY DEF DirtyItems, Present
<1>3. master \in [Uuid -> Payloads(n) \cup {None}] /\ Kept(master)
  BY DEF Types, ClientTypes
<1>4. its \in [Uuid -> Payloads(n) \cup {None}] /\ captured = Present(its)
  BY <1>2, <1>3 DEF Present
<1>5. ASSUME NEW u \in captured
      PROVE  /\ master'[u] \in Payloads(n) /\ master'[u].deleted = master[u].deleted
             /\ master'[u].dirty = master[u].dirty /\ master'[u].content = master[u].content
             /\ master'[u].began = TRUE
  <2>1. u \in Uuid /\ master[u] \in Payloads(n)
    BY <1>2, <1>3, <1>5 DEF Present
  <2> QED
    BY <1>1, <1>5, <2>1 DEF Payloads
<1>6. master' \in [Uuid -> Payloads(n) \cup {None}]
  <2>1. \A u \in Uuid \ captured : master'[u] = master[u]
    BY <1>1
  <2>2. \A u \in Uuid : master'[u] \in Payloads(n) \cup {None}
    BY <1>3, <1>5, <2>1
  <2>3. master' = [u \in Uuid |-> master'[u]]
    BY <1>1
  <2> QED
    BY <2>2, <2>3
<1>7. Kept(master')
  <2>1. ASSUME NEW u \in Present(master') PROVE ~discardable(master'[u])
    <3>1. CASE u \in captured
      BY <1>2, <1>3, <1>5, <3>1 DEF Kept, discardable
    <3>2. CASE u \notin captured
      BY <1>1, <1>3, <2>1, <3>2 DEF Kept, Present
    <3> QED
      BY <3>1, <3>2
  <2> QED
    BY <2>1 DEF Kept
<1>8. ClientTypes(n)' /\ WrittenType(n)'
  BY <1>1, <1>6, <1>7 DEF Types, ClientTypes, WrittenType, store, names
<1>9. OtherTypes(n)'
  BY <1>1, <1>2 DEF Types, OtherTypes, account, names
<1>10. op' \in Operations(n)
  <2>1. op' = [pc |-> pc, mode |-> mode, items |-> its, unsynced |-> unsynced,
               pending |-> pending, token |-> token, resp |-> NoSync.resp,
               collections |-> NoSync.collections, unsaved |-> NoSync.unsaved]
    BY <1>1 DEF NoSync
  <2>2. /\ NoSync.resp \in Responses(n) /\ NoSync.collections \in Seq(Partial(Elements(n)))
        /\ NoSync.unsaved \in Partial(Payloads(n))
    BY NoSyncType DEF Operations
  <2>3. pc \in {"idle", "saving", "ready", "sent", "received", "storing", "stored", "clearing",
               "stuck"} /\ pending \subseteq Uuid /\ token \in Nat
    BY <1>2 DEF Types, ClientTypes
  <2> QED
    BY <1>2, <1>4, <2>1, <2>2, <2>3 DEF Operations
<1>11. op'.items = its /\ op'.pending = pending /\ op'.resp = NoResponse
  BY <1>1 DEF NoSync
<1>12. OperationTypes(n)'
  BY <1>2, <1>4, <1>10, <1>11, NoSyncType DEF OperationTypes, References, NoResponse
<1>13. TypeInv'
  BY <1>8, <1>9, <1>12 DEF TypeInv, Types
<1>14. /\ op'.collections = <<>> /\ op'.unsaved = <<>> /\ op'.pc = pc /\ op'.unsynced = unsynced
       /\ op'.token = token
  BY <1>1 DEF NoSync
<1>15. unsynced \subseteq Present(master)
  BY DEF DirtyItems
<1>16. ASSUME NEW u \in Present(op'.items)
       PROVE  u \in Present(master) /\ op'.items[u] = master[u]
  <2>1. u \in captured /\ u \in Uuid
    BY <1>4, <1>11, <1>16 DEF Present
  <2> QED
    BY <1>2, <1>11, <2>1
<1>17. ASSUME NEW u \in op'.pending
       PROVE  u \in Present(op'.items) /\ master'[u] # None /\ master'[u].began = TRUE
  <2>1. u \in captured
    BY <1>2, <1>11, <1>17
  <2>2. u \in Present(op'.items)
    BY <1>4, <1>11, <2>1
  <2>3. master'[u] \in Payloads(n) /\ master'[u].began = TRUE
    BY <1>5, <2>1
  <2> QED
    BY <2>2, <2>3, PayloadsArePayloads
<1>18. ASSUME NEW u \in Present(master')
       PROVE  /\ u \in Present(master) /\ master'[u].content = master[u].content
              /\ master'[u].deleted = master[u].deleted /\ master'[u].dirty = master[u].dirty
  <2>1. CASE u \in captured
    BY <1>2, <1>5, <2>1
  <2>2. CASE u \notin captured
    BY <1>1, <1>18, <2>2 DEF Present
  <2> QED
    BY <2>1, <2>2
<1>19. UNCHANGED <<disk, token, diskToken, server, clock, uploaded, uuids>>
  BY <1>1 DEF store, account, names
<1>20. Present(master) \subseteq Present(master')
  <2>1. ASSUME NEW u \in Present(master) PROVE u \in Present(master')
    <3>1. CASE u \in captured
      BY <1>5, <2>1, <3>1, PayloadsArePayloads DEF Present
    <3>2. CASE u \notin captured
      BY <1>1, <2>1, <3>2 DEF Present
    <3> QED
      BY <3>1, <3>2
  <2> QED
    BY <2>1
<1>21. Present(op'.items) = DirtyItems \ op'.unsynced
  BY <1>4, <1>11, <1>14
<1>22. missed' = missed \cup (op'.unsynced \cap Present(server))
  BY <1>1, <1>14
<1> QED
  BY <1>2, <1>11, <1>13, <1>14, <1>15, <1>16, <1>17, <1>18, <1>19, <1>20, <1>21, <1>22

\* What the server makes of a batch.
LEMMA ServeTypes ==
  ASSUME NEW n \in Nat, OtherTypes(n), OperationTypes(n), NEW S \in SUBSET op.pending, Serve(S)
  PROVE  /\ server' \in [Uuid -> ServerItems(n) \cup {None}] /\ clock' \in Nat
         /\ uploaded' \subseteq 0 .. n /\ OperationTypes(n)'
         /\ op'.items = op.items /\ op'.pending = op.pending \ S
         /\ op'.resp.saved \subseteq S /\ op'.resp.data = server' /\ op'.pc = "sent"
         /\ op'.resp.retrieved \cap S = {} /\ op'.resp.conflicts = S \ op'.resp.saved
         /\ op'.unsynced = op.unsynced /\ op'.collections = op.collections
         /\ op'.unsaved = op.unsaved
<1> PICK saved : saved = {u \in S : Accepts(u)}
  OBVIOUS
<1> PICK now : now = IF saved = {} THEN clock ELSE clock + 1
  OBVIOUS
<1> PICK then : then = [u \in Uuid |-> IF u \notin saved THEN server[u]
                                       ELSE [content |-> op.items[u].content, version |-> now,
                                             deleted |-> op.items[u].deleted]]
  OBVIOUS
<1> PICK retrieved : retrieved = {u \in Uuid \ S : server[u] # None
                                                  /\ server[u].version > op.token}
  OBVIOUS
<1> DEFINE resp == [saved |-> saved, conflicts |-> S \ saved, retrieved |-> retrieved,
                    data |-> then, token |-> now]
<1>1. /\ server' = then /\ clock' = now
      /\ uploaded' = uploaded \cup ({then[u].content : u \in saved} \ {NoContent})
      /\ op' = [op EXCEPT !.pc = "sent", !.pending = @ \ S, !.resp = resp]
  BY ZenonT(40) DEF Serve
<1>2. /\ op \in Operations(n) /\ op.pending \subseteq Present(op.items)
      /\ S \subseteq Uuid /\ saved \subseteq S /\ now \in Nat /\ retrieved \subseteq Uuid \ S
      /\ op.items \in [Uuid -> Payloads(n) \cup {None}] /\ op.pending \in SUBSET Uuid
  BY DEF OperationTypes, Operations, References, OtherTypes
<1>3. ASSUME NEW u \in saved
      PROVE  /\ then[u] \in ServerItems(n) /\ then[u].content \in 0 .. n
  <2>1. u \in Uuid /\ op.items[u] \in Payloads(n)
    BY <1>2 DEF Present
  <2> QED
    BY <1>2, <2>1 DEF Payloads, ServerItems
<1>4. then \in [Uuid -> ServerItems(n) \cup {None}]
  <2>1. \A u \in Uuid \ saved : then[u] = server[u]
    OBVIOUS
  <2>2. \A u \in Uuid : then[u] \in ServerItems(n) \cup {None}
    BY <1>3, <2>1 DEF OtherTypes
  <2>3. then = [u \in Uuid |-> then[u]]
    OBVIOUS
  <2> QED
    BY <2>2, <2>3
<1>5. uploaded' \subseteq 0 .. n
  BY <1>1, <1>3 DEF OtherTypes
<1>6. resp \in Responses(n)
  BY <1>2, <1>4 DEF Responses
<1>7. saved \cup retrieved \cup (S \ saved) \subseteq Present(then)
  <2>1. ASSUME NEW u \in saved PROVE u \in Present(then)
    BY <1>2, <1>3, PayloadsArePayloads DEF Present
  <2>2. ASSUME NEW u \in S \ saved PROVE u \in Present(then)
    BY <1>2, <2>2 DEF Accepts, Present
  <2>3. ASSUME NEW u \in retrieved PROVE u \in Present(then)
    BY <1>2, <2>3 DEF Present
  <2> QED
    BY <2>1, <2>2, <2>3
<1>8. /\ resp.saved = saved /\ resp.conflicts = S \ saved /\ resp.retrieved = retrieved
      /\ resp.data = then
  OBVIOUS
<1> HIDE DEF resp
<1>9. /\ op'.pc = "sent" /\ op'.items = op.items /\ op'.pending = op.pending \ S
      /\ op'.resp = resp /\ op'.unsynced = op.unsynced /\ op'.collections = op.collections
      /\ op'.unsaved = op.unsaved
  BY <1>1, <1>2 DEF Operations
<1>10. op' \in Operations(n)
  BY <1>1, <1>2, <1>6 DEF Operations
<1>11. OperationTypes(n)'
  BY <1>2, <1>7, <1>8, <1>9, <1>10 DEF OperationTypes, References, Present
<1> QED
  BY <1>1, <1>2, <1>4, <1>5, <1>8, <1>9, <1>11

LEMMA PageFailedTypes ==
  ASSUME NEW n \in Nat, OperationTypes(n), NEW S \in SUBSET op.pending, PageFailed(S)
  PROVE  OperationTypes(n)'
<1>1. /\ op \in Operations(n) /\ op.pending \subseteq Present(op.items) /\ S \in SUBSET Uuid
  BY DEF OperationTypes, Operations, References
<1>2. CASE S = {}
  BY <1>2, NoSyncType DEF PageFailed, OperationTypes, References, NoSync, NoResponse
<1>3. CASE S # {}
  <2>1. op' = [op EXCEPT !.pc = "ready", !.pending = S, !.token = 0, !.resp = NoResponse]
    BY <1>3 DEF PageFailed
  <2>2. NoResponse \in Responses(n)
    BY NoSyncType DEF NoSync, Operations
  <2>3. op' \in Operations(n) /\ op'.items = op.items /\ op'.pending = S /\ op'.resp = NoResponse
    BY <1>1, <2>1, <2>2 DEF Operations
  <2> QED
    BY <1>1, <2>3 DEF OperationTypes, References, NoResponse
<1> QED
  BY <1>2, <1>3

LEMMA RequestTypes ==
  ASSUME NEW n \in Nat, Types(n),
         \/ PreSyncSaved \/ Send \/ Receive \/ RequestLost \/ ResponseLost \/ TokenStored
         \/ ProcessingThrows
  PROVE  TypeInv'
<1> USE DEF Types, names, past, items, store, client, account
<1>1. CASE PreSyncSaved
  <2>1. [u \in Captured |-> op.items[u]] \in Partial(Payloads(n))
    BY PartialIs DEF OperationTypes, Operations, Captured, Present
  <2>2. disk' \in [Uuid -> Payloads(n) \cup {None}] /\ Kept(disk') /\ Undated(disk')
    BY <1>1, <2>1, SaveType DEF PreSyncSaved, ClientTypes
  <2>3. OperationTypes(n)'
    BY <1>1 DEF PreSyncSaved, OperationTypes, Operations, References
  <2> QED
    BY <1>1, <2>2, <2>3 DEF PreSyncSaved, TypeInv, ClientTypes, OtherTypes, WrittenType
<1>2. CASE Send
  <2>1. PICK S \in SUBSET op.pending : Serve(S)
    BY <1>2 DEF Send, Batches
  <2>2. /\ server' \in [Uuid -> ServerItems(n) \cup {None}] /\ clock' \in Nat
        /\ uploaded' \subseteq 0 .. n /\ OperationTypes(n)' /\ op'.resp.saved \subseteq Uuid
    BY <2>1, ServeTypes DEF OperationTypes, Operations
  <2> QED
    BY <1>2, <2>2 DEF Send, TypeInv, ClientTypes, OtherTypes, WrittenType, Kept, Undated, Present
<1>3. CASE Receive
  <2>1. op'  = [op EXCEPT !.pc = "received", !.token = op.resp.token] /\ op.resp.token \in Nat
    BY <1>3 DEF Receive, OperationTypes, Operations, Responses
  <2>2. OperationTypes(n)'
    BY <2>1 DEF OperationTypes, Operations, References
  <2> QED
    BY <1>3, <2>1, <2>2 DEF Receive, TypeInv, ClientTypes, OtherTypes, WrittenType, Kept, Undated,
                            Present
<1>4. CASE RequestLost \/ ResponseLost
  <2>1. \E S \in SUBSET op.pending : PageFailed(S)
    BY <1>4 DEF RequestLost, ResponseLost
  <2>2. OperationTypes(n)'
    BY <2>1, PageFailedTypes
  <2> QED
    BY <1>4, <2>2 DEF RequestLost, ResponseLost, TypeInv, ClientTypes, OtherTypes, WrittenType,
                      Kept, Undated, Present
<1>5. CASE TokenStored
  BY <1>5 DEF TokenStored, TypeInv, ClientTypes, OtherTypes, WrittenType, OperationTypes,
              References, Kept, Undated, Present
<1>6. CASE ProcessingThrows
  <2>1. OperationTypes(n)'
    BY <1>6 DEF ProcessingThrows, OperationTypes, Operations, References
  <2> QED
    BY <1>6, <2>1 DEF ProcessingThrows, TypeInv, ClientTypes, OtherTypes, WrittenType, Kept,
                      Undated, Present
<1> QED
  BY <1>1, <1>2, <1>3, <1>4, <1>5, <1>6

\* The collections of a response are those three, without the empty ones.
LEMMA CollectionsOfResponse ==
  ASSUME NEW T, NEW recent, RetrievedCollection(recent) \in T, SavedCollection \in T,
         ConflictsCollection(recent) \in T
  PROVE  /\ CollectionsByProcessingResponse(recent) \in Seq(T)
         /\ Collects(CollectionsByProcessingResponse(recent), RetrievedCollection(recent),
                     SavedCollection, ConflictsCollection(recent))
<1> PICK f : f = RetrievedCollection(recent)
  OBVIOUS
<1> PICK g : g = SavedCollection
  OBVIOUS
<1> PICK h : h = ConflictsCollection(recent)
  OBVIOUS
<1> PICK c : c = CollectionsByProcessingResponse(recent)
  OBVIOUS
<1>1. c = NonEmpty(f) \o NonEmpty(g) \o NonEmpty(h)
  BY DEF CollectionsByProcessingResponse, RetrievedCollection, SavedCollection, ConflictsCollection
<1>2. f \in T /\ g \in T /\ h \in T
  OBVIOUS
<1>3. c \in Seq(T) /\ Collects(c, f, g, h)
  BY <1>1, <1>2, CollectionsAre
<1> QED
  BY <1>3

LEMMA ProcessResponseTypes ==
  ASSUME NEW n \in Nat, Types(n), ProcessResponse
  PROVE  TypeInv'
<1>1. /\ master \in [Uuid -> Payloads(n) \cup {None}] /\ Kept(master) /\ history \in Histories
      /\ conflictMap \in [Uuid -> SUBSET Uuid] /\ op \in Operations(n) /\ uuids \in Nat
      /\ uuids + Cardinality(Duplicated) <= MaxUuid /\ OperationTypes(n)
  BY DEF Types, ClientTypes, OtherTypes, OperationTypes, ProcessResponse
<1>2. PICK recent \in SUBSET Duplicated : EmitNext(CollectionsByProcessingResponse(recent))
  BY DEF ProcessResponse
<1>3. CollectionsByProcessingResponse(recent) \in Seq(Partial(Elements(n)))
  BY <1>1, CollectionTypes, CollectionsOfResponse
<1>4. /\ master' \in [Uuid -> Payloads(n) \cup {None}] /\ Kept(master')
      /\ history' \in Histories /\ conflictMap' \in [Uuid -> SUBSET Uuid]
      /\ op' \in Operations(n) /\ op'.items = op.items /\ op'.pending = op.pending
      /\ op'.resp = op.resp
  BY <1>1, <1>2, <1>3, EmitTypes
<1>5. OperationTypes(n)'
  BY <1>1, <1>4 DEF OperationTypes, References, Present
<1>6. copyOf' \in [Uuid -> Uuid \cup {0}]
  <2>1. ASSUME NEW v \in Copied(Uuid)
        PROVE  (CHOOSE u \in Duplicated : CopyUuid(u) = v) \in Uuid
    <3>1. \E u \in Duplicated : CopyUuid(u) = v
      BY <2>1 DEF Copied
    <3>2. Duplicated \subseteq Uuid
      BY DEF Duplicated, Conflicted, Present
    <3> QED
      BY <3>1, <3>2
  <2> QED
    BY <2>1 DEF ProcessResponse, Types, OtherTypes
<1>7. Cardinality(Duplicated) \in Nat
  <2>1. Duplicated \subseteq Uuid
    BY DEF Duplicated, Conflicted, Present
  <2>2. IsFiniteSet(Uuid)
    BY UuidAssumption, FS_Interval DEF Uuid
  <2> QED
    BY <2>1, <2>2, FS_Subset, FS_CardinalityType
<1>8. ClientTypes(n)'
  BY <1>4 DEF ProcessResponse, Types, ClientTypes, Kept, Undated, Present
<1>9. OtherTypes(n)' /\ WrittenType(n)'
  BY <1>1, <1>6, <1>7 DEF ProcessResponse, Types, OtherTypes, account, past, WrittenType
<1> QED
  BY <1>5, <1>8, <1>9 DEF TypeInv, Types

LEMMA CollectionStoredTypes ==
  ASSUME NEW n \in Nat, Types(n), CollectionStored
  PROVE  TypeInv'
<1>1. /\ master \in [Uuid -> Payloads(n) \cup {None}] /\ Kept(master) /\ history \in Histories
      /\ conflictMap \in [Uuid -> SUBSET Uuid] /\ op \in Operations(n) /\ OperationTypes(n)
      /\ disk \in [Uuid -> Payloads(n) \cup {None}] /\ Kept(disk) /\ Undated(disk)
  BY DEF Types, ClientTypes, OperationTypes
<1>2. op.collections \in Seq(Partial(Elements(n))) /\ op.unsaved \in Partial(Payloads(n))
  BY <1>1 DEF Operations
<1>3. /\ master' \in [Uuid -> Payloads(n) \cup {None}] /\ Kept(master')
      /\ history' \in Histories /\ conflictMap' \in [Uuid -> SUBSET Uuid]
      /\ op' \in Operations(n) /\ op'.items = op.items /\ op'.pending = op.pending
      /\ op'.resp = op.resp
  BY <1>1, <1>2, EmitTypes DEF CollectionStored
<1>4. disk' \in [Uuid -> Payloads(n) \cup {None}] /\ Kept(disk') /\ Undated(disk')
  BY <1>1, <1>2, SaveType DEF CollectionStored
<1>5. OperationTypes(n)'
  BY <1>1, <1>3 DEF OperationTypes, References, Present
<1>6. ClientTypes(n)' /\ OtherTypes(n)' /\ WrittenType(n)'
  BY <1>3, <1>4 DEF CollectionStored, Types, ClientTypes, OtherTypes, WrittenType, account, names,
                    past
<1> QED
  BY <1>5, <1>6 DEF TypeInv, Types

LEMMA EndTypes ==
  ASSUME NEW n \in Nat, Types(n), EndPage \/ NeverSyncedCleared
  PROVE  TypeInv'
<1>1. /\ master \in [Uuid -> Payloads(n) \cup {None}] /\ Kept(master)
      /\ conflictMap \in [Uuid -> SUBSET Uuid] /\ op \in Operations(n) /\ OperationTypes(n)
      /\ disk \in [Uuid -> Payloads(n) \cup {None}] /\ Kept(disk) /\ Undated(disk)
  BY DEF Types, ClientTypes, OperationTypes
<1>2. ASSUME op' = NoSync PROVE OperationTypes(n)'
  BY <1>2, NoSyncType DEF OperationTypes, References, NoSync, NoResponse
<1>3. CASE EndPage
  <2>1. disk' \in [Uuid -> Payloads(n) \cup {None}] /\ Kept(disk') /\ Undated(disk')
    BY <1>1, <1>3 DEF EndPage, Kept, Undated, Present
  <2>2. /\ master' \in [Uuid -> Payloads(n) \cup {None}] /\ Kept(master')
        /\ conflictMap' \in [Uuid -> SUBSET Uuid] /\ OperationTypes(n)' /\ firstDone' \in BOOLEAN
    <3>1. CASE op.pending # {}
      <4>1. op' = [op EXCEPT !.pc = "ready", !.resp = NoResponse]
            /\ UNCHANGED <<master, conflictMap, firstDone>>
        BY <1>3, <3>1 DEF EndPage
      <4>2. NoResponse \in Responses(n)
        BY NoSyncType DEF NoSync, Operations
      <4>3. op' \in Operations(n) /\ op'.items = op.items /\ op'.pending = op.pending
            /\ op'.resp = NoResponse
        BY <1>1, <4>1, <4>2 DEF Operations
      <4>4. OperationTypes(n)'
        BY <1>1, <4>3 DEF OperationTypes, References, NoResponse
      <4> QED
        BY <1>1, <4>1, <4>4 DEF Types, ClientTypes, Kept, Present
    <3>2. CASE op.pending = {} /\ op.unsynced # {}
      <4>1. /\ master' = Mapped(Cleared) /\ conflictMap' = Related(Cleared)
            /\ op' = [op EXCEPT !.pc = "clearing", !.unsaved = Cleared] /\ UNCHANGED firstDone
        BY <1>3, <3>2 DEF EndPage
      <4>2. Gone \in Payloads(n) /\ op.unsynced \in SUBSET Uuid
        BY <1>1 DEF Gone, Payloads, NoContent, Operations
      <4>3. Cleared \in Partial(Payloads(n)) /\ DOMAIN Cleared \subseteq Uuid
        BY <4>2, PartialIs DEF Cleared
      <4> HIDE DEF Cleared
      <4>4. op' \in Operations(n) /\ op'.items = op.items /\ op'.pending = op.pending
            /\ op'.resp = op.resp
        BY <1>1, <4>1, <4>3 DEF Operations
      <4>5. OperationTypes(n)'
        BY <1>1, <4>4 DEF OperationTypes, References, Present
      <4> QED
        BY <1>1, <4>1, <4>3, <4>5, MappedType, RelatedType DEF Types, ClientTypes
    <3>3. CASE op.pending = {} /\ op.unsynced = {}
      <4>1. op' = NoSync /\ firstDone' = TRUE /\ UNCHANGED <<master, conflictMap>>
        BY <1>3, <3>3 DEF EndPage
      <4> QED
        BY <1>1, <1>2, <4>1 DEF Kept, Present
    <3> QED
      BY <3>1, <3>2, <3>3
  <2> QED
    BY <1>3, <2>1, <2>2 DEF EndPage, TypeInv, Types, ClientTypes, OtherTypes, WrittenType, account,
                            names, past
<1>4. CASE NeverSyncedCleared
  <2>1. op.unsaved \in Partial(Payloads(n))
    BY <1>1 DEF Operations
  <2>2. disk' \in [Uuid -> Payloads(n) \cup {None}] /\ Kept(disk') /\ Undated(disk')
    BY <1>1, <1>4, <2>1, SaveType DEF NeverSyncedCleared
  <2> QED
    BY <1>2, <1>4, <2>2 DEF NeverSyncedCleared, TypeInv, Types, ClientTypes, OtherTypes,
                            WrittenType, account, names, past, items, Kept, Present
<1> QED
  BY <1>3, <1>4

LEMMA PendingWriteType ==
  ASSUME NEW n \in Nat, op \in Operations(n)
  PROVE  PendingWrite \in Partial(Payloads(n))
<1>1. CASE op.pc = "saving"
  <2>1. [u \in Captured |-> op.items[u]] \in Partial(Payloads(n))
    BY PartialIs DEF Operations, Captured, Present
  <2> QED
    BY <1>1, <2>1 DEF PendingWrite
<1>2. CASE op.pc \in {"storing", "clearing"}
  <2>1. op.unsaved \in Partial(Payloads(n))
    BY DEF Operations
  <2> QED
    BY <1>2, <2>1 DEF PendingWrite
<1>3. CASE op.pc \notin {"saving", "storing", "clearing"}
  <2>1. PendingWrite = NoSync.unsaved
    BY <1>3 DEF PendingWrite, NoSync
  <2>2. NoSync.unsaved \in Partial(Payloads(n))
    BY NoSyncType DEF Operations
  <2> QED
    BY <2>1, <2>2
<1> QED
  BY <1>1, <1>2, <1>3

LEMMA RestartTypes ==
  ASSUME NEW n \in Nat, Types(n), Restart
  PROVE  TypeInv'
<1>1. op \in Operations(n) /\ disk \in [Uuid -> Payloads(n) \cup {None}] /\ Kept(disk)
      /\ Undated(disk)
  BY DEF Types, ClientTypes, OperationTypes
<1>2. PICK landed \in BOOLEAN : /\ disk' = IF landed THEN Save(PendingWrite) ELSE disk
                                /\ missed' = missed \cup PassedOver(landed)
  BY DEF Restart
<1>3. disk' \in [Uuid -> Payloads(n) \cup {None}] /\ Kept(disk') /\ Undated(disk')
  <2>1. CASE landed
    <3>1. disk' = Save(PendingWrite)
      BY <1>2, <2>1
    <3> QED
      BY <1>1, <3>1, PendingWriteType, SaveType
  <2>2. CASE ~landed
    <3>1. disk' = disk
      BY <1>2, <2>2
    <3> QED
      BY <1>1, <3>1 DEF Kept, Undated, Present
  <2> QED
    BY <2>1, <2>2
<1>4. PassedOver(landed) \subseteq Uuid
  BY <1>1 DEF PassedOver, Responded, Operations, Responses
<1>5. \A u \in Uuid : disk'[u] # None => disk'[u].content \in Content
  BY <1>3 DEF Payloads, Content
<1>6. ClientTypes(n)'
  <2>1. master' \in [Uuid -> Payloads(n) \cup {None}] /\ Kept(master')
    BY <1>3 DEF Restart, Kept, Present
  <2>2. history' \in Histories
    BY <1>5 DEF Restart, Histories, Content, NoContent
  <2>3. conflictMap' \in [Uuid -> SUBSET Uuid]
    BY DEF Restart, Present
  <2> QED
    BY <1>3, <2>1, <2>2, <2>3 DEF Restart, Types, ClientTypes
<1>7. OperationTypes(n)'
  BY NoSyncType DEF Restart, OperationTypes, References, NoSync, NoResponse
<1>8. OtherTypes(n)' /\ WrittenType(n)'
  BY <1>2, <1>4 DEF Restart, Types, OtherTypes, WrittenType, account, names
<1> QED
  BY <1>6, <1>7, <1>8 DEF TypeInv, Types

LEMMA TypeInvNext == TypeInv /\ [Next]_vars => TypeInv'
<1> SUFFICES ASSUME TypeInv, [Next]_vars PROVE TypeInv'
  OBVIOUS
<1>1. PICK n \in Nat : Types(n)
  BY DEF TypeInv
<1>2. CASE Progress
  BY <1>1, <1>2, BeginSyncTypes, RequestTypes, ProcessResponseTypes, CollectionStoredTypes, EndTypes
     DEF Progress
<1>3. CASE Surroundings
  <2>1. CASE \E u \in Uuid : Edit(u) \/ Delete(u) \/ RemoteEdit(u) \/ RemoteDelete(u)
    BY <1>1, <2>1, UserTypes, RemoteTypes
  <2>2. CASE Create
    <3>1. \E u \in Uuid : TRUE
      BY <1>1, <2>2, UuidAssumption DEF Create, Types, OtherTypes, Uuid
    <3> QED
      BY <1>1, <2>2, <3>1, UserTypes
  <2>3. CASE RequestLost \/ ResponseLost \/ TokenStored
    BY <1>1, <2>3, RequestTypes
  <2>4. CASE Restart
    BY <1>1, <2>4, RestartTypes
  <2> QED
    BY <1>3, <2>1, <2>2, <2>3, <2>4 DEF Surroundings
<1>4. CASE UNCHANGED vars
  <2>1. Types(n)'
    BY <1>1, <1>4 DEF vars, client, items, store, account, names, past, Types, WrittenType,
                      ClientTypes, OtherTypes, OperationTypes, References, Kept, Undated, Present
  <2> QED
    BY <2>1 DEF TypeInv
<1> QED
  BY <1>2, <1>3, <1>4 DEF Next

LEMMA TypeInvImpliesTypeOK == TypeInv => TypeOK
<1> SUFFICES ASSUME TypeInv PROVE TypeOK
  OBVIOUS
<1>1. PICK n \in Nat : Types(n)
  BY DEF TypeInv
<1>2. /\ Payloads(n) \subseteq Payload /\ ServerItems(n) \subseteq ServerItem
      /\ Elements(n) \subseteq Element /\ 0 .. n \subseteq Content
  BY PayloadsArePayloads DEF Content
<1>3. OperationOK
  <2>1. op \in Operations(n)
    BY <1>1 DEF Types, OperationTypes
  <2>2. ASSUME NEW i \in DOMAIN op.collections PROVE Some(op.collections[i], Element)
    <3>1. op.collections[i] \in Partial(Elements(n))
      BY <2>1, <2>2 DEF Operations
    <3> QED
      BY <1>2, <3>1, PartialIs DEF Some
  <2>3. Some(op.unsaved, Payload)
    <3>1. op.unsaved \in Partial(Payloads(n))
      BY <2>1 DEF Operations
    <3> QED
      BY <1>2, <3>1, PartialIs DEF Some
  <2>4. op.resp \in Responses(n)
    BY <2>1 DEF Operations
  <2>5. /\ op.pc \in {"idle", "saving", "ready", "sent", "received", "storing", "stored",
                      "clearing", "stuck"}
        /\ op.mode \in {"Default", "DownloadFirst"}
        /\ op.unsynced \in SUBSET Uuid /\ op.pending \in SUBSET Uuid /\ op.token \in Nat
        /\ op.items \in [Uuid -> Payload \cup {None}]
    BY <1>2, <2>1 DEF Operations
  <2>6. /\ op.resp.saved \in SUBSET Uuid /\ op.resp.retrieved \in SUBSET Uuid
        /\ op.resp.conflicts \in SUBSET Uuid /\ op.resp.token \in Nat
        /\ op.resp.data \in [Uuid -> ServerItem \cup {None}]
    BY <1>2, <2>4 DEF Responses
  <2> QED
    BY <2>2, <2>3, <2>5, <2>6 DEF OperationOK
<1>4. /\ master \in [Uuid -> Payload \cup {None}] /\ disk \in [Uuid -> Payload \cup {None}]
      /\ \A u \in Present(master) : ~discardable(master[u])
      /\ \A u \in Present(disk) : ~discardable(disk[u]) /\ disk[u] = Stored(disk[u])
  BY <1>1, <1>2 DEF Types, ClientTypes, Kept, Undated
<1> QED
  BY <1>1, <1>2, <1>3, <1>4 DEF TypeOK, Types, ClientTypes, OtherTypes, WrittenType, Histories

(****************************************************************************)
(* Every variable keeps its type, whatever the items, the edits on either   *)
(* side, the pages and the failures: no payload is kept that should have    *)
(* been discarded, and no response speaks of an item that it has no state   *)
(* of.                                                                      *)
(****************************************************************************)
THEOREM TypeCorrect == Spec => []TypeOK
<1>1. TypeInv /\ [Next]_vars => TypeInv'
  BY TypeInvNext
<1> QED
  BY <1>1, TypeInvInit, TypeInvImpliesTypeOK, PTL DEF Spec

-----------------------------------------------------------------------------
(****************************************************************************)
(* The inductive invariant of CleanMeansUploaded.  The operators take the   *)
(* state they speak of, up for uploaded and s for server, as arguments.     *)
(****************************************************************************)

\* Payload p is not forgotten: what it says is to be uploaded, or has been.
Sound(p, up) ==
  IF p.deleted THEN p.content = NoContent
  ELSE p.content # NoContent /\ (p.dirty \/ p.content \in up)

\* The server has had the content of each of its items that is not deleted.
Known(p, up) == IF p.deleted THEN p.content = NoContent ELSE p.content \in up

\* Payload p was uploaded, or will be seen to have changed since the request began.
Noticed(p, up) == p.deleted \/ p.content \in up \/ p.dirtied = "since"

DeletedThere(u, s) == s[u] # None /\ s[u].deleted

SoundIn(f, up) == \A u \in Present(f) : Sound(f[u], up)
KnownIn(f, up) == \A u \in Present(f) : Known(f[u], up)

\* What has yet to be sent is what the client has, or is noticed not to be; an item that
\* the client has no more was deleted by others.
Followed(pending, its, m, up, s) ==
  \A u \in pending :
    IF m[u] = None THEN DeletedThere(u, s)
    ELSE m[u].began /\ (m[u].content = its[u].content \/ Noticed(m[u], up))

\* A deletion that was answered is the server's still, of the items not sent yet.
Deleted(pending, data, s) ==
  \A u \in pending : data[u] # None /\ data[u].deleted => DeletedThere(u, s)

\* An item that the client has no more is said to be deleted in the answer, too.
Answered(pending, data, m) ==
  \A u \in pending : m[u] = None => data[u] # None /\ data[u].deleted

\* What the server saved is what the client has, or is noticed not to be.
Settled(saved, m, up) == \A u \in saved : m[u] # None => m[u].began /\ Noticed(m[u], up)

\* Element e, once merged with payload m of item u, is sound; if u has yet to be sent, it
\* stays followed.
Fits(u, e, m, up, pending, s) ==
  /\ Sound(MergedWith(m, e), up)
  /\ u \in pending =>
       /\ ~e.saved
       /\ IF discardable(e.p) THEN DeletedThere(u, s) ELSE e.p.began /\ Noticed(e.p, up)

AllFit(cs, m, up, pending, s) ==
  \A i \in DOMAIN cs : \A u \in DOMAIN cs[i] : Fits(u, cs[i][u], m[u], up, pending, s)

\* A saved item is in one collection only.
Separate(cs) ==
  \A i, j \in DOMAIN cs : i # j => \A u \in DOMAIN cs[i] \cap DOMAIN cs[j] : ~cs[i][u].saved

Responding == op.pc \in {"sent", "received"}

\* No uuid is in use that was not given out.
Names ==
  /\ Present(master) \cup Present(disk) \cup Present(server) \subseteq 1 .. uuids
  /\ Present(op.items) \cup Present(op.resp.data) \cup op.unsynced \cup DOMAIN op.unsaved
       \subseteq 1 .. uuids
  /\ \A i \in DOMAIN op.collections : DOMAIN op.collections[i] \subseteq 1 .. uuids

\* What the server saved was sent, and is not among the other items of the answer.
Request ==
  /\ op.resp.saved \cap op.pending = {}
  /\ op.resp.saved \cap (op.resp.retrieved \cup op.resp.conflicts) = {}
  /\ op.pc # "storing" => op.collections = <<>>

\* Nothing anywhere is clean that was not uploaded.
AllSound ==
  /\ NoContent \notin uploaded
  /\ SoundIn(master, uploaded) /\ SoundIn(disk, uploaded) /\ SoundIn(op.items, uploaded)
  /\ \A u \in DOMAIN op.unsaved : Sound(op.unsaved[u], uploaded)
  /\ KnownIn(server, uploaded) /\ KnownIn(op.resp.data, uploaded)

Following ==
  /\ Followed(op.pending, op.items, master, uploaded, server)
  /\ Deleted(op.pending, op.resp.data, server)
  /\ Responding => /\ Answered(op.pending, op.resp.data, master)
                   /\ Settled(op.resp.saved, master, uploaded)

Remaining ==
  /\ AllFit(op.collections, master, uploaded, op.pending, server)
  /\ Separate(op.collections)

EditInv == Names /\ Request /\ AllSound /\ Following /\ Remaining

-----------------------------------------------------------------------------
(****************************************************************************)
(* Changes by the user: one payload, of an item that no collection to be    *)
(* mapped has.                                                              *)
(****************************************************************************)
LEMMA LocalEdits ==
  ASSUME NEW n \in Nat, Types(n), EditInv, NEW u \in Uuid, NEW p, Sound(p, uploaded),
         u \in 1 .. uuids =>
           /\ master[u] # None /\ p # None
           /\ Noticed(p, uploaded) /\ p.began = master[u].began,
         ~InWindow(u), uuids' \in Nat, uuids <= uuids', u \in 1 .. uuids',
         master' = [v \in Uuid |-> IF v = u THEN p ELSE master[v]],
         UNCHANGED <<op, disk, server, uploaded>>
  PROVE  EditInv'
<1>1. /\ uuids \in Nat /\ op.pending \subseteq 1 .. uuids /\ op.resp.saved \subseteq 1 .. uuids
      /\ op.pending \subseteq Uuid /\ op.resp.saved \subseteq Uuid
      /\ op.collections \in Seq(Partial(Elements(n)))
  <2>1. op \in Operations(n) /\ op.resp \in Responses(n)
    BY DEF Types, OperationTypes, Operations
  <2>2. op.pending \subseteq Present(op.items) /\ op.resp.saved \subseteq Present(op.resp.data)
    BY DEF Types, OperationTypes, References
  <2> QED
    BY <2>1, <2>2 DEF Types, OtherTypes, Operations, Responses, EditInv, Names
<1>2. master'[u] = p /\ \A v \in Uuid : v # u => master'[v] = master[v]
  OBVIOUS
<1>3. Names' /\ Request'
  <2>1. 1 .. uuids \subseteq 1 .. uuids'
    BY <1>1
  <2>2. Present(master') \subseteq Present(master) \cup {u}
    BY DEF Present
  <2> QED
    BY <2>1, <2>2 DEF EditInv, Names, Request, Present
<1>4. AllSound'
  <2>1. SoundIn(master', uploaded)
    BY <1>2 DEF EditInv, AllSound, SoundIn, Present
  <2> QED
    BY <2>1 DEF EditInv, AllSound, SoundIn, KnownIn, Present
<1>5. Following'
  <2>1. Followed(op.pending, op.items, master', uploaded, server)
    <3>1. ASSUME NEW v \in op.pending
          PROVE  IF master'[v] = None THEN DeletedThere(v, server)
                 ELSE /\ master'[v].began
                      /\ master'[v].content = op.items[v].content \/ Noticed(master'[v], uploaded)
      <4>1. IF master[v] = None THEN DeletedThere(v, server)
            ELSE /\ master[v].began
                 /\ master[v].content = op.items[v].content \/ Noticed(master[v], uploaded)
        BY <3>1 DEF EditInv, Following, Followed
      <4>2. CASE v = u
        BY <1>1, <1>2, <4>1, <4>2
      <4>3. CASE v # u
        BY <1>1, <1>2, <4>1, <4>3
      <4> QED
        BY <4>2, <4>3
    <3> QED
      BY <3>1 DEF Followed
  <2>2. ASSUME Responding
        PROVE  /\ Answered(op.pending, op.resp.data, master')
               /\ Settled(op.resp.saved, master', uploaded)
    <3>1. Answered(op.pending, op.resp.data, master) /\ Settled(op.resp.saved, master, uploaded)
      BY <2>2 DEF EditInv, Following
    <3> QED
      BY <1>1, <1>2, <3>1 DEF Answered, Settled
  <2> QED
    BY <2>1, <2>2 DEF EditInv, Following, Responding
<1>6. Remaining'
  <2>1. ASSUME NEW i \in DOMAIN op.collections, NEW v \in DOMAIN op.collections[i]
        PROVE  master'[v] = master[v]
    <3>1. v # u
      BY <2>1 DEF InWindow
    <3>2. op.collections[i] \in Partial(Elements(n))
      BY <1>1
    <3>3. v \in Uuid
      BY <3>2, PartialIs
    <3> QED
      BY <1>2, <3>1, <3>3
  <2>2. AllFit(op.collections, master', uploaded, op.pending, server)
    BY <2>1 DEF EditInv, Remaining, AllFit
  <2> QED
    BY <2>2 DEF EditInv, Remaining
<1> QED
  BY <1>3, <1>4, <1>5, <1>6 DEF EditInv

LEMMA MappedOnly ==
  ASSUME NEW u \in Uuid, NEW p, ~discardable(p)
  PROVE  Mapped(Only(u, p)) = [v \in Uuid |-> IF v = u THEN p ELSE master[v]]
BY DEF Mapped, Only

LEMMA UserEdits ==
  ASSUME NEW n \in Nat, Types(n), EditInv, EditWhileStoring = FALSE, NEW u \in Uuid,
         Edit(u) \/ Delete(u) \/ Create
  PROVE  EditInv'
<1>1. /\ uuids \in Nat /\ None \notin Payloads(n) /\ master \in [Uuid -> Payloads(n) \cup {None}]
      /\ \A v \in Uuid : master[v] # None => v \in 1 .. uuids
  BY PayloadsArePayloads DEF Types, OtherTypes, ClientTypes, EditInv, Names, Present
<1>2. CASE Edit(u)
  <2> DEFINE p == [master[u] EXCEPT !.content = Len(written'), !.dirty = TRUE,
                                    !.dirtied = "since"]
  <2>1. /\ master[u] # None /\ master[u] \in Payloads(n) /\ ~master[u].deleted /\ ~InWindow(u)
        /\ UNCHANGED <<op, disk, server, uploaded, uuids>>
        /\ master' = Mapped(Only(u, p))
    BY <1>1, <1>2 DEF Edit, MayChange, MapLocally, store, account
  <2>2. Len(written') # NoContent
    <3>1. WrittenType(n + 1)'
      BY <1>2, <2>1, WriteType DEF Edit, Types, Payloads
    <3> QED
      BY <3>1 DEF WrittenType, NoContent
  <2>3. /\ p.content = Len(written') /\ p.dirty = TRUE /\ p.dirtied = "since"
        /\ p.began = master[u].began /\ p.deleted = master[u].deleted
    BY <2>1 DEF Payloads
  <2>6. p # None
    <3>1. WrittenType(n + 1)'
      BY <1>2, <2>1, WriteType DEF Edit, Types, Payloads
    <3>2. n + 1 \in Nat /\ Len(written') \in 0 .. n + 1
      BY <3>1 DEF WrittenType
    <3>3. master[u] \in Payloads(n + 1) /\ None \notin Payloads(n + 1)
      BY <2>1, <3>2, OperationsGrow, PayloadsArePayloads
    <3>4. p \in Payloads(n + 1)
      BY <3>2, <3>3, EditedPayload
    <3> QED
      BY <3>3, <3>4
  <2> HIDE DEF p
  <2>4. /\ Sound(p, uploaded) /\ Noticed(p, uploaded) /\ ~discardable(p)
    BY <2>1, <2>2, <2>3 DEF Sound, Noticed, discardable
  <2>5. master' = [v \in Uuid |-> IF v = u THEN p ELSE master[v]]
    BY <2>1, <2>4, MappedOnly
  <2> QED
    BY <1>1, <2>1, <2>3, <2>4, <2>5, <2>6, LocalEdits
<1>3. CASE Delete(u)
  <2> DEFINE p == [master[u] EXCEPT !.content = NoContent, !.deleted = TRUE, !.dirty = TRUE,
                                    !.dirtied = "since"]
  <2>1. /\ master[u] # None /\ master[u] \in Payloads(n) /\ ~InWindow(u)
        /\ UNCHANGED <<op, disk, server, uploaded, uuids>>
        /\ master' = Mapped(Only(u, p))
    BY <1>1, <1>3 DEF Delete, MayChange, MapLocally, store, account, names
  <2>2. /\ p.content = NoContent /\ p.dirty = TRUE /\ p.deleted = TRUE
        /\ p.began = master[u].began
    BY <2>1 DEF Payloads
  <2>6. p # None
    <3>1. p \in Payloads(n)
      BY <1>1, <2>1, DeletedPayload
    <3> QED
      BY <1>1, <3>1, PayloadsArePayloads
  <2> HIDE DEF p
  <2>3. /\ Sound(p, uploaded) /\ Noticed(p, uploaded) /\ ~discardable(p)
    BY <2>2 DEF Sound, Noticed, discardable
  <2>4. master' = [v \in Uuid |-> IF v = u THEN p ELSE master[v]]
    BY <2>1, <2>3, MappedOnly
  <2> QED
    BY <1>1, <2>1, <2>2, <2>3, <2>4, <2>6, LocalEdits
<1>4. CASE Create
  <2> DEFINE p == [content |-> Len(written'), version |-> 0, deleted |-> FALSE, dirty |-> TRUE,
                   dirtied |-> "unset", began |-> FALSE]
  <2>1. /\ uuids' = uuids + 1 /\ uuids' \in Uuid /\ uuids' \notin 1 .. uuids
        /\ UNCHANGED <<op, disk, server, uploaded>>
        /\ master' = Mapped(Only(uuids', p))
    BY <1>1, <1>4, UuidAssumption DEF Create, MapLocally, store, account, Uuid
  <2>2. Len(written') # NoContent
    <3>1. WrittenType(n + 1)'
      BY <1>4, <2>1, WriteType DEF Create, Types, NoContent
    <3> QED
      BY <3>1 DEF WrittenType, NoContent
  <2>3. p.content = Len(written') /\ p.dirty = TRUE /\ p.deleted = FALSE
    OBVIOUS
  <2> HIDE DEF p
  <2>4. Sound(p, uploaded) /\ ~discardable(p)
    BY <2>2, <2>3 DEF Sound, discardable
  <2>5. PICK v \in Uuid : v = uuids'
    BY <2>1
  <2>6. master' = [w \in Uuid |-> IF w = v THEN p ELSE master[w]]
    BY <2>1, <2>4, <2>5, MappedOnly
  <2>7. ~InWindow(v)
    BY <2>1, <2>5 DEF InWindow, EditInv, Names
  <2>8. v \notin 1 .. uuids /\ uuids' \in Nat /\ uuids <= uuids' /\ v \in 1 .. uuids'
    BY <1>1, <2>1, <2>5
  <2> QED
    BY <2>1, <2>4, <2>6, <2>7, <2>8, LocalEdits
<1> QED
  BY <1>2, <1>3, <1>4

(****************************************************************************)
(* Changes by other clients.                                                *)
(****************************************************************************)
LEMMA UploadsGrow ==
  ASSUME NEW up, NEW new, up \subseteq new, NEW f, NEW pending, NEW its, NEW m, NEW s, NEW saved,
         NEW cs
  PROVE  /\ SoundIn(f, up) => SoundIn(f, new)
         /\ KnownIn(f, up) => KnownIn(f, new)
         /\ Followed(pending, its, m, up, s) => Followed(pending, its, m, new, s)
         /\ Settled(saved, m, up) => Settled(saved, m, new)
         /\ AllFit(cs, m, up, pending, s) => AllFit(cs, m, new, pending, s)
<1>1. \A p : (Sound(p, up) => Sound(p, new)) /\ (Known(p, up) => Known(p, new))
             /\ (Noticed(p, up) => Noticed(p, new))
  BY DEF Sound, Known, Noticed
<1>2. ASSUME SoundIn(f, up) PROVE SoundIn(f, new)
  BY Zenon, <1>1, <1>2 DEF SoundIn
<1>3. ASSUME KnownIn(f, up) PROVE KnownIn(f, new)
  BY Zenon, <1>1, <1>3 DEF KnownIn
<1>4. ASSUME Followed(pending, its, m, up, s) PROVE Followed(pending, its, m, new, s)
  BY Zenon, <1>1, <1>4 DEF Followed
<1>5. ASSUME Settled(saved, m, up) PROVE Settled(saved, m, new)
  BY Zenon, <1>1, <1>5 DEF Settled
<1>6. ASSUME AllFit(cs, m, up, pending, s) PROVE AllFit(cs, m, new, pending, s)
  BY Zenon, <1>1, <1>6 DEF AllFit, Fits
<1> QED
  BY <1>2, <1>3, <1>4, <1>5, <1>6

\* Of the server, only the deletions of items to be sent matter.
LEMMA ServerMoves ==
  ASSUME NEW pending, NEW its, NEW m, NEW up, NEW s, NEW r, NEW data, NEW cs,
         \A u \in pending : DeletedThere(u, s) => DeletedThere(u, r)
  PROVE  /\ Followed(pending, its, m, up, s) => Followed(pending, its, m, up, r)
         /\ Deleted(pending, data, s) => Deleted(pending, data, r)
         /\ AllFit(cs, m, up, pending, s) => AllFit(cs, m, up, pending, r)
<1>1. ASSUME Followed(pending, its, m, up, s) PROVE Followed(pending, its, m, up, r)
  BY Zenon, <1>1 DEF Followed
<1>2. ASSUME Deleted(pending, data, s) PROVE Deleted(pending, data, r)
  BY Zenon, <1>2 DEF Deleted
<1>3. ASSUME AllFit(cs, m, up, pending, s) PROVE AllFit(cs, m, up, pending, r)
  BY Zenon, <1>3 DEF AllFit, Fits
<1> QED
  BY <1>1, <1>2, <1>3

LEMMA RemoteEdits ==
  ASSUME NEW n \in Nat, Types(n), EditInv, NEW u \in Uuid, RemoteEdit(u) \/ RemoteDelete(u)
  PROVE  EditInv'
<1>1. PICK p : /\ server' = [server EXCEPT ![u] = p]
               /\ p.deleted => p.content = NoContent
               /\ ~p.deleted => p.content \in uploaded'
  <2>1. CASE RemoteEdit(u)
    <3> DEFINE q == [content |-> Len(written'), version |-> clock', deleted |-> FALSE]
    <3>1. server' = [server EXCEPT ![u] = q] /\ uploaded' = uploaded \cup {Len(written')}
      BY <2>1 DEF RemoteEdit
    <3>2. q.content = Len(written') /\ q.deleted = FALSE
      OBVIOUS
    <3> HIDE DEF q
    <3> QED
      BY <3>1, <3>2
  <2>2. CASE RemoteDelete(u)
    <3> DEFINE q == [content |-> NoContent, version |-> clock', deleted |-> TRUE]
    <3>1. server' = [server EXCEPT ![u] = q]
      BY <2>2 DEF RemoteDelete
    <3>2. q.content = NoContent /\ q.deleted = TRUE
      OBVIOUS
    <3> HIDE DEF q
    <3> QED
      BY <3>1, <3>2
  <2> QED
    BY <2>1, <2>2
<1>2. /\ server \in [Uuid -> ServerItems(n) \cup {None}] /\ server[u] # None /\ ~server[u].deleted
      /\ uploaded \subseteq uploaded' /\ NoContent \notin uploaded'
      /\ UNCHANGED <<client, op, uuids>>
  <2>1. server \in [Uuid -> ServerItems(n) \cup {None}] /\ NoContent \notin uploaded
    BY DEF Types, OtherTypes, EditInv, AllSound
  <2>2. CASE RemoteEdit(u)
    <3>1. WrittenType(n + 1)'
      BY <2>1, <2>2, WriteType DEF RemoteEdit, Types, ServerItems
    <3> QED
      BY <2>1, <2>2, <3>1 DEF RemoteEdit, WrittenType, NoContent
  <2>3. CASE RemoteDelete(u)
    BY <2>1, <2>3 DEF RemoteDelete, names
  <2> QED
    BY <2>2, <2>3
<1>3. server'[u] = p /\ \A v \in Uuid : v # u => server'[v] = server[v]
  BY <1>1, <1>2
<1>4. Present(server') \subseteq Present(server) /\ KnownIn(server', uploaded')
  BY <1>1, <1>2, <1>3 DEF Present, KnownIn, Known, EditInv, AllSound
<1>5. op.pending \subseteq Uuid
  BY DEF Types, OperationTypes, Operations
<1>6. \A v \in op.pending : DeletedThere(v, server) => DeletedThere(v, server')
  BY <1>2, <1>3, <1>5 DEF DeletedThere
<1>7. Names' /\ Request'
  BY <1>2, <1>4 DEF EditInv, Names, Request, client, items, store, Present
<1>8. AllSound'
  <2>1. SoundIn(master, uploaded') /\ SoundIn(disk, uploaded') /\ SoundIn(op.items, uploaded')
    BY <1>2, UploadsGrow DEF EditInv, AllSound
  <2>2. KnownIn(op.resp.data, uploaded')
    BY <1>2, UploadsGrow DEF EditInv, AllSound
  <2>3. \A v \in DOMAIN op.unsaved : Sound(op.unsaved[v], uploaded')
    BY <1>2 DEF EditInv, AllSound, Sound
  <2> QED
    BY <1>2, <1>4, <2>1, <2>2, <2>3 DEF AllSound, client, items, store
<1>9. Following'
  <2>1. Followed(op.pending, op.items, master, uploaded', server')
    BY <1>2, <1>6, UploadsGrow, ServerMoves DEF EditInv, Following
  <2>2. Deleted(op.pending, op.resp.data, server')
    BY <1>6, ServerMoves DEF EditInv, Following
  <2>3. Responding => /\ Answered(op.pending, op.resp.data, master)
                      /\ Settled(op.resp.saved, master, uploaded')
    BY <1>2, UploadsGrow DEF EditInv, Following
  <2> QED
    BY <1>2, <2>1, <2>2, <2>3 DEF Following, Responding, client, items
<1>10. Remaining'
  <2>1. AllFit(op.collections, master, uploaded', op.pending, server')
    BY <1>2, <1>6, UploadsGrow, ServerMoves DEF EditInv, Remaining
  <2> QED
    BY <1>2, <2>1 DEF EditInv, Remaining, client, items
<1> QED
  BY <1>7, <1>8, <1>9, <1>10 DEF EditInv

(****************************************************************************)
(* The request, up to the response.                                         *)
(****************************************************************************)

\* Payloads that are saved or mapped are as sound as they were.
LEMMA SaveSound ==
  ASSUME NEW n \in Nat, NEW f \in Partial(Payloads(n)), NEW up, NEW D,
         DOMAIN f \subseteq D, \A u \in DOMAIN f : Sound(f[u], up),
         SoundIn(disk, up), Present(disk) \subseteq D
  PROVE  SoundIn(Save(f), up) /\ Present(Save(f)) \subseteq D
<1>1. ASSUME NEW u \in Present(Save(f)) PROVE u \in D /\ Sound(Save(f)[u], up)
  <2>1. u \in Uuid /\ Save(f)[u] # None
    BY <1>1 DEF Present
  <2>2. CASE u \notin DOMAIN f
    BY <2>1, <2>2 DEF Save, SoundIn, Present
  <2>3. CASE u \in DOMAIN f
    <3>1. f[u] \in Payloads(n) /\ Sound(f[u], up)
      BY <2>3, PartialIs
    <3>2. Save(f)[u] = Stored(f[u])
      BY <2>1, <2>3 DEF Save
    <3>3. /\ Stored(f[u]).content = f[u].content /\ Stored(f[u]).deleted = f[u].deleted
          /\ Stored(f[u]).dirty = f[u].dirty
      BY <3>1 DEF Stored, Payloads
    <3> QED
      BY <2>3, <3>1, <3>2, <3>3 DEF Sound
  <2> QED
    BY <2>2, <2>3
<1> QED
  BY <1>1 DEF SoundIn

LEMMA MappedSound ==
  ASSUME NEW f, NEW up, NEW D, DOMAIN f \subseteq D, \A u \in DOMAIN f : Sound(f[u], up),
         SoundIn(master, up), Present(master) \subseteq D
  PROVE  SoundIn(Mapped(f), up) /\ Present(Mapped(f)) \subseteq D
BY DEF Mapped, SoundIn, Present

\* Between two requests nothing is left to be followed.
LEMMA AtRest ==
  ASSUME EditInv, op' = NoSync, UNCHANGED <<server, uploaded, uuids>>,
         SoundIn(master', uploaded), SoundIn(disk', uploaded),
         Present(master') \cup Present(disk') \subseteq 1 .. uuids
  PROVE  EditInv'
<1>1. /\ op'.pc = "idle" /\ op'.items = [u \in Uuid |-> None] /\ op'.unsynced = {}
      /\ op'.pending = {} /\ op'.resp = NoResponse /\ op'.collections = <<>>
      /\ op'.unsaved = <<>> /\ NoResponse.saved = {} /\ NoResponse.retrieved = {}
      /\ NoResponse.conflicts = {} /\ NoResponse.data = [u \in Uuid |-> None]
  BY DEF NoSync, NoResponse
<1>2. /\ Present([u \in Uuid |-> None]) = {} /\ DOMAIN <<>> = {}
  BY DEF Present
<1>3. Names' /\ Request'
  BY <1>1, <1>2 DEF EditInv, Names, Request, Present
<1>4. AllSound'
  BY <1>1, <1>2 DEF EditInv, AllSound, SoundIn, KnownIn, Present
<1>5. Following' /\ Remaining'
  BY <1>1, <1>2 DEF Following, Followed, Deleted, Responding, Remaining, AllFit, Separate
<1> QED
  BY <1>3, <1>4, <1>5 DEF EditInv

LEMMA BeginSyncEdits ==
  ASSUME NEW n \in Nat, Types(n), EditInv, BeginSync
  PROVE  EditInv'
<1>1. /\ op'.resp = NoResponse /\ op'.collections = <<>> /\ op'.unsaved = <<>>
      /\ op'.pc \in {"ready", "saving"} /\ op'.unsynced \subseteq Present(master)
      /\ \A u \in Present(op'.items) : u \in Present(master) /\ op'.items[u] = master[u]
      /\ \A u \in op'.pending : /\ u \in Present(op'.items) /\ master'[u] # None
                                /\ master'[u].began = TRUE
      /\ \A u \in Present(master') : /\ u \in Present(master)
                                     /\ master'[u].content = master[u].content
                                     /\ master'[u].deleted = master[u].deleted
                                     /\ master'[u].dirty = master[u].dirty
      /\ UNCHANGED <<disk, server, uploaded, uuids>>
  BY BeginSyncTypes
<1>2. /\ NoResponse.saved = {} /\ NoResponse.retrieved = {} /\ NoResponse.conflicts = {}
      /\ NoResponse.data = [u \in Uuid |-> None] /\ Present([u \in Uuid |-> None]) = {}
      /\ DOMAIN <<>> = {}
  BY DEF NoResponse, Present
<1>3. Names' /\ Request'
  BY <1>1, <1>2 DEF EditInv, Names, Request, Present
<1>4. SoundIn(master', uploaded) /\ SoundIn(op'.items, uploaded)
  <2>1. \A u \in Present(master) : Sound(master[u], uploaded)
    BY DEF EditInv, AllSound, SoundIn
  <2> QED
    BY <1>1, <2>1 DEF SoundIn, Sound
<1>5. AllSound'
  BY <1>1, <1>2, <1>4 DEF EditInv, AllSound, SoundIn, KnownIn, Present
<1>6. Following'
  <2>1. ASSUME NEW u \in op'.pending
        PROVE  /\ master'[u] # None /\ master'[u].began
               /\ master'[u].content = op'.items[u].content
    <3>1. u \in Present(op'.items) /\ master'[u] # None /\ master'[u].began = TRUE
      BY <1>1, <2>1
    <3>2. u \in Present(master')
      BY <3>1 DEF Present
    <3> QED
      BY <1>1, <3>1, <3>2
  <2>2. Followed(op'.pending, op'.items, master', uploaded', server')
    BY <2>1 DEF Followed
  <2>3. Deleted(op'.pending, op'.resp.data, server')
    <3>1. op'.pending \subseteq Uuid
      BY <1>1 DEF Present
    <3> QED
      BY <1>1, <1>2, <3>1 DEF Deleted
  <2> QED
    BY <1>1, <2>2, <2>3 DEF Following, Responding
<1>7. Remaining'
  BY <1>1, <1>2 DEF Remaining, AllFit, Separate
<1> QED
  BY <1>3, <1>5, <1>6, <1>7 DEF EditInv

\* The request goes on as it is.
LEMMA Proceeds ==
  ASSUME EditInv, op'.items = op.items, op'.pending = op.pending, op'.resp = op.resp,
         op'.unsynced = op.unsynced, op'.collections = op.collections, op'.unsaved = op.unsaved,
         op'.pc # "storing" => op.collections = <<>>, Responding' => Responding,
         UNCHANGED <<master, server, uploaded, uuids>>,
         SoundIn(disk', uploaded), Present(disk') \subseteq 1 .. uuids
  PROVE  EditInv'
<1>1. Names' /\ Request'
  BY DEF EditInv, Names, Request, Present
<1>2. AllSound'
  BY DEF EditInv, AllSound, SoundIn, KnownIn, Present
<1>3. Following'
  BY DEF EditInv, Following
<1>4. Remaining'
  BY DEF EditInv, Remaining
<1> QED
  BY <1>1, <1>2, <1>3, <1>4 DEF EditInv

\* The next page of the request is to be sent.
LEMMA NextPage ==
  ASSUME EditInv, op'.items = op.items, op'.pending \subseteq op.pending, op'.resp = NoResponse,
         op'.unsynced = op.unsynced, op'.collections = op.collections, op'.unsaved = op.unsaved,
         op'.pc = "ready", op.pc # "storing", op.pending \subseteq Uuid,
         UNCHANGED <<master, server, uploaded, uuids>>,
         SoundIn(disk', uploaded), Present(disk') \subseteq 1 .. uuids
  PROVE  EditInv'
<1>1. /\ NoResponse.saved = {} /\ NoResponse.retrieved = {} /\ NoResponse.conflicts = {}
      /\ NoResponse.data = [u \in Uuid |-> None] /\ Present([u \in Uuid |-> None]) = {}
      /\ DOMAIN <<>> = {} /\ op.collections = <<>>
  BY DEF NoResponse, Present, EditInv, Request
<1>2. Names' /\ Request'
  BY <1>1 DEF EditInv, Names, Request, Present
<1>3. AllSound'
  BY <1>1 DEF EditInv, AllSound, SoundIn, KnownIn, Present
<1>4. Following'
  <2>1. Followed(op'.pending, op.items, master, uploaded, server)
    BY DEF EditInv, Following, Followed
  <2>2. Deleted(op'.pending, NoResponse.data, server)
    BY <1>1 DEF Deleted
  <2> QED
    BY <2>1, <2>2 DEF Following, Responding
<1>5. Remaining'
  BY <1>1 DEF Remaining, AllFit, Separate
<1> QED
  BY <1>2, <1>3, <1>4, <1>5 DEF EditInv

LEMMA DiskStays ==
  ASSUME EditInv
  PROVE  /\ SoundIn(disk, uploaded) /\ Present(disk) \subseteq 1 .. uuids
         /\ SoundIn(master, uploaded) /\ Present(master) \subseteq 1 .. uuids
BY DEF EditInv, AllSound, Names

LEMMA FailedEdits ==
  ASSUME NEW n \in Nat, Types(n), EditInv, NEW S \in SUBSET op.pending, PageFailed(S),
         op.pc # "storing", UNCHANGED <<client, server, uploaded, uuids>>
  PROVE  EditInv'
<1>1. CASE S = {}
  <2>1. op' = NoSync
    BY <1>1 DEF PageFailed
  <2> QED
    BY <2>1, DiskStays, AtRest DEF client, items, store
<1>2. CASE S # {}
  <2>1. op' = [op EXCEPT !.pc = "ready", !.pending = S, !.token = 0, !.resp = NoResponse]
    BY <1>2 DEF PageFailed
  <2>2. op \in Operations(n) /\ op.pending \subseteq Uuid
    BY DEF Types, OperationTypes, Operations
  <2>3. /\ op'.items = op.items /\ op'.pending = S /\ op'.resp = NoResponse
        /\ op'.unsynced = op.unsynced /\ op'.collections = op.collections
        /\ op'.unsaved = op.unsaved /\ op'.pc = "ready"
    BY <2>1, <2>2 DEF Operations
  <2> QED
    BY <2>2, <2>3, DiskStays, NextPage DEF client, items, store
<1> QED
  BY <1>1, <1>2

\* The server has of a batch what was sent; what the client has else is noticed.
LEMMA SendEdits ==
  ASSUME NEW n \in Nat, Types(n), EditInv, Send
  PROVE  EditInv'
<1>1. PICK S \in SUBSET op.pending : Serve(S)
  BY DEF Send, Batches
<1>2. /\ OtherTypes(n) /\ OperationTypes(n)
      /\ op.pc = "ready" /\ UNCHANGED <<client, uuids>>
  BY DEF Send, Types, names
<1>3. /\ op'.items = op.items /\ op'.pending = op.pending \ S
      /\ op'.resp.saved \subseteq S /\ op'.resp.data = server' /\ op'.pc = "sent"
      /\ op'.resp.retrieved \cap S = {} /\ op'.resp.conflicts = S \ op'.resp.saved
      /\ op'.unsynced = op.unsynced /\ op'.collections = op.collections
      /\ op'.unsaved = op.unsaved
  BY <1>1, <1>2, ServeTypes
<1>4. op.pending \subseteq Uuid /\ op.pending \subseteq Present(op.items)
  BY <1>2 DEF OperationTypes, Operations, References, Present
<1>5. /\ uploaded \subseteq uploaded' /\ NoContent \notin uploaded'
      /\ \A u \in Uuid : u \notin op'.resp.saved => server'[u] = server[u]
      /\ \A u \in op'.resp.saved : /\ server'[u].content = op.items[u].content
                                   /\ server'[u].deleted = op.items[u].deleted
                                   /\ op.items[u].content # NoContent
                                        => op.items[u].content \in uploaded'
  <2> PICK saved : saved = {u \in S : Accepts(u)}
    OBVIOUS
  <2> PICK now : now = IF saved = {} THEN clock ELSE clock + 1
    OBVIOUS
  <2> PICK then : then = [u \in Uuid |-> IF u \notin saved THEN server[u]
                                         ELSE [content |-> op.items[u].content, version |-> now,
                                               deleted |-> op.items[u].deleted]]
    OBVIOUS
  <2>1. /\ server' = then
        /\ uploaded' = uploaded \cup ({then[u].content : u \in saved} \ {NoContent})
        /\ op' = [op EXCEPT !.pc = "sent", !.pending = @ \ S,
                    !.resp = [saved |-> saved, conflicts |-> S \ saved,
                              retrieved |-> {u \in Uuid \ S : server[u] # None
                                                       /\ server[u].version > op.token},
                              data |-> then, token |-> now]]
    BY ZenonT(40), <1>1 DEF Serve
  <2>2. op'.resp.saved = saved /\ saved \subseteq Uuid
    BY <1>2, <1>4, <2>1 DEF OperationTypes, Operations
  <2>3. ASSUME NEW u \in saved
        PROVE  then[u].content = op.items[u].content /\ then[u].deleted = op.items[u].deleted
    BY <2>2
  <2>4. NoContent \notin uploaded
    BY DEF EditInv, AllSound
  <2> QED
    BY <2>1, <2>2, <2>3, <2>4
<1>6. \A u \in Present(op.items) : Sound(op.items[u], uploaded)
  BY DEF EditInv, AllSound, SoundIn
<1>7. KnownIn(server', uploaded')
  <2>1. ASSUME NEW u \in Present(server') PROVE Known(server'[u], uploaded')
    <3>1. CASE u \in op'.resp.saved
      BY <1>3, <1>4, <1>5, <1>6, <3>1 DEF Known, Sound
    <3>2. CASE u \notin op'.resp.saved
      BY <1>5, <2>1, <3>2 DEF EditInv, AllSound, KnownIn, Known, Present
    <3> QED
      BY <3>1, <3>2
  <2> QED
    BY <2>1 DEF KnownIn
<1>8. Present(server') \subseteq 1 .. uuids
  <2>1. ASSUME NEW u \in Present(server') PROVE u \in Present(server) \cup Present(op.items)
    BY <1>3, <1>4, <1>5, <2>1 DEF Present
  <2> QED
    BY <2>1 DEF EditInv, Names
<1>9. Names' /\ Request'
  BY <1>2, <1>3, <1>8 DEF EditInv, Names, Request, client, items, store, Present
<1>10. AllSound'
  <2>1. SoundIn(master, uploaded') /\ SoundIn(disk, uploaded') /\ SoundIn(op.items, uploaded')
    BY <1>5, UploadsGrow DEF EditInv, AllSound
  <2>2. \A v \in DOMAIN op.unsaved : Sound(op.unsaved[v], uploaded')
    BY <1>5 DEF EditInv, AllSound, Sound
  <2> QED
    BY <1>2, <1>3, <1>5, <1>7, <2>1, <2>2 DEF AllSound, client, items, store
<1>11. \A v \in op.pending \ S : server'[v] = server[v]
  BY <1>3, <1>4, <1>5
<1>12. Following'
  <2>1. Followed(op.pending \ S, op.items, master, uploaded, server)
    BY DEF EditInv, Following, Followed
  <2>2. Followed(op.pending \ S, op.items, master, uploaded', server')
    <3>1. \A v \in op.pending \ S : DeletedThere(v, server) => DeletedThere(v, server')
      BY <1>11 DEF DeletedThere
    <3> QED
      BY <1>5, <2>1, <3>1, UploadsGrow, ServerMoves
  <2>3. Deleted(op.pending \ S, server', server')
    BY DEF Deleted, DeletedThere
  <2>4. Answered(op.pending \ S, server', master)
    BY <2>2 DEF Answered, Followed, DeletedThere
  <2>5. Settled(op'.resp.saved, master, uploaded')
    <3>1. ASSUME NEW u \in op'.resp.saved, master[u] # None
          PROVE  master[u].began /\ Noticed(master[u], uploaded')
      <4>1. /\ u \in op.pending /\ u \in Present(op.items) /\ u \in Present(master)
            /\ Sound(op.items[u], uploaded) /\ Sound(master[u], uploaded)
        BY <1>3, <1>4, <1>6, <3>1 DEF EditInv, AllSound, SoundIn, Present
      <4>2. /\ master[u].began
            /\ master[u].content = op.items[u].content \/ Noticed(master[u], uploaded)
        BY <3>1, <4>1 DEF EditInv, Following, Followed
      <4>3. CASE master[u].content = op.items[u].content
        BY <1>5, <3>1, <4>1, <4>2, <4>3 DEF Noticed, Sound
      <4>4. CASE Noticed(master[u], uploaded)
        BY <1>5, <4>2, <4>4 DEF Noticed
      <4> QED
        BY <4>2, <4>3, <4>4
    <3> QED
      BY <3>1 DEF Settled
  <2> QED
    BY <1>2, <1>3, <2>2, <2>3, <2>4, <2>5 DEF Following, client, items
<1>13. Remaining'
  <2>1. op'.collections = <<>> /\ DOMAIN <<>> = {}
    BY <1>2, <1>3 DEF EditInv, Request
  <2> QED
    BY <2>1 DEF Remaining, AllFit, Separate
<1> QED
  BY <1>9, <1>10, <1>12, <1>13 DEF EditInv

LEMMA RequestEdits ==
  ASSUME NEW n \in Nat, Types(n), EditInv,
         PreSyncSaved \/ Receive \/ RequestLost \/ ResponseLost \/ TokenStored \/ ProcessingThrows
  PROVE  EditInv'
<1>1. op \in Operations(n)
  BY DEF Types, OperationTypes
<1>2. op.pc # "storing" => op.collections = <<>>
  BY DEF EditInv, Request
<1>3. CASE PreSyncSaved
  <2> DEFINE f == [u \in Captured |-> op.items[u]]
  <2>1. f \in Partial(Payloads(n))
    BY <1>1, PartialIs DEF Operations, Captured, Present
  <2>2. \A u \in DOMAIN f : Sound(f[u], uploaded)
    BY DEF EditInv, AllSound, SoundIn, Captured
  <2>3. DOMAIN f \subseteq 1 .. uuids
    BY DEF EditInv, Names, Captured
  <2> HIDE DEF f
  <2>4. SoundIn(Save(f), uploaded) /\ Present(Save(f)) \subseteq 1 .. uuids
    BY <2>1, <2>2, <2>3, DiskStays, SaveSound
  <2>5. /\ op' = [op EXCEPT !.pc = "ready"] /\ disk' = Save(f) /\ op.pc = "saving"
        /\ UNCHANGED <<master, server, uploaded, uuids>>
    BY <1>3 DEF PreSyncSaved, items, account, names, f
  <2>6. /\ op'.items = op.items /\ op'.pending = op.pending /\ op'.resp = op.resp
        /\ op'.unsynced = op.unsynced /\ op'.collections = op.collections
        /\ op'.unsaved = op.unsaved /\ op'.pc = "ready"
    BY <1>1, <2>5 DEF Operations
  <2> QED
    BY <1>2, <2>4, <2>5, <2>6, Proceeds DEF Responding
<1>4. CASE Receive
  <2>1. /\ op' = [op EXCEPT !.pc = "received", !.token = op.resp.token] /\ op.pc = "sent"
        /\ UNCHANGED <<master, disk, server, uploaded, uuids>>
    BY <1>4 DEF Receive, items, account, names
  <2>2. /\ op'.items = op.items /\ op'.pending = op.pending /\ op'.resp = op.resp
        /\ op'.unsynced = op.unsynced /\ op'.collections = op.collections
        /\ op'.unsaved = op.unsaved /\ op'.pc = "received"
    BY <1>1, <2>1 DEF Operations
  <2> QED
    BY <1>2, <2>1, <2>2, DiskStays, Proceeds DEF Responding
<1>5. CASE RequestLost \/ ResponseLost
  <2>1. /\ \E S \in SUBSET op.pending : PageFailed(S)
        /\ op.pc \in {"ready", "sent"} /\ UNCHANGED <<client, server, uploaded, uuids>>
    BY <1>5 DEF RequestLost, ResponseLost, account, names
  <2> QED
    BY <2>1, FailedEdits
<1>6. CASE TokenStored
  <2>1. UNCHANGED <<op, master, disk, server, uploaded, uuids>>
    BY <1>6 DEF TokenStored, items, account, names
  <2> QED
    BY <1>2, <2>1, DiskStays, Proceeds DEF Responding
<1>7. CASE ProcessingThrows
  <2>1. /\ op' = [op EXCEPT !.pc = "stuck"] /\ op.pc = "received"
        /\ UNCHANGED <<master, disk, server, uploaded, uuids>>
    BY <1>7 DEF ProcessingThrows, client, items, store, account, names
  <2>2. /\ op'.items = op.items /\ op'.pending = op.pending /\ op'.resp = op.resp
        /\ op'.unsynced = op.unsynced /\ op'.collections = op.collections
        /\ op'.unsaved = op.unsaved /\ op'.pc = "stuck"
    BY <1>1, <2>1 DEF Operations
  <2> QED
    BY <1>2, <2>1, <2>2, DiskStays, Proceeds DEF Responding
<1> QED
  BY <1>3, <1>4, <1>5, <1>6, <1>7

(****************************************************************************)
(* The end of a page, of the request and of the session.                    *)
(****************************************************************************)
LEMMA EndEdits ==
  ASSUME NEW n \in Nat, Types(n), EditInv, EndPage \/ NeverSyncedCleared
  PROVE  EditInv'
<1>1. op \in Operations(n) /\ op.pending \subseteq Uuid /\ op.unsynced \subseteq Uuid
  BY DEF Types, OperationTypes, Operations
<1>2. CASE EndPage
  <2>1. SoundIn(disk', uploaded) /\ Present(disk') \subseteq 1 .. uuids
    BY <1>2, DiskStays DEF EndPage, SoundIn, Present
  <2>2. op.pc = "stored" /\ op.collections = <<>> /\ UNCHANGED <<server, uploaded, uuids>>
    BY <1>2 DEF EndPage, account, names, EditInv, Request
  <2>3. CASE op.pending # {}
    <3>1. op' = [op EXCEPT !.pc = "ready", !.resp = NoResponse] /\ UNCHANGED master
      BY <1>2, <2>3 DEF EndPage
    <3>2. /\ op'.items = op.items /\ op'.pending = op.pending /\ op'.resp = NoResponse
          /\ op'.unsynced = op.unsynced /\ op'.collections = op.collections
          /\ op'.unsaved = op.unsaved /\ op'.pc = "ready"
      BY <1>1, <3>1 DEF Operations
    <3> QED
      BY <1>1, <2>1, <2>2, <3>1, <3>2, NextPage
  <2>4. CASE op.pending = {} /\ op.unsynced # {}
    <3>1. op' = [op EXCEPT !.pc = "clearing", !.unsaved = Cleared] /\ master' = Mapped(Cleared)
      BY <1>2, <2>4 DEF EndPage
    <3>2. /\ op'.items = op.items /\ op'.pending = {} /\ op'.resp = op.resp
          /\ op'.unsynced = op.unsynced /\ op'.collections = <<>>
          /\ op'.unsaved = Cleared /\ op'.pc = "clearing"
      BY <1>1, <2>2, <2>4, <3>1 DEF Operations
    <3>3. /\ DOMAIN Cleared = op.unsynced /\ DOMAIN Cleared \subseteq 1 .. uuids
          /\ \A u \in DOMAIN Cleared : Sound(Cleared[u], uploaded)
      BY DEF Cleared, Gone, Sound, EditInv, Names
    <3>4. SoundIn(master', uploaded) /\ Present(master') \subseteq 1 .. uuids
      BY <3>1, <3>3, DiskStays, MappedSound
    <3>5. Names' /\ Request'
      BY <2>1, <2>2, <3>2, <3>3, <3>4 DEF EditInv, Names, Request, Present
    <3>6. AllSound'
      BY <2>1, <2>2, <3>2, <3>3, <3>4 DEF EditInv, AllSound, KnownIn, SoundIn, Present
    <3>7. Following' /\ Remaining'
      BY <3>2 DEF Following, Followed, Deleted, Responding, Remaining, AllFit, Separate
    <3> QED
      BY <3>5, <3>6, <3>7 DEF EditInv
  <2>5. CASE op.pending = {} /\ op.unsynced = {}
    <3>1. op' = NoSync /\ UNCHANGED master
      BY <1>2, <2>5 DEF EndPage
    <3> QED
      BY <2>1, <2>2, <3>1, DiskStays, AtRest
  <2> QED
    BY <2>3, <2>4, <2>5
<1>3. CASE NeverSyncedCleared
  <2>1. op.unsaved \in Partial(Payloads(n))
    BY <1>1 DEF Operations
  <2>2. DOMAIN op.unsaved \subseteq 1 .. uuids /\ \A u \in DOMAIN op.unsaved :
                                                    Sound(op.unsaved[u], uploaded)
    BY DEF EditInv, Names, AllSound
  <2>3. SoundIn(Save(op.unsaved), uploaded) /\ Present(Save(op.unsaved)) \subseteq 1 .. uuids
    BY <2>1, <2>2, DiskStays, SaveSound
  <2>4. /\ disk' = Save(op.unsaved) /\ op' = NoSync
        /\ UNCHANGED <<master, server, uploaded, uuids>>
    BY <1>3 DEF NeverSyncedCleared, items, account, names
  <2> QED
    BY <2>3, <2>4, DiskStays, AtRest
<1> QED
  BY <1>2, <1>3

LEMMA RestartEdits ==
  ASSUME NEW n \in Nat, Types(n), EditInv, Restart
  PROVE  EditInv'
<1>1. op \in Operations(n)
  BY DEF Types, OperationTypes
<1>2. /\ disk' = Save(PendingWrite) \/ disk' = disk
      /\ master' = disk' /\ op' = NoSync /\ UNCHANGED <<server, uploaded, uuids>>
  BY DEF Restart, account, names
<1>3. PendingWrite \in Partial(Payloads(n))
  BY <1>1, PendingWriteType
<1>4. /\ DOMAIN PendingWrite \subseteq 1 .. uuids
      /\ \A u \in DOMAIN PendingWrite : Sound(PendingWrite[u], uploaded)
  <2>1. CASE op.pc = "saving"
    BY <2>1 DEF PendingWrite, Captured, EditInv, Names, AllSound, SoundIn
  <2>2. CASE op.pc \in {"storing", "clearing"}
    <3>1. PendingWrite = op.unsaved
      BY <2>2 DEF PendingWrite
    <3> QED
      BY <3>1 DEF EditInv, Names, AllSound
  <2>3. CASE op.pc \notin {"saving", "storing", "clearing"}
    <3>1. PendingWrite = <<>> /\ DOMAIN <<>> = {}
      BY <2>3 DEF PendingWrite
    <3> QED
      BY <3>1
  <2> QED
    BY <2>1, <2>2, <2>3
<1>5. /\ SoundIn(Save(PendingWrite), uploaded)
      /\ Present(Save(PendingWrite)) \subseteq 1 .. uuids
  BY <1>3, <1>4, DiskStays, SaveSound
<1>6. SoundIn(disk', uploaded) /\ Present(disk') \subseteq 1 .. uuids
  BY <1>2, <1>5, DiskStays
<1> QED
  BY <1>2, <1>6, AtRest

(****************************************************************************)
(* Mapping a collection: what it has of an item to be sent keeps that item  *)
(* followed, and the collections after it fit as before.                    *)
(****************************************************************************)
LEMMA MappedAt ==
  ASSUME NEW f, NEW u \in Uuid
  PROVE  Mapped(f)[u] = IF u \notin DOMAIN f THEN master[u]
                        ELSE IF discardable(f[u]) THEN None ELSE f[u]
BY DEF Mapped

LEMMA MappedFollowed ==
  ASSUME NEW n \in Nat, NEW h \in Partial(Elements(n)), op.pending \subseteq Uuid,
         Followed(op.pending, op.items, master, uploaded, server),
         \A u \in DOMAIN h : Fits(u, h[u], master[u], uploaded, op.pending, server)
  PROVE  Followed(op.pending, op.items, Mapped(Merged(h)), uploaded, server)
<1> DEFINE f == Merged(h)
           m == Mapped(f)
<1>1. \A u \in DOMAIN h : h[u].p \in Payloads(n)
  <2>1. \A u \in DOMAIN h : h[u] \in Elements(n)
    BY PartialIs
  <2> QED
    BY <2>1 DEF Elements
<1>2. ASSUME NEW u \in op.pending
      PROVE  IF m[u] = None THEN DeletedThere(u, server)
             ELSE m[u].began /\ (m[u].content = op.items[u].content \/ Noticed(m[u], uploaded))
  <2>1. u \in Uuid
    BY <1>2
  <2>2. CASE u \notin DOMAIN h
    <3>1. m[u] = master[u]
      BY <2>1, <2>2, MappedAt DEF Merged
    <3> QED
      BY <1>2, <3>1 DEF Followed
  <2>3. CASE u \in DOMAIN h
    <3>1. /\ ~h[u].saved /\ h[u].p # None
          /\ IF discardable(h[u].p) THEN DeletedThere(u, server)
             ELSE h[u].p.began /\ Noticed(h[u].p, uploaded)
      BY <1>1, <1>2, <2>3, PayloadsArePayloads DEF Fits
    <3>2. u \in DOMAIN f /\ f[u] = h[u].p
      BY <2>3, <3>1 DEF Merged, MergedWith
    <3>3. m[u] = IF discardable(h[u].p) THEN None ELSE h[u].p
      BY <2>1, <3>2, MappedAt
    <3> QED
      BY <3>1, <3>3
  <2> QED
    BY <2>2, <2>3
<1> QED
  BY <1>2 DEF Followed

LEMMA TailFits ==
  ASSUME NEW n \in Nat, NEW cs \in Seq(Partial(Elements(n))), cs # <<>>,
         AllFit(cs, master, uploaded, op.pending, server), Separate(cs)
  PROVE  /\ AllFit(Tail(cs), Mapped(Merged(Head(cs))), uploaded, op.pending, server)
         /\ Separate(Tail(cs))
<1> DEFINE m == Mapped(Merged(Head(cs)))
<1>1. /\ Head(cs) = cs[1] /\ 1 \in DOMAIN cs
      /\ \A i \in DOMAIN Tail(cs) : /\ i + 1 \in DOMAIN cs /\ i + 1 # 1
                                    /\ Tail(cs)[i] = cs[i + 1]
                                    /\ cs[i + 1] \in Partial(Elements(n))
      /\ \A i, j \in DOMAIN Tail(cs) : i # j => i + 1 # j + 1
  OBVIOUS
<1>2. DOMAIN Merged(Head(cs)) = DOMAIN cs[1]
  BY <1>1 DEF Merged
<1>3. ASSUME NEW i \in DOMAIN Tail(cs), NEW u \in DOMAIN Tail(cs)[i]
      PROVE  Fits(u, Tail(cs)[i][u], m[u], uploaded, op.pending, server)
  <2> DEFINE e == cs[i + 1][u]
  <2>1. /\ i + 1 \in DOMAIN cs /\ i + 1 # 1 /\ Tail(cs)[i][u] = e /\ u \in DOMAIN cs[i + 1]
        /\ e \in Elements(n) /\ u \in Uuid
    BY <1>1, <1>3, PartialIs
  <2>2. Fits(u, e, master[u], uploaded, op.pending, server)
    BY <2>1 DEF AllFit
  <2> HIDE DEF m, e
  <2>3. CASE u \in DOMAIN cs[1]
    <3>1. ~e.saved
      BY <1>1, <2>1, <2>3 DEF Separate, e
    <3>2. MergedWith(m[u], e) = MergedWith(master[u], e)
      BY <3>1 DEF MergedWith
    <3> QED
      BY <2>1, <2>2, <3>2 DEF Fits
  <2>4. CASE u \notin DOMAIN cs[1]
    <3>1. m[u] = master[u]
      BY <1>2, <2>1, <2>4, MappedAt DEF m
    <3> QED
      BY <2>1, <2>2, <3>1
  <2> QED
    BY <2>3, <2>4
<1>4. Separate(Tail(cs))
  BY <1>1 DEF Separate
<1> QED
  BY <1>3, <1>4 DEF AllFit

LEMMA EmitEdits ==
  ASSUME NEW n \in Nat, Types(n), EditInv, NEW cs \in Seq(Partial(Elements(n))), EmitNext(cs),
         AllFit(cs, master, uploaded, op.pending, server), Separate(cs),
         1 .. uuids \subseteq 1 .. uuids', \A i \in DOMAIN cs : DOMAIN cs[i] \subseteq 1 .. uuids',
         UNCHANGED <<server, uploaded>>,
         SoundIn(disk', uploaded), Present(disk') \subseteq 1 .. uuids'
  PROVE  EditInv'
<1>1. op \in Operations(n) /\ op.pending \subseteq Uuid
  BY DEF Types, OperationTypes, Operations
<1>2. SoundIn(master, uploaded) /\ Present(master) \subseteq 1 .. uuids'
  BY DEF EditInv, AllSound, Names
<1>3. CASE cs = <<>>
  <2>1. /\ op' = [op EXCEPT !.pc = "stored", !.collections = <<>>, !.unsaved = <<>>]
        /\ UNCHANGED master
    BY <1>3 DEF EmitNext, items
  <2>2. /\ op'.items = op.items /\ op'.pending = op.pending /\ op'.resp = op.resp
        /\ op'.unsynced = op.unsynced /\ op'.collections = <<>>
        /\ op'.unsaved = <<>> /\ op'.pc = "stored" /\ DOMAIN <<>> = {}
    BY <1>1, <2>1 DEF Operations
  <2>3. Names' /\ Request'
    BY <2>1, <2>2 DEF EditInv, Names, Request, Present
  <2>4. AllSound'
    BY <2>1, <2>2 DEF EditInv, AllSound, KnownIn, SoundIn, Present
  <2>5. Following' /\ Remaining'
    BY <2>1, <2>2 DEF EditInv, Following, Responding, Remaining, AllFit, Separate
  <2> QED
    BY <2>3, <2>4, <2>5 DEF EditInv
<1>4. CASE cs # <<>>
  <2> DEFINE h == Head(cs)
             f == Merged(h)
  <2>1. /\ op' = [op EXCEPT !.pc = "storing", !.collections = Tail(cs), !.unsaved = f]
        /\ master' = Mapped(f)
    BY <1>4 DEF EmitNext
  <2>2. /\ h \in Partial(Elements(n)) /\ h = cs[1] /\ 1 \in DOMAIN cs /\ DOMAIN f = DOMAIN h
        /\ \A i \in DOMAIN Tail(cs) : Tail(cs)[i] = cs[i + 1] /\ i + 1 \in DOMAIN cs
    BY <1>4 DEF Merged
  <2>3. \A u \in DOMAIN h : Fits(u, h[u], master[u], uploaded, op.pending, server)
    BY <2>2 DEF AllFit
  <2>4. \A u \in DOMAIN f : Sound(f[u], uploaded)
    BY <2>3 DEF Fits, Merged
  <2>5. DOMAIN f \subseteq 1 .. uuids'
    BY <2>2
  <2>6. Followed(op.pending, op.items, Mapped(f), uploaded, server)
    BY <1>1, <2>2, <2>3, MappedFollowed DEF EditInv, Following
  <2>7. AllFit(Tail(cs), Mapped(f), uploaded, op.pending, server) /\ Separate(Tail(cs))
    BY <1>4, TailFits
  <2>8. \A i \in DOMAIN Tail(cs) : DOMAIN Tail(cs)[i] \subseteq 1 .. uuids'
    BY <2>2
  <2> HIDE DEF f, h
  <2>9. /\ op'.items = op.items /\ op'.pending = op.pending /\ op'.resp = op.resp
        /\ op'.unsynced = op.unsynced /\ op'.collections = Tail(cs)
        /\ op'.unsaved = f /\ op'.pc = "storing"
    BY <1>1, <2>1 DEF Operations
  <2>10. SoundIn(Mapped(f), uploaded) /\ Present(Mapped(f)) \subseteq 1 .. uuids'
    BY <1>2, <2>4, <2>5, MappedSound
  <2>11. Names' /\ Request'
    BY <2>1, <2>5, <2>8, <2>9, <2>10 DEF EditInv, Names, Request, Present
  <2>12. AllSound'
    BY <2>1, <2>4, <2>9, <2>10 DEF EditInv, AllSound, KnownIn, SoundIn, Present
  <2>13. Following'
    BY <2>1, <2>6, <2>9 DEF EditInv, Following, Responding
  <2>14. Remaining'
    BY <2>1, <2>7, <2>9 DEF Remaining
  <2> QED
    BY <2>11, <2>12, <2>13, <2>14 DEF EditInv
<1> QED
  BY <1>3, <1>4

LEMMA CollectionStoredEdits ==
  ASSUME NEW n \in Nat, Types(n), EditInv, CollectionStored
  PROVE  EditInv'
<1>1. op.collections \in Seq(Partial(Elements(n))) /\ op.unsaved \in Partial(Payloads(n))
  BY DEF Types, OperationTypes, Operations
<1>2. /\ EmitNext(op.collections) /\ disk' = Save(op.unsaved)
      /\ UNCHANGED <<server, uploaded, uuids>>
  BY DEF CollectionStored, account, names
<1>3. /\ DOMAIN op.unsaved \subseteq 1 .. uuids
      /\ \A u \in DOMAIN op.unsaved : Sound(op.unsaved[u], uploaded)
      /\ \A i \in DOMAIN op.collections : DOMAIN op.collections[i] \subseteq 1 .. uuids
      /\ AllFit(op.collections, master, uploaded, op.pending, server)
      /\ Separate(op.collections)
  BY DEF EditInv, Names, AllSound, Remaining
<1>4. /\ SoundIn(Save(op.unsaved), uploaded)
      /\ Present(Save(op.unsaved)) \subseteq 1 .. uuids
  BY <1>1, <1>3, DiskStays, SaveSound
<1> QED
  BY <1>1, <1>2, <1>3, <1>4, EmitEdits

(****************************************************************************)
(* What the deltas make of a response fits, while nothing was mapped of it. *)
(****************************************************************************)
LEMMA FinalIs ==
  ASSUME NEW n \in Nat, NEW u \in Uuid, NEW p \in Payloads(n)
  PROVE  /\ Final(u, p) \in Payloads(n)
         /\ Final(u, p).content = p.content /\ Final(u, p).deleted = p.deleted
         /\ Final(u, p).began = p.began /\ Final(u, p).dirty = finalDirtyState(u, p)
         /\ Final(u, p).dirtied = IF finalDirtyState(u, p) THEN "since" ELSE "unset"
<1>1. finalDirtyState(u, p) \in BOOLEAN
  BY DEF finalDirtyState, Payloads
<1> HIDE DEF finalDirtyState
<1>2. Final(u, p) = [p EXCEPT !.dirty = finalDirtyState(u, p),
                              !.dirtied = IF finalDirtyState(u, p) THEN "since" ELSE "unset"]
  BY DEF Final
<1> QED
  BY <1>1, <1>2, FinalType DEF Payloads

Unsaved(p) == [saved |-> FALSE, p |-> p]

\* Of an item that is deleted there, or has content the server has had.
LEMMA TakenOverFits ==
  ASSUME NEW n \in Nat, Types(n), EditInv, op.pc = "received", NEW u \in Present(op.resp.data)
  PROVE  Fits(u, Unsaved(Final(u, TakenOver(u))), master[u], uploaded, op.pending, server)
<1> DEFINE t == TakenOver(u)
           p == Final(u, t)
           e == Unsaved(p)
<1>1. u \in Uuid /\ op \in Operations(n) /\ master \in [Uuid -> Payloads(n) \cup {None}]
  BY DEF Present, Types, OperationTypes, ClientTypes
<1>2. Incoming(u) \in ServerItems(n) /\ t \in Payloads(n)
  BY <1>1, DeltaTypes
<1>3. /\ t.content = Incoming(u).content /\ t.deleted = Incoming(u).deleted
      /\ t.dirty = FALSE /\ t.dirtied = "unset"
      /\ t.began = (master[u] # None /\ master[u].began)
  BY DEF TakenOver
<1> HIDE DEF t
<1>4. /\ p \in Payloads(n) /\ p.content = t.content /\ p.deleted = t.deleted
      /\ p.began = t.began /\ p.dirty = finalDirtyState(u, t)
  BY <1>1, <1>2, FinalIs
<1>5. Known(Incoming(u), uploaded) /\ NoContent \notin uploaded
  BY DEF EditInv, AllSound, KnownIn, Incoming
<1> HIDE DEF p
<1>6. ~e.saved /\ e.p = p /\ MergedWith(master[u], e) = p
  BY DEF MergedWith, Unsaved
<1>7. Sound(p, uploaded)
  BY <1>3, <1>4, <1>5 DEF Sound, Known
<1>8. ASSUME u \in op.pending
      PROVE  IF discardable(p) THEN DeletedThere(u, server) ELSE p.began /\ Noticed(p, uploaded)
  <2>1. /\ master[u] = None => op.resp.data[u] # None /\ op.resp.data[u].deleted
        /\ op.resp.data[u] # None /\ op.resp.data[u].deleted => DeletedThere(u, server)
        /\ master[u] # None => master[u].began
    BY <1>8 DEF EditInv, Following, Responding, Answered, Deleted, Followed
  <2>2. CASE discardable(p)
    <3>1. op.resp.data[u] # None /\ op.resp.data[u].deleted
      BY <1>3, <1>4, <2>2 DEF discardable, Incoming, Present
    <3> QED
      BY <2>1, <2>2, <3>1
  <2>3. CASE ~discardable(p)
    <3>1. master[u] # None
      <4>1. SUFFICES ASSUME master[u] = None PROVE FALSE
        OBVIOUS
      <4>2. t.deleted /\ finalDirtyState(u, t) = FALSE
        BY <1>3, <2>1, <4>1 DEF finalDirtyState, Present, Incoming
      <4> QED
        BY <1>4, <2>3, <4>2 DEF discardable
    <3>2. p.began
      BY <1>3, <1>4, <2>1, <3>1
    <3>3. Noticed(p, uploaded)
      BY <1>3, <1>4, <1>5 DEF Noticed, Known
    <3> QED
      BY <2>3, <3>2, <3>3
  <2> QED
    BY <2>2, <2>3
<1> HIDE DEF e
<1>9. Fits(u, e, master[u], uploaded, op.pending, server)
  BY <1>6, <1>7, <1>8 DEF Fits
<1> QED
  BY <1>9 DEF e, p, t

\* A payload kept is dirty.
LEMMA KeptLeftFits ==
  ASSUME NEW n \in Nat, Types(n), EditInv,
         NEW u \in Present(op.resp.data) \cap Present(master)
  PROVE  Fits(u, Unsaved(Final(u, KeptLeft(u))), master[u], uploaded, op.pending, server)
<1> DEFINE t == KeptLeft(u)
           p == Final(u, t)
           e == Unsaved(p)
<1>1. u \in Uuid /\ op \in Operations(n) /\ master \in [Uuid -> Payloads(n) \cup {None}]
  BY DEF Present, Types, OperationTypes, ClientTypes
<1>2. master[u] \in Payloads(n) /\ t \in Payloads(n)
  BY <1>1, DeltaTypes
<1>3. /\ t.content = master[u].content /\ t.deleted = master[u].deleted
      /\ t.dirty = TRUE /\ t.dirtied = "since" /\ t.began = master[u].began
  BY <1>2 DEF KeptLeft, Payloads
<1> HIDE DEF t
<1>4. finalDirtyState(u, t) = TRUE
  BY <1>3 DEF finalDirtyState
<1>5. /\ p \in Payloads(n) /\ p.content = t.content /\ p.deleted = t.deleted
      /\ p.began = t.began /\ p.dirty = TRUE /\ p.dirtied = "since"
  BY <1>1, <1>2, <1>4, FinalIs
<1> HIDE DEF p
<1>6. ~e.saved /\ e.p = p /\ MergedWith(master[u], e) = p
  BY DEF MergedWith, Unsaved
<1>7. Sound(p, uploaded)
  <2>1. Sound(master[u], uploaded)
    BY DEF EditInv, AllSound, SoundIn
  <2> QED
    BY <1>3, <1>5, <2>1 DEF Sound
<1>8. ASSUME u \in op.pending
      PROVE  ~discardable(p) /\ p.began /\ Noticed(p, uploaded)
  <2>1. master[u].began
    BY <1>8 DEF EditInv, Following, Followed, Present
  <2> QED
    BY <1>3, <1>5, <2>1 DEF discardable, Noticed
<1> HIDE DEF e
<1>9. Fits(u, e, master[u], uploaded, op.pending, server)
  BY <1>6, <1>7, <1>8 DEF Fits
<1> QED
  BY <1>9 DEF e, p, t

\* A saved payload says what became of the item's state; the content stays, and is dirty if
\* it was edited since the request began.
LEMMA SavedFits ==
  ASSUME NEW n \in Nat, Types(n), EditInv, op.pc = "received", NEW u \in op.resp.saved
  PROVE  Fits(u, SavedCollection[u], master[u], uploaded, op.pending, server)
<1> DEFINE t == SavedState(u)
           p == Final(u, t)
           e == SavedCollection[u]
           gone == IF master[u] # None THEN master[u].deleted ELSE Incoming(u).deleted
<1>1. u \in Uuid /\ op \in Operations(n) /\ master \in [Uuid -> Payloads(n) \cup {None}]
      /\ u \in Present(op.resp.data)
  BY DEF Present, Types, OperationTypes, ClientTypes, References
<1>2. /\ Incoming(u) \in ServerItems(n) /\ t \in Payloads(n) /\ TakenOver(u) \in Payloads(n)
      /\ u \in Present(master) => master[u] \in Payloads(n)
  BY <1>1, DeltaTypes
<1>3. /\ t.content = Incoming(u).content /\ t.deleted = gone /\ t.dirty = gone
      /\ t.dirtied = "unset"
  <2>1. /\ TakenOver(u).content = Incoming(u).content /\ TakenOver(u).dirtied = "unset"
    BY DEF TakenOver
  <2>2. t = [TakenOver(u) EXCEPT !.deleted = gone, !.dirty = gone]
    BY DEF SavedState
  <2> HIDE DEF t, gone
  <2> QED
    BY <1>2, <2>1, <2>2 DEF Payloads
<1> HIDE DEF t
<1>4. /\ p \in Payloads(n) /\ p.content = t.content /\ p.deleted = t.deleted
      /\ p.dirty = finalDirtyState(u, t)
  BY <1>1, <1>2, FinalIs
<1>5. e.saved = TRUE /\ e.p = p /\ e \in Elements(n)
  BY <1>4 DEF SavedCollection, Elements, t
<1> HIDE DEF p, e
<1>6. u \notin op.pending
  BY DEF EditInv, Request
<1>7. CASE master[u] = None
  <2>1. MergedWith(master[u], e) = p
    BY <1>5, <1>7 DEF MergedWith
  <2>2. Known(Incoming(u), uploaded) /\ NoContent \notin uploaded
    BY <1>1 DEF EditInv, AllSound, KnownIn, Incoming
  <2>3. Sound(p, uploaded)
    BY <1>3, <1>4, <1>7, <2>2 DEF Sound, Known
  <2> QED
    BY <1>6, <2>1, <2>3 DEF Fits, e
<1>8. CASE master[u] # None
  <2> DEFINE q == MergedWith(master[u], e)
  <2>1. master[u] \in Payloads(n) /\ u \in Present(master)
    BY <1>1, <1>8 DEF Present
  <2>2. q.content = master[u].content /\ q.deleted = p.deleted /\ q.dirty = p.dirty
    BY <1>5, <2>1, MergedWithIs
  <2>3. /\ Sound(master[u], uploaded) /\ master[u].began /\ Noticed(master[u], uploaded)
    BY <1>8, <2>1 DEF EditInv, AllSound, SoundIn, Following, Responding, Settled
  <2>4. p.deleted = master[u].deleted
    BY <1>3, <1>4, <1>8
  <2> HIDE DEF q
  <2>5. ASSUME ~master[u].deleted, master[u].content \notin uploaded PROVE p.dirty
    <3>1. master[u].dirtied = "since"
      BY <2>3, <2>5 DEF Noticed
    <3>2. ~discardable(t)
      BY <1>3, <1>8, <2>5 DEF discardable
    <3>3. finalDirtyState(u, t)
      BY <1>3, <2>1, <2>3, <3>1, <3>2 DEF finalDirtyState
    <3> QED
      BY <1>4, <3>3
  <2>6. Sound(q, uploaded)
    BY <2>2, <2>3, <2>4, <2>5 DEF Sound
  <2> QED
    BY <1>6, <2>6 DEF Fits, q, e
<1> QED
  BY <1>7, <1>8

\* A copy is dirty, and has a uuid of its own.
LEMMA CopyFits ==
  ASSUME NEW n \in Nat, Types(n), EditInv, NEW v, v \notin 1 .. uuids,
         NEW c, NEW version, c # NoContent
  PROVE  Fits(v, Unsaved(CopyMade(c, version)), master[v], uploaded, op.pending, server)
<1> DEFINE p == CopyMade(c, version)
           e == Unsaved(p)
<1>1. p.content = c /\ p.deleted = FALSE /\ p.dirty = TRUE
  BY DEF CopyMade
<1> HIDE DEF p
<1>2. ~e.saved /\ MergedWith(master[v], e) = p
  BY DEF MergedWith, Unsaved
<1>3. v \notin op.pending
  BY DEF EditInv, Names, Types, OperationTypes, References
<1>4. Sound(p, uploaded)
  BY <1>1 DEF Sound
<1> HIDE DEF e
<1>5. Fits(v, e, master[v], uploaded, op.pending, server)
  BY <1>2, <1>3, <1>4 DEF Fits
<1> QED
  BY <1>5 DEF e, p

\* The elements of collection f are not saved ones, and fit.
FitsWell(f) ==
  \A u \in DOMAIN f :
    ~f[u].saved /\ Fits(u, f[u], master[u], uploaded, op.pending, server)

LEMMA AppliedFits ==
  ASSUME NEW n \in Nat, Types(n), EditInv, op.pc = "received",
         NEW S, S \subseteq Present(op.resp.data)
  PROVE  FitsWell(Applied(S)) /\ DOMAIN Applied(S) = S
<1>1. ASSUME NEW u \in S
      PROVE  ~Applied(S)[u].saved
             /\ Fits(u, Applied(S)[u], master[u], uploaded, op.pending, server)
  <2>1. Applied(S)[u] = Unsaved(Final(u, TakenOver(u)))
    BY DEF Applied, Unsaved
  <2>2. ~Unsaved(Final(u, TakenOver(u))).saved
    BY DEF Unsaved
  <2> QED
    BY <2>1, <2>2, TakenOverFits
<1>2. DOMAIN Applied(S) = S
  BY DEF Applied
<1> QED
  BY <1>1, <1>2 DEF FitsWell

LEMMA ResolvedFits ==
  ASSUME NEW n \in Nat, Types(n), EditInv, op.pc = "received",
         NEW S, S \subseteq Present(op.resp.data) \cap Present(master), NEW recent
  PROVE  /\ FitsWell(Resolved(S, recent))
         /\ DOMAIN Resolved(S, recent)
              \subseteq S \cup (uuids + 1 .. uuids + Cardinality(Duplicated))
<1> DEFINE f == Resolved(S, recent)
<1>1. uuids \in Nat
  BY DEF Types, OtherTypes
<1>2. DOMAIN f = S \cup Copied(S)
  BY DEF Resolved
<1>3. ASSUME NEW v \in Copied(S) PROVE v \in uuids + 1 .. uuids + Cardinality(Duplicated)
  BY <1>1, <1>3, CopyUuidIs DEF Copied
<1>4. ASSUME NEW v \in S
      PROVE  ~f[v].saved /\ Fits(v, f[v], master[v], uploaded, op.pending, server)
  <2>1. \/ f[v] = Unsaved(Final(v, KeptLeft(v)))
        \/ f[v] = Unsaved(Final(v, TakenOver(v)))
    BY DEF Resolved, Unsaved
  <2>2. /\ ~Unsaved(Final(v, KeptLeft(v))).saved
        /\ ~Unsaved(Final(v, TakenOver(v))).saved
    BY DEF Unsaved
  <2>3. /\ Fits(v, Unsaved(Final(v, KeptLeft(v))), master[v], uploaded, op.pending, server)
        /\ Fits(v, Unsaved(Final(v, TakenOver(v))), master[v], uploaded, op.pending, server)
    BY KeptLeftFits, TakenOverFits
  <2> QED
    BY <2>1, <2>2, <2>3
<1>5. ASSUME NEW v \in Copied(S) \ S
      PROVE  ~f[v].saved /\ Fits(v, f[v], master[v], uploaded, op.pending, server)
  <2> DEFINE u == CHOOSE w \in S \cap Duplicated : CopyUuid(w) = v
  <2>1. u \in S \cap Duplicated
    BY <1>5 DEF Copied
  <2>2. f[v] = [saved |-> FALSE,
                p |-> IF u \in recent THEN CopyMade(Incoming(u).content, Incoming(u).version)
                      ELSE CopyMade(master[u].content, master[u].version)]
    BY <1>5 DEF Resolved
  <2> HIDE DEF u
  <2>3. \/ f[v] = Unsaved(CopyMade(Incoming(u).content, Incoming(u).version))
        \/ f[v] = Unsaved(CopyMade(master[u].content, master[u].version))
    BY <2>2 DEF Unsaved
  <2>4. ~master[u].deleted /\ ~Incoming(u).deleted
    BY <2>1 DEF Duplicated, strategy
  <2>5. Incoming(u).content # NoContent /\ master[u].content # NoContent
    BY <2>1, <2>4 DEF EditInv, AllSound, KnownIn, Known, SoundIn, Sound, Incoming
  <2>6. v \notin 1 .. uuids
    <3>1. v \in uuids + 1 .. uuids + Cardinality(Duplicated)
      BY <1>3, <1>5
    <3>2. Cardinality(Duplicated) \in Nat
      BY <1>1, <2>1, CopyUuidIs
    <3> QED
      BY <1>1, <3>1, <3>2
  <2>7. /\ Fits(v, Unsaved(CopyMade(Incoming(u).content, Incoming(u).version)), master[v],
                uploaded, op.pending, server)
        /\ Fits(v, Unsaved(CopyMade(master[u].content, master[u].version)), master[v],
                uploaded, op.pending, server)
    BY <2>5, <2>6, CopyFits
  <2>8. \A p : ~Unsaved(p).saved
    BY DEF Unsaved
  <2> QED
    BY <2>3, <2>7, <2>8
<1> HIDE DEF f
<1>6. FitsWell(f)
  BY <1>2, <1>4, <1>5 DEF FitsWell
<1> QED
  BY <1>2, <1>3, <1>6 DEF f

LEMMA BothFit ==
  ASSUME NEW f, NEW g, FitsWell(f), FitsWell(g)
  PROVE  FitsWell(Both(f, g)) /\ DOMAIN Both(f, g) = DOMAIN f \cup DOMAIN g
BY DEF FitsWell, Both

\* The collections of the items that others changed: of them, and of copies.
LEMMA CollectionsFit ==
  ASSUME NEW n \in Nat, Types(n), EditInv, op.pc = "received", NEW recent
  PROVE  LET new == uuids + 1 .. uuids + Cardinality(Duplicated)
         IN /\ FitsWell(RetrievedCollection(recent))
            /\ FitsWell(ConflictsCollection(recent))
            /\ DOMAIN RetrievedCollection(recent) \subseteq op.resp.retrieved \cup new
            /\ DOMAIN ConflictsCollection(recent) \subseteq op.resp.conflicts \cup new
<1>1. /\ op.resp.retrieved \cup op.resp.conflicts \subseteq Present(op.resp.data)
      /\ Contested \subseteq op.resp.retrieved
      /\ Contested \cap Conflicted \subseteq Present(op.resp.data) \cap Present(master)
      /\ op.resp.conflicts \cap Conflicted \subseteq Present(op.resp.data) \cap Present(master)
  BY DEF Types, OperationTypes, References, Contested, Conflicted
<1> DEFINE a == Applied(op.resp.retrieved \ Contested)
           b == Resolved(Contested \cap Conflicted, recent)
           c == Applied(op.resp.conflicts \ Conflicted)
           d == Resolved(op.resp.conflicts \cap Conflicted, recent)
<1>2. FitsWell(a) /\ DOMAIN a = op.resp.retrieved \ Contested
  BY <1>1, AppliedFits
<1>3. FitsWell(c) /\ DOMAIN c = op.resp.conflicts \ Conflicted
  BY <1>1, AppliedFits
<1>4. /\ FitsWell(b)
      /\ DOMAIN b \subseteq (Contested \cap Conflicted)
                              \cup (uuids + 1 .. uuids + Cardinality(Duplicated))
  BY <1>1, ResolvedFits
<1>5. /\ FitsWell(d)
      /\ DOMAIN d \subseteq (op.resp.conflicts \cap Conflicted)
                              \cup (uuids + 1 .. uuids + Cardinality(Duplicated))
  BY <1>1, ResolvedFits
<1>6. RetrievedCollection(recent) = Both(a, b) /\ ConflictsCollection(recent) = Both(c, d)
  BY DEF RetrievedCollection, ConflictsCollection
<1> HIDE DEF a, b, c, d
<1>7. /\ FitsWell(Both(a, b)) /\ DOMAIN Both(a, b) = DOMAIN a \cup DOMAIN b
      /\ FitsWell(Both(c, d)) /\ DOMAIN Both(c, d) = DOMAIN c \cup DOMAIN d
  BY <1>2, <1>3, <1>4, <1>5, BothFit
<1> QED
  BY <1>1, <1>2, <1>3, <1>4, <1>5, <1>6, <1>7

LEMMA ProcessResponseEdits ==
  ASSUME NEW n \in Nat, Types(n), EditInv, ProcessResponse
  PROVE  EditInv'
<1> DEFINE new == uuids + 1 .. uuids + Cardinality(Duplicated)
<1>1. /\ op.pc = "received" /\ uuids \in Nat
      /\ uuids + Cardinality(Duplicated) <= MaxUuid /\ OperationTypes(n)
      /\ master \in [Uuid -> Payloads(n) \cup {None}]
      /\ uuids' = uuids + Cardinality(Duplicated) /\ UNCHANGED <<disk, server, uploaded>>
  BY DEF ProcessResponse, Types, OtherTypes, ClientTypes, account
<1>2. Cardinality(Duplicated) \in Nat
  <2>1. Duplicated \subseteq Uuid
    BY DEF Duplicated, Conflicted, Present
  <2>2. IsFiniteSet(Uuid)
    BY UuidAssumption, FS_Interval DEF Uuid
  <2> QED
    BY <2>1, <2>2, FS_Subset, FS_CardinalityType
<1>3. new \subseteq 1 .. uuids' /\ 1 .. uuids \subseteq 1 .. uuids' /\ new \cap 1 .. uuids = {}
  BY <1>1, <1>2
<1>4. PICK recent \in SUBSET Duplicated : EmitNext(CollectionsByProcessingResponse(recent))
  BY DEF ProcessResponse
<1>5. PICK cs : cs = CollectionsByProcessingResponse(recent)
  OBVIOUS
<1>6. PICK f : f = RetrievedCollection(recent)
  OBVIOUS
<1>7. PICK g : g = SavedCollection
  OBVIOUS
<1>8. PICK h : h = ConflictsCollection(recent)
  OBVIOUS
<1>9. cs \in Seq(Partial(Elements(n))) /\ Collects(cs, f, g, h)
  BY <1>1, <1>5, <1>6, <1>7, <1>8, CollectionTypes, CollectionsOfResponse
<1>10. /\ FitsWell(f) /\ DOMAIN f \subseteq op.resp.retrieved \cup new
       /\ FitsWell(h) /\ DOMAIN h \subseteq op.resp.conflicts \cup new
  BY <1>1, <1>6, <1>8, CollectionsFit
<1>11. /\ DOMAIN g = op.resp.saved
       /\ \A u \in DOMAIN g : Fits(u, g[u], master[u], uploaded, op.pending, server)
  BY <1>1, <1>7, SavedFits DEF SavedCollection
<1>12. /\ op.resp.saved \cup op.resp.retrieved \cup op.resp.conflicts \subseteq 1 .. uuids
       /\ op.resp.saved \cap (op.resp.retrieved \cup op.resp.conflicts) = {}
  BY <1>1 DEF EditInv, Names, Request, OperationTypes, References
<1> HIDE DEF new
<1>13. \A i \in DOMAIN cs : cs[i] \in {f, g, h}
  BY <1>9 DEF Collects
<1>14. AllFit(cs, master, uploaded, op.pending, server)
  BY <1>10, <1>11, <1>13 DEF AllFit, FitsWell
<1>15. \A i \in DOMAIN cs : DOMAIN cs[i] \subseteq 1 .. uuids'
  BY <1>3, <1>10, <1>11, <1>12, <1>13
<1>16. Separate(cs)
  <2>1. DOMAIN g \cap DOMAIN f = {} /\ DOMAIN g \cap DOMAIN h = {}
    BY <1>3, <1>10, <1>11, <1>12
  <2>2. /\ \A u \in DOMAIN f : ~f[u].saved
        /\ \A u \in DOMAIN h : ~h[u].saved
    BY <1>10 DEF FitsWell
  <2>3. ASSUME NEW i \in DOMAIN cs, NEW j \in DOMAIN cs, i # j,
               NEW u \in DOMAIN cs[i] \cap DOMAIN cs[j]
        PROVE  ~cs[i][u].saved
    <3>1. \/ cs[i] = f /\ cs[j] \in {g, h}
          \/ cs[i] = g /\ cs[j] \in {f, h}
          \/ cs[i] = h /\ cs[j] \in {f, g}
      BY <1>9, <2>3 DEF Collects
    <3> QED
      BY <2>1, <2>2, <2>3, <3>1
  <2> QED
    BY <2>3 DEF Separate
<1>17. SoundIn(disk', uploaded) /\ Present(disk') \subseteq 1 .. uuids'
  BY <1>1, <1>3, DiskStays
<1> QED
  BY <1>1, <1>3, <1>4, <1>5, <1>9, <1>14, <1>15, <1>16, <1>17, EmitEdits

-----------------------------------------------------------------------------
LEMMA EditInvInit == Init => EditInv
<1> SUFFICES ASSUME Init PROVE EditInv
  OBVIOUS
<1>1. Initial \subseteq Uuid /\ Items \in Nat /\ Initial = 1 .. Items
  BY UuidAssumption DEF Initial, Uuid
<1>2. /\ op.pc = "idle" /\ op.items = [u \in Uuid |-> None] /\ op.unsynced = {}
      /\ op.pending = {} /\ op.resp.saved = {} /\ op.resp.data = [u \in Uuid |-> None]
      /\ op.collections = <<>> /\ op.unsaved = <<>>
      /\ Present([u \in Uuid |-> None]) = {} /\ DOMAIN <<>> = {}
  BY DEF Init, NoSync, NoResponse, Present
<1>3. \A u \in Uuid :
        /\ master[u] # None => u \in Initial /\ master[u].content = u /\ master[u].deleted = FALSE
        /\ server[u] # None => u \in Initial /\ server[u].content = u /\ server[u].deleted = FALSE
  BY DEF Init
<1>4. disk = master /\ uuids = Items /\ uploaded = Initial
  BY DEF Init
<1>5. Names /\ Request
  BY <1>1, <1>2, <1>3, <1>4 DEF Names, Request, Present
<1>6. AllSound
  BY <1>1, <1>2, <1>3, <1>4 DEF AllSound, SoundIn, KnownIn, Sound, Known, Present, NoContent
<1>7. Following /\ Remaining
  BY <1>2 DEF Following, Followed, Deleted, Responding, Remaining, AllFit, Separate
<1> QED
  BY <1>5, <1>6, <1>7 DEF EditInv

LEMMA EditInvNext ==
  ASSUME EditWhileStoring = FALSE, TypeInv, EditInv, [Next]_vars
  PROVE  EditInv'
<1>1. PICK n \in Nat : Types(n)
  BY DEF TypeInv
<1>2. CASE Progress
  BY <1>1, <1>2, BeginSyncEdits, RequestEdits, SendEdits, ProcessResponseEdits,
     CollectionStoredEdits, EndEdits DEF Progress
<1>3. CASE Surroundings
  <2>1. CASE \E u \in Uuid : Edit(u) \/ Delete(u) \/ RemoteEdit(u) \/ RemoteDelete(u)
    BY <1>1, <2>1, UserEdits, RemoteEdits
  <2>2. CASE Create
    <3>1. \E u \in Uuid : TRUE
      BY <1>1, <2>2, UuidAssumption DEF Create, Types, OtherTypes, Uuid
    <3> QED
      BY <1>1, <2>2, <3>1, UserEdits
  <2>3. CASE RequestLost \/ ResponseLost \/ TokenStored
    BY <1>1, <2>3, RequestEdits
  <2>4. CASE Restart
    BY <1>1, <2>4, RestartEdits
  <2> QED
    BY <1>3, <2>1, <2>2, <2>3, <2>4 DEF Surroundings
<1>4. CASE UNCHANGED vars
  <2>1. op.pc # "storing" => op.collections = <<>>
    BY DEF EditInv, Request
  <2> QED
    BY <1>4, <2>1, DiskStays, Proceeds
       DEF vars, client, items, store, account, names, Responding
<1> QED
  BY <1>2, <1>3, <1>4 DEF Next

(****************************************************************************)
(* The client forgets that an item is dirty only if the server has had its  *)
(* content: through pages, lost answers, conflicts, copies, restarts, and   *)
(* edits made at any moment but one.  The moment is while collections of    *)
(* the response that have the item are still to be mapped: what DeltaRemote *)
(* and the other deltas made of the item then is of before that edit, and   *)
(* replaces it (README).                                                    *)
(****************************************************************************)
THEOREM EditsAreUploaded ==
  ASSUME EditWhileStoring = FALSE
  PROVE  Spec => []CleanMeansUploaded
<1>1. Init => TypeInv /\ EditInv
  BY TypeInvInit, EditInvInit
<1>2. TypeInv /\ EditInv /\ [Next]_vars => (TypeInv /\ EditInv)'
  BY TypeInvNext, EditInvNext
<1>3. TypeInv /\ EditInv => CleanMeansUploaded
  <2> SUFFICES ASSUME TypeInv, EditInv PROVE CleanMeansUploaded
    OBVIOUS
  <2>1. PICK n \in Nat : Types(n)
    BY DEF TypeInv
  <2>2. \A u \in Present(master) : Sound(master[u], uploaded) /\ ~discardable(master[u])
    BY <2>1 DEF Types, ClientTypes, Kept, EditInv, AllSound, SoundIn
  <2> QED
    BY <2>2 DEF CleanMeansUploaded, Sound, discardable
<1> QED
  BY <1>1, <1>2, <1>3, PTL DEF Spec


-----------------------------------------------------------------------------
(****************************************************************************)
(* The inductive invariant of TokenCoversItems.  Again the operators take   *)
(* what they speak of: s for server, lost for missed.                       *)
(****************************************************************************)

\* A client that has m of an item is not behind s, which the server has.
Has(m, s) ==
  IF s.deleted THEN m = None \/ m.dirty ELSE m # None /\ (m.dirty \/ m.content = s.content)

\* What is kept of payload p.
Landed(p) == IF discardable(p) THEN None ELSE p

\* The server will not tell a client with token t of item u again.
Told(u, t, s, lost) == u \notin lost /\ s[u] # None /\ s[u].version <= t

CoversBut(f, t, S, s, lost) == \A u \in Uuid \ S : Told(u, t, s, lost) => Has(f[u], s[u])

\* What element e makes of item u, of which the client has m, is not behind, and removes the
\* item only if it is deleted on the server.
Lands(u, e, m, t, s, lost) ==
  u \notin lost =>
    /\ Landed(MergedWith(m, e)) = None => DeletedThere(u, s)
    /\ Told(u, t, s, lost) => Has(Landed(MergedWith(m, e)), s[u])

AllLand(cs, m, t, s, lost) ==
  \A i \in DOMAIN cs : \A u \in DOMAIN cs[i] : Lands(u, cs[i][u], m[u], t, s, lost)

WindowOf(cs) == {u \in Uuid : \E i \in DOMAIN cs : u \in DOMAIN cs[i]}

\* The tokens, each of which the server has reached.
Tokens ==
  /\ diskToken <= token /\ op.token <= token /\ token <= clock /\ op.resp.token <= clock
  /\ op.pc = "sent" => token <= op.resp.token
  /\ op.pc \in {"received", "stuck", "storing", "stored"} => token = op.resp.token

\* What the response says of an item is what the server has, unless it has something that came
\* after the response; a deletion is not undone before the next page.
Response ==
  /\ \A u \in Responded :
       /\ op.resp.data[u] # None /\ server[u] # None
       /\ server[u] = op.resp.data[u] \/ ~(server[u].version <= op.resp.token)
  /\ \A u \in Uuid : op.resp.data[u] # None /\ op.resp.data[u].deleted => DeletedThere(u, server)

\* What is captured is dirty; what the client has no more of it was deleted by others.
Capturing ==
  /\ \A u \in Captured : op.items[u].dirty
  /\ op.unsynced \cap Captured = {}
  /\ \A u \in op.unsynced \ missed : server[u] = None
  /\ \A u \in Captured \ missed : master[u] = None => DeletedThere(u, server)
  /\ Responding => \A u \in Captured \ missed :
                     master[u] = None /\ op.resp.data[u] # None => op.resp.data[u].deleted
  /\ op.pc = "clearing" => DOMAIN op.unsaved \subseteq op.unsynced

\* A saved item is what the client has, or is noticed to have changed.
AsSaved(m, d) ==
  IF d.deleted THEN m = None \/ m.deleted
  ELSE m # None /\ (m.dirtied = "since" \/ m.content = d.content)

Saving ==
  Responding => \A u \in op.resp.saved \ missed : AsSaved(master[u], op.resp.data[u])

\* No response is still to be mapped and stored; or nothing of it is yet.
Quiet == op.pc \in {"idle", "saving", "ready", "sent", "stored", "clearing"}
Unprocessed == op.pc \in {"sent", "received", "stuck"}

InMemory ==
  /\ Quiet => CoversBut(master, token, {}, server, missed)
  /\ Unprocessed => CoversBut(master, op.resp.token, Responded, server, missed)
  /\ op.pc = "storing" => CoversBut(master, token, WindowOf(op.collections), server, missed)
  /\ AllLand(op.collections, master, token, server, missed)

OnDisk ==
  /\ Quiet => CoversBut(disk, token, {}, server, missed)
  /\ Unprocessed => CoversBut(disk, op.resp.token, Responded, server, missed)
  /\ op.pc = "storing" =>
       LET unstored == WindowOf(op.collections) \cup DOMAIN op.unsaved
       IN /\ CoversBut(disk, token, unstored, server, missed)
          /\ \A u \in DOMAIN op.unsaved :
               Told(u, token, server, missed) => Has(Landed(op.unsaved[u]), server[u])
          /\ unstored \cap Present(server) \subseteq Responded
  /\ ~Quiet /\ diskToken # op.resp.token => CoversBut(disk, diskToken, {}, server, missed)

CoverInv == Tokens /\ Response /\ Capturing /\ Saving /\ InMemory /\ OnDisk

-----------------------------------------------------------------------------
(****************************************************************************)
(* What is covered stays so.                                                *)
(****************************************************************************)
LEMMA CoverKept ==
  ASSUME NEW f, NEW g, NEW t, NEW S, NEW s, NEW r, NEW lost, NEW more, lost \subseteq more,
         \A u \in Uuid : r[u] = s[u] \/ (r[u] # None => ~(r[u].version <= t)),
         \A u \in Uuid \ S : Told(u, t, s, lost) /\ Has(f[u], s[u]) => Has(g[u], s[u]),
         CoversBut(f, t, S, s, lost)
  PROVE  CoversBut(g, t, S, r, more)
<1> SUFFICES ASSUME NEW u \in Uuid \ S, Told(u, t, r, more) PROVE Has(g[u], r[u])
  BY DEF CoversBut
<1>1. r[u] = s[u] /\ Told(u, t, s, lost)
  BY DEF Told
<1>2. Has(f[u], s[u])
  BY <1>1 DEF CoversBut
<1> QED
  BY <1>1, <1>2

LEMMA LandKept ==
  ASSUME NEW cs, NEW m, NEW g, NEW t, NEW s, NEW r, NEW lost, NEW more, lost \subseteq more,
         \A i \in DOMAIN cs : \A u \in DOMAIN cs[i] :
           /\ g[u] = m[u] /\ (DeletedThere(u, s) => DeletedThere(u, r))
           /\ r[u] = s[u] \/ (r[u] # None => ~(r[u].version <= t)),
         AllLand(cs, m, t, s, lost)
  PROVE  AllLand(cs, g, t, r, more)
<1>1. ASSUME NEW u, NEW e, NEW p, Lands(u, e, p, t, s, lost),
             DeletedThere(u, s) => DeletedThere(u, r),
             r[u] = s[u] \/ (r[u] # None => ~(r[u].version <= t))
      PROVE  Lands(u, e, p, t, r, more)
  BY <1>1 DEF Lands, Told
<1>2. ASSUME NEW i \in DOMAIN cs, NEW u \in DOMAIN cs[i]
      PROVE  Lands(u, cs[i][u], g[u], t, r, more)
  <2>1. Lands(u, cs[i][u], g[u], t, s, lost)
    BY <1>2, Zenon DEF AllLand
  <2> QED
    BY <1>1, <2>1
<1> QED
  BY <1>2 DEF AllLand

LEMMA NoneLand ==
  ASSUME NEW m, NEW t, NEW s, NEW lost
  PROVE  AllLand(<<>>, m, t, s, lost) /\ WindowOf(<<>>) = {} /\ DOMAIN <<>> = {}
  BY DEF AllLand, WindowOf

\* An earlier token covers less.
LEMMA TokensGrow ==
  ASSUME NEW t \in Nat, NEW d \in Nat, d <= t, NEW n \in Nat,
         NEW s \in [Uuid -> ServerItems(n) \cup {None}], NEW lost, NEW u \in Uuid,
         Told(u, d, s, lost)
  PROVE  Told(u, t, s, lost)
<1>1. s[u].version \in Nat
  BY DEF Told, ServerItems
<1> QED
  BY <1>1 DEF Told

LEMMA EarlierCovers ==
  ASSUME NEW f, NEW t \in Nat, NEW d \in Nat, d <= t, NEW n \in Nat,
         NEW s \in [Uuid -> ServerItems(n) \cup {None}], NEW lost, NEW S,
         CoversBut(f, t, S, s, lost)
  PROVE  CoversBut(f, d, S, s, lost)
BY TokensGrow DEF CoversBut

LEMMA DirtyHas ==
  ASSUME NEW p, p # None, p.dirty = TRUE, NEW s
  PROVE  Has(p, s)
  BY DEF Has

\* The types that the lemmas below need.
LEMMA CoverTypes ==
  ASSUME NEW n \in Nat, Types(n)
  PROVE  /\ op \in Operations(n) /\ op.resp \in Responses(n) /\ op.resp.token \in Nat
         /\ op.token \in Nat /\ Responded \subseteq Uuid /\ Captured \subseteq Uuid
         /\ op.pending \subseteq Captured /\ op.unsynced \subseteq Uuid
         /\ Responded \subseteq Present(op.resp.data)
         /\ op.collections \in Seq(Partial(Elements(n))) /\ op.unsaved \in Partial(Payloads(n))
         /\ master \in [Uuid -> Payloads(n) \cup {None}]
         /\ disk \in [Uuid -> Payloads(n) \cup {None}]
         /\ server \in [Uuid -> ServerItems(n) \cup {None}] /\ None \notin Payloads(n)
         /\ token \in Nat /\ diskToken \in Nat /\ clock \in Nat /\ missed \subseteq Uuid
         /\ op.items \in [Uuid -> Payloads(n) \cup {None}]
  BY PayloadsArePayloads DEF Types, ClientTypes, OtherTypes, OperationTypes, Operations, Responses,
     References, Responded, Captured, Present

(****************************************************************************)
(* Changes by the user leave something to be uploaded.                      *)
(****************************************************************************)
LEMMA LocalCovers ==
  ASSUME NEW n \in Nat, Types(n), CoverInv, NEW u \in Uuid, NEW p, p # None, p.dirty = TRUE,
         ~InWindow(u), master' = [v \in Uuid |-> IF v = u THEN p ELSE master[v]],
         Responding /\ u \in op.resp.saved \ missed => AsSaved(p, op.resp.data[u]),
         UNCHANGED <<op, disk, token, diskToken, server, clock, missed>>
  PROVE  CoverInv'
<1>1. master'[u] = p /\ \A v \in Uuid : v # u => master'[v] = master[v]
  OBVIOUS
<1>2. \A v \in Uuid : \A s : Has(master[v], s) => Has(master'[v], s)
  BY <1>1, DirtyHas
<1>3. Tokens' /\ Response'
  BY DEF CoverInv, Tokens, Response, Responded
<1>4. Capturing' /\ Saving'
  BY <1>1, CoverTypes DEF CoverInv, Capturing, Captured, Saving, Responding, Present, Responded
<1>5. \A t, S : CoversBut(master, t, S, server, missed) => CoversBut(master', t, S, server, missed)
  BY <1>2 DEF CoversBut
<1>6. AllLand(op.collections, master', token, server, missed)
  <2>1. \A i \in DOMAIN op.collections : \A v \in DOMAIN op.collections[i] : v \in Uuid /\ v # u
    BY CoverTypes, PartialIs DEF InWindow
  <2>2. \A i \in DOMAIN op.collections : \A v \in DOMAIN op.collections[i] : master'[v] = master[v]
    BY <1>1, <2>1
  <2> QED
    BY <2>2 DEF CoverInv, InMemory, AllLand
<1>7. InMemory'
  BY <1>5, <1>6 DEF CoverInv, InMemory, Quiet, Unprocessed, Responded
<1>8. OnDisk'
  BY DEF CoverInv, OnDisk, Quiet, Unprocessed, Responded, Present
<1> QED
  BY <1>3, <1>4, <1>7, <1>8 DEF CoverInv

LEMMA UserCovers ==
  ASSUME NEW n \in Nat, Types(n), EditInv, CoverInv, EditWhileStoring = FALSE, NEW u \in Uuid,
         Edit(u) \/ Delete(u) \/ Create
  PROVE  CoverInv'
<1>1. /\ uuids \in Nat /\ None \notin Payloads(n) /\ master \in [Uuid -> Payloads(n) \cup {None}]
      /\ op.resp.saved \subseteq 1 .. uuids
  BY CoverTypes, PayloadsArePayloads DEF Types, OtherTypes, EditInv, Names, Responded
<1>2. CASE Edit(u)
  <2> DEFINE p == [master[u] EXCEPT !.content = Len(written'), !.dirty = TRUE,
                                    !.dirtied = "since"]
  <2>1. /\ master[u] # None /\ master[u] \in Payloads(n) /\ ~master[u].deleted /\ ~InWindow(u)
        /\ UNCHANGED <<op, disk, token, diskToken, server, clock, missed>>
        /\ master' = Mapped(Only(u, p))
    BY <1>1, <1>2 DEF Edit, MayChange, MapLocally, store, account, past
  <2>2. /\ p.dirty = TRUE /\ p.dirtied = "since" /\ p.deleted = master[u].deleted
    BY <2>1 DEF Payloads
  <2>3. p # None
    <3>1. WrittenType(n + 1)'
      BY <1>2, <2>1, WriteType DEF Edit, Types, Payloads
    <3>2. n + 1 \in Nat /\ Len(written') \in 0 .. n + 1
      BY <3>1 DEF WrittenType
    <3>3. master[u] \in Payloads(n + 1) /\ None \notin Payloads(n + 1)
      BY <2>1, <3>2, OperationsGrow, PayloadsArePayloads
    <3>4. p \in Payloads(n + 1)
      BY <3>2, <3>3, EditedPayload
    <3> QED
      BY <3>3, <3>4
  <2> HIDE DEF p
  <2>4. master' = [v \in Uuid |-> IF v = u THEN p ELSE master[v]]
    BY <2>1, <2>2, MappedOnly DEF discardable
  <2>5. Responding /\ u \in op.resp.saved \ missed => AsSaved(p, op.resp.data[u])
    BY <2>1, <2>2, <2>3 DEF AsSaved, CoverInv, Saving
  <2> QED
    BY <2>1, <2>2, <2>3, <2>4, <2>5, LocalCovers
<1>3. CASE Delete(u)
  <2> DEFINE p == [master[u] EXCEPT !.content = NoContent, !.deleted = TRUE, !.dirty = TRUE,
                                    !.dirtied = "since"]
  <2>1. /\ master[u] # None /\ master[u] \in Payloads(n) /\ ~InWindow(u)
        /\ UNCHANGED <<op, disk, token, diskToken, server, clock, missed>>
        /\ master' = Mapped(Only(u, p))
    BY <1>1, <1>3 DEF Delete, MayChange, MapLocally, store, account, names
  <2>2. p.dirty = TRUE /\ p.deleted = TRUE /\ p.dirtied = "since"
    BY <2>1 DEF Payloads
  <2>3. p # None
    <3>1. p \in Payloads(n)
      BY <1>1, <2>1, DeletedPayload
    <3> QED
      BY <1>1, <3>1, PayloadsArePayloads
  <2> HIDE DEF p
  <2>4. master' = [v \in Uuid |-> IF v = u THEN p ELSE master[v]]
    BY <2>1, <2>2, MappedOnly DEF discardable
  <2>5. AsSaved(p, op.resp.data[u])
    BY <2>2, <2>3 DEF AsSaved
  <2> QED
    BY <2>1, <2>2, <2>3, <2>4, <2>5, LocalCovers
<1>4. CASE Create
  <2> DEFINE p == [content |-> Len(written'), version |-> 0, deleted |-> FALSE, dirty |-> TRUE,
                   dirtied |-> "unset", began |-> FALSE]
  <2>1. /\ uuids' = uuids + 1 /\ uuids' \in Uuid /\ uuids' \notin 1 .. uuids
        /\ UNCHANGED <<op, disk, token, diskToken, server, clock, missed>>
        /\ master' = Mapped(Only(uuids', p))
    BY <1>1, <1>4, UuidAssumption DEF Create, MapLocally, store, account, Uuid, past
  <2>2. p.dirty = TRUE /\ p.deleted = FALSE
    OBVIOUS
  <2>3. p # None
    <3>1. WrittenType(n + 1)'
      BY <1>4, <2>1, WriteType DEF Create, Types, NoContent
    <3>2. n + 1 \in Nat /\ Len(written') \in 0 .. n + 1
      BY <3>1 DEF WrittenType
    <3>3. p \in Payloads(n + 1)
      BY <3>2 DEF Payloads
    <3> QED
      BY <3>2, <3>3, PayloadsArePayloads
  <2> HIDE DEF p
  <2>4. PICK v \in Uuid : v = uuids'
    BY <2>1
  <2>5. master' = [w \in Uuid |-> IF w = v THEN p ELSE master[w]]
    BY <2>1, <2>2, <2>4, MappedOnly DEF discardable
  <2>6. ~InWindow(v) /\ v \notin op.resp.saved
    BY <1>1, <2>1, <2>4 DEF InWindow, EditInv, Names
  <2> QED
    BY <2>1, <2>2, <2>3, <2>5, <2>6, LocalCovers
<1> QED
  BY <1>2, <1>3, <1>4

(****************************************************************************)
(* Changes by other clients come after every token.                         *)
(****************************************************************************)
LEMMA RemoteCovers ==
  ASSUME NEW n \in Nat, Types(n), EditInv, CoverInv, NEW u \in Uuid,
         RemoteEdit(u) \/ RemoteDelete(u)
  PROVE  CoverInv'
<1>1. /\ clock \in Nat /\ token \in Nat /\ diskToken \in Nat /\ op.resp.token \in Nat
      /\ server \in [Uuid -> ServerItems(n) \cup {None}] /\ Responded \subseteq Uuid
      /\ Captured \subseteq Uuid /\ op.unsynced \subseteq Uuid /\ DOMAIN op.unsaved \subseteq Uuid
      /\ \A i \in DOMAIN op.collections : DOMAIN op.collections[i] \subseteq Uuid
  BY CoverTypes, PartialIs
<1>2. PICK p : server' = [server EXCEPT ![u] = p] /\ p.version = clock + 1 /\ p # None
  <2>1. CASE RemoteEdit(u)
    <3> DEFINE q == [content |-> Len(written'), version |-> clock', deleted |-> FALSE]
    <3>1. server' = [server EXCEPT ![u] = q] /\ clock' = clock + 1 /\ q.version = clock'
      BY <2>1 DEF RemoteEdit
    <3>2. WrittenType(n + 1)'
      BY <1>1, <2>1, WriteType DEF RemoteEdit, Types, ServerItems
    <3>3. n + 1 \in Nat /\ Len(written') \in 0 .. n + 1
      BY <3>2 DEF WrittenType
    <3>4. q \in ServerItems(n + 1)
      BY <1>1, <3>1, <3>3 DEF ServerItems
    <3>5. q # None
      BY <3>3, <3>4, PayloadsArePayloads
    <3> QED
      BY <3>1, <3>5
  <2>2. CASE RemoteDelete(u)
    <3> DEFINE q == [content |-> NoContent, version |-> clock', deleted |-> TRUE]
    <3>1. server' = [server EXCEPT ![u] = q] /\ clock' = clock + 1 /\ q.version = clock'
      BY <2>2 DEF RemoteDelete
    <3>2. q \in ServerItems(n)
      BY <1>1, <3>1 DEF ServerItems, NoContent
    <3>3. q # None
      BY <3>2, PayloadsArePayloads
    <3> QED
      BY <3>1, <3>3
  <2> QED
    BY <2>1, <2>2
<1>3. /\ clock' = clock + 1 /\ server[u] # None /\ ~server[u].deleted
      /\ UNCHANGED <<master, disk, token, diskToken, op, missed>>
  BY DEF RemoteEdit, RemoteDelete, client, items, store, past
<1>4. /\ server'[u] = p /\ \A v \in Uuid : v # u => server'[v] = server[v]
      /\ token <= clock /\ diskToken <= clock /\ op.resp.token <= clock
  BY <1>1, <1>2 DEF CoverInv, Tokens
<1>5. ASSUME NEW t \in {token, diskToken, op.resp.token}
      PROVE  \A v \in Uuid : server'[v] = server[v]
                             \/ (server'[v] # None => ~(server'[v].version <= t))
  BY <1>1, <1>2, <1>4
<1>6. ASSUME NEW t \in {token, diskToken, op.resp.token}, NEW f, NEW S,
             CoversBut(f, t, S, server, missed)
      PROVE  CoversBut(f, t, S, server', missed)
  BY <1>5, <1>6, CoverKept
<1>7. \A v \in Uuid : DeletedThere(v, server) => DeletedThere(v, server')
  BY <1>3, <1>4 DEF DeletedThere
<1>8. AllLand(op.collections, master, token, server', missed)
  <2>1. \A i \in DOMAIN op.collections : \A v \in DOMAIN op.collections[i] :
          /\ master[v] = master[v] /\ (DeletedThere(v, server) => DeletedThere(v, server'))
          /\ server'[v] = server[v] \/ (server'[v] # None => ~(server'[v].version <= token))
    BY <1>1, <1>5, <1>7
  <2>2. AllLand(op.collections, master, token, server, missed)
    BY DEF CoverInv, InMemory
  <2> QED
    BY <2>1, <2>2, LandKept
<1>9. \A v \in Uuid : /\ Told(v, token, server', missed)
                           => Told(v, token, server, missed) /\ server'[v] = server[v]
                      /\ server'[v] = None <=> server[v] = None
  BY <1>2, <1>3, <1>4, <1>5 DEF Told
<1>10. Tokens'
  BY <1>1, <1>3 DEF CoverInv, Tokens
<1>11. Response'
  <2>1. ASSUME NEW v \in Responded
        PROVE  /\ op.resp.data[v] # None /\ server'[v] # None
               /\ server'[v] = op.resp.data[v] \/ ~(server'[v].version <= op.resp.token)
    <3>1. /\ op.resp.data[v] # None /\ server[v] # None /\ v \in Uuid
          /\ server[v] = op.resp.data[v] \/ ~(server[v].version <= op.resp.token)
      BY <1>1 DEF CoverInv, Response
    <3> QED
      BY <1>5, <1>9, <3>1
  <2>2. \A v \in Uuid : op.resp.data[v] # None /\ op.resp.data[v].deleted
                          => DeletedThere(v, server')
    BY <1>7 DEF CoverInv, Response
  <2> QED
    BY <1>3, <2>1, <2>2 DEF Response, Responded
<1>12. Capturing' /\ Saving'
  BY <1>1, <1>3, <1>7, <1>9 DEF CoverInv, Capturing, Saving, Captured, Present, Responding
<1>13. InMemory'
  BY <1>3, <1>6, <1>8 DEF CoverInv, InMemory, Quiet, Unprocessed, Responded
<1>14. OnDisk'
  <2>1. ASSUME op.pc = "storing"
        PROVE  /\ CoversBut(disk, token, WindowOf(op.collections) \cup DOMAIN op.unsaved,
                            server', missed)
               /\ \A v \in DOMAIN op.unsaved :
                    Told(v, token, server', missed) => Has(Landed(op.unsaved[v]), server'[v])
               /\ (WindowOf(op.collections) \cup DOMAIN op.unsaved) \cap Present(server')
                    \subseteq Responded
    <3>1. Present(server') = Present(server)
      BY <1>9 DEF Present
    <3> QED
      BY <1>1, <1>6, <1>9, <2>1, <3>1 DEF CoverInv, OnDisk
  <2> QED
    BY <1>3, <1>6, <2>1 DEF CoverInv, OnDisk, Quiet, Unprocessed, Responded
<1> QED
  BY <1>10, <1>11, <1>12, <1>13, <1>14 DEF CoverInv

(****************************************************************************)
(* What is saved and mapped.                                                *)
(****************************************************************************)
LEMMA SaveCovers ==
  ASSUME NEW n \in Nat, NEW f \in Partial(Payloads(n)), NEW t, NEW S, NEW s, NEW lost,
         CoversBut(disk, t, S \cup DOMAIN f, s, lost),
         \A u \in DOMAIN f \ S : Told(u, t, s, lost) => Has(Landed(f[u]), s[u])
  PROVE  CoversBut(Save(f), t, S, s, lost)
<1> SUFFICES ASSUME NEW u \in Uuid \ S, Told(u, t, s, lost) PROVE Has(Save(f)[u], s[u])
  BY DEF CoversBut
<1>1. CASE u \notin DOMAIN f
  <2>1. Save(f)[u] = disk[u]
    BY <1>1 DEF Save
  <2> QED
    BY <1>1, <2>1 DEF CoversBut
<1>2. CASE u \in DOMAIN f
  <2>1. f[u] \in Payloads(n) /\ Stored(f[u]) \in Payloads(n)
    <3>1. f[u] \in Payloads(n)
      BY <1>2, PartialIs
    <3> QED
      BY <3>1 DEF Payloads, Stored
  <2>2. Stored(f[u]).dirty = f[u].dirty /\ Stored(f[u]).content = f[u].content
    BY <2>1 DEF Payloads, Stored
  <2>3. Save(f)[u] = IF discardable(f[u]) THEN None ELSE Stored(f[u])
    BY <1>2 DEF Save
  <2>4. Has(Landed(f[u]), s[u])
    BY <1>2
  <2>5. f[u] # None /\ Stored(f[u]) # None
    BY <2>1, PayloadsArePayloads
  <2> QED
    BY <2>2, <2>3, <2>4, <2>5 DEF Has, Landed
<1> QED
  BY <1>1, <1>2

LEMMA MapCovers ==
  ASSUME NEW f, NEW t, NEW S, NEW s, NEW lost, CoversBut(master, t, S \cup DOMAIN f, s, lost),
         \A u \in DOMAIN f \ S : Told(u, t, s, lost) => Has(Landed(f[u]), s[u])
  PROVE  CoversBut(Mapped(f), t, S, s, lost)
<1> SUFFICES ASSUME NEW u \in Uuid \ S, Told(u, t, s, lost) PROVE Has(Mapped(f)[u], s[u])
  BY DEF CoversBut
<1>1. CASE u \notin DOMAIN f
  BY <1>1, MappedAt DEF CoversBut
<1>2. CASE u \in DOMAIN f
  BY <1>2, MappedAt DEF Landed
<1> QED
  BY <1>1, <1>2

(****************************************************************************)
(* The request, up to the response.                                         *)
(****************************************************************************)

\* No answer is awaited.
LEMMA NoneAwaited ==
  ASSUME op'.resp = NoResponse, op'.collections = <<>>, op'.pc \in {"idle", "saving", "ready"},
         diskToken' <= token', op'.token <= token', token' <= clock', clock' \in Nat, Capturing',
         CoversBut(master', token', {}, server', missed'),
         CoversBut(disk', token', {}, server', missed')
  PROVE  CoverInv'
<1>1. /\ NoResponse.saved = {} /\ NoResponse.retrieved = {} /\ NoResponse.conflicts = {}
      /\ NoResponse.data = [u \in Uuid |-> None] /\ NoResponse.token = 0
  BY DEF NoResponse
<1>2. Tokens'
  BY <1>1 DEF Tokens
<1>3. Response' /\ Saving'
  BY <1>1 DEF Response, Responded, Saving, Responding
<1>4. InMemory'
  BY NoneLand DEF InMemory, Quiet, Unprocessed
<1>5. OnDisk'
  BY DEF OnDisk, Quiet, Unprocessed
<1> QED
  BY <1>2, <1>3, <1>4, <1>5 DEF CoverInv

LEMMA CapturedStays ==
  ASSUME CoverInv
  PROVE  /\ op' = NoSync => Capturing'
         /\ UNCHANGED <<op.items, op.unsynced, master, server, missed>> /\ ~Responding'
              /\ op'.pc # "clearing" => Capturing'
<1>1. ASSUME op' = NoSync PROVE Capturing'
  <2>1. op'.items = [u \in Uuid |-> None] /\ op'.unsynced = {} /\ op'.pc = "idle"
    BY <1>1 DEF NoSync
  <2> QED
    BY <2>1 DEF Capturing, Captured, Present, Responding
<1>2. ASSUME UNCHANGED <<op.items, op.unsynced, master, server, missed>>, ~Responding',
             op'.pc # "clearing"
      PROVE  Capturing'
  BY <1>2 DEF CoverInv, Capturing, Captured, Present
<1> QED
  BY <1>1, <1>2

LEMMA BeginSyncCovers ==
  ASSUME NEW n \in Nat, Types(n), CoverInv, BeginSync
  PROVE  CoverInv'
<1>1. /\ op'.resp = NoResponse /\ op'.collections = <<>> /\ op'.pc \in {"ready", "saving"}
      /\ op'.unsynced \subseteq Present(master)
      /\ \A u \in Present(op'.items) : u \in Present(master) /\ op'.items[u] = master[u]
      /\ \A u \in Present(master') : /\ u \in Present(master)
                                     /\ master'[u].content = master[u].content
                                     /\ master'[u].deleted = master[u].deleted
                                     /\ master'[u].dirty = master[u].dirty
      /\ Present(master) \subseteq Present(master')
      /\ Present(op'.items) = DirtyItems \ op'.unsynced
      /\ op'.token = token /\ missed' = missed \cup (op'.unsynced \cap Present(server))
      /\ UNCHANGED <<disk, token, diskToken, server, clock>>
  BY BeginSyncTypes
<1>2. /\ op.pc = "idle" /\ clock \in Nat /\ token \in Nat /\ diskToken <= token /\ token <= clock
      /\ CoversBut(master, token, {}, server, missed) /\ CoversBut(disk, token, {}, server, missed)
  BY CoverTypes DEF BeginSync, CoverInv, Tokens, InMemory, OnDisk, Quiet
<1>3. Capturing'
  BY <1>1 DEF Capturing, Captured, Present, DirtyItems, Responding
<1>4. \A u \in Uuid : \A s : Has(master[u], s) => Has(master'[u], s)
  BY <1>1 DEF Has, Present
<1>5. /\ CoversBut(master', token, {}, server, missed')
      /\ CoversBut(disk, token, {}, server, missed')
  BY <1>1, <1>2, <1>4 DEF CoversBut, Told
<1> QED
  BY <1>1, <1>2, <1>3, <1>5, NoneAwaited

LEMMA PreSyncSavedCovers ==
  ASSUME NEW n \in Nat, Types(n), CoverInv, PreSyncSaved
  PROVE  CoverInv'
<1> DEFINE f == [u \in Captured |-> op.items[u]]
<1>1. /\ op \in Operations(n) /\ op.items \in [Uuid -> Payloads(n) \cup {None}]
      /\ Captured \subseteq Uuid
  BY CoverTypes
<1>2. f \in Partial(Payloads(n))
  BY <1>1, PartialIs DEF Captured, Present
<1>3. DOMAIN f = Captured /\ \A u \in DOMAIN f : f[u] = op.items[u]
  OBVIOUS
<1>4. disk' = Save(f) /\ op' = [op EXCEPT !.pc = "ready"] /\ op.pc = "saving"
      /\ UNCHANGED <<master, token, diskToken, server, clock, missed>>
  BY DEF PreSyncSaved, items, account, past
<1> HIDE DEF f
<1>5. /\ op'.pc = "ready" /\ op'.items = op.items /\ op'.resp = op.resp /\ op'.token = op.token
      /\ op'.unsynced = op.unsynced /\ op'.collections = op.collections
      /\ op'.unsaved = op.unsaved
  BY <1>1, <1>4 DEF Operations
<1>6. CoversBut(disk, token, {}, server, missed)
  BY <1>4 DEF CoverInv, OnDisk, Quiet
<1>7. ASSUME NEW u \in DOMAIN f, NEW s PROVE Has(Landed(f[u]), s)
  <2>1. f[u] # None /\ f[u].dirty
    BY <1>2, <1>3, PayloadsArePayloads DEF CoverInv, Capturing, Captured, Present
  <2> QED
    BY <2>1 DEF Landed, discardable, Has
<1>8. CoversBut(disk', token, {}, server, missed)
  <2>1. CoversBut(disk, token, {} \cup DOMAIN f, server, missed)
    BY <1>6 DEF CoversBut
  <2> QED
    BY <1>2, <1>4, <1>7, <2>1, SaveCovers
<1>9. Capturing'
  BY <1>4, <1>5, CapturedStays DEF Responding
<1>10. Tokens' /\ Response' /\ Saving'
  BY <1>4, <1>5 DEF CoverInv, Tokens, Response, Responded, Saving, Responding
<1>11. InMemory' /\ OnDisk'
  BY <1>4, <1>5, <1>8 DEF CoverInv, InMemory, OnDisk, Quiet, Unprocessed
<1> QED
  BY <1>9, <1>10, <1>11 DEF CoverInv

\* The answer tells of every item that is newer than the token of the request, and its own
\* token comes before all that is yet to be.
LEMMA SendCovers ==
  ASSUME NEW n \in Nat, Types(n), EditInv, CoverInv, Send
  PROVE  CoverInv'
<1>1. PICK S \in SUBSET op.pending : Serve(S)
  BY DEF Send, Batches
<1>2. /\ OtherTypes(n) /\ OperationTypes(n) /\ op.pc = "ready"
      /\ UNCHANGED <<master, disk, token, diskToken>>
      /\ missed' = missed \cup {u \in op'.resp.saved : Outdated(u)}
  BY DEF Send, Types, client, items, store
<1>3. /\ server' \in [Uuid -> ServerItems(n) \cup {None}] /\ OperationTypes(n)'
      /\ op'.items = op.items /\ op'.pc = "sent" /\ op'.resp.data = server'
      /\ op'.resp.saved \subseteq S /\ op'.resp.conflicts = S \ op'.resp.saved
      /\ op'.unsynced = op.unsynced /\ op'.collections = op.collections
  BY <1>1, <1>2, ServeTypes
<1>4. /\ op \in Operations(n) /\ Captured \subseteq Uuid /\ op.pending \subseteq Captured
      /\ token \in Nat /\ clock \in Nat /\ op.token \in Nat /\ diskToken \in Nat
      /\ server \in [Uuid -> ServerItems(n) \cup {None}]
  BY CoverTypes
<1>5. /\ op'.token = op.token
      /\ op'.resp.token = clock' /\ clock' \in {clock, clock + 1}
      /\ \A u \in Uuid \ op'.resp.saved : server'[u] = server[u]
      /\ \A u \in op'.resp.saved : /\ server'[u].content = op.items[u].content
                                   /\ server'[u].deleted = op.items[u].deleted
                                   /\ server'[u].version = clock + 1
      /\ \A u \in Uuid \ S : server[u] # None /\ server[u].version > op.token
                               => u \in op'.resp.retrieved
  <2> PICK saved : saved = {u \in S : Accepts(u)}
    OBVIOUS
  <2> PICK now : now = IF saved = {} THEN clock ELSE clock + 1
    OBVIOUS
  <2> PICK then : then = [u \in Uuid |-> IF u \notin saved THEN server[u]
                                         ELSE [content |-> op.items[u].content, version |-> now,
                                               deleted |-> op.items[u].deleted]]
    OBVIOUS
  <2>1. /\ server' = then /\ clock' = now
        /\ op' = [op EXCEPT !.pc = "sent", !.pending = @ \ S,
                    !.resp = [saved |-> saved, conflicts |-> S \ saved,
                              retrieved |-> {u \in Uuid \ S : server[u] # None
                                                       /\ server[u].version > op.token},
                              data |-> then, token |-> now]]
    BY Zenon, <1>1 DEF Serve
  <2>2. /\ op'.token = op.token /\ op'.resp.token = now /\ op'.resp.saved = saved
        /\ op'.resp.retrieved = {u \in Uuid \ S : server[u] # None
                                                    /\ server[u].version > op.token}
        /\ saved \subseteq Uuid
    BY <1>4, <2>1 DEF Operations
  <2>3. ASSUME NEW u \in saved
        PROVE  /\ then[u].content = op.items[u].content /\ then[u].deleted = op.items[u].deleted
               /\ then[u].version = clock + 1
    BY <2>2
  <2> QED
    BY <2>1, <2>2, <2>3
<1>6. /\ diskToken <= token /\ op.token <= token /\ token <= clock
      /\ CoversBut(master, token, {}, server, missed) /\ CoversBut(disk, token, {}, server, missed)
      /\ op.collections = <<>>
  BY <1>2 DEF CoverInv, Tokens, InMemory, OnDisk, Quiet, EditInv, Request
<1>7. ASSUME NEW u \in op'.resp.saved \ missed'
      PROVE  /\ ~Outdated(u) /\ u \in Captured /\ u \in Uuid /\ u \notin missed
  BY <1>2, <1>3, <1>4, <1>7
<1>8. Tokens'
  BY <1>2, <1>3, <1>4, <1>5, <1>6 DEF Tokens
<1>9. Response'
  <2>1. \A u \in Responded' : op'.resp.data[u] # None
    BY <1>3 DEF OperationTypes, References, Responded, Present
  <2> QED
    BY <1>3, <2>1 DEF Response, DeletedThere
<1>10. \A u \in Captured \ missed' : master[u] = None => DeletedThere(u, server')
  <2>1. ASSUME NEW u \in Captured \ missed', master[u] = None PROVE DeletedThere(u, server')
    <3>1. CASE u \in op'.resp.saved
      <4>1. op.items[u].deleted
        BY <1>7, <2>1, <3>1 DEF Outdated
      <4>2. server'[u] # None
        BY <1>3, <3>1 DEF OperationTypes, References, Present
      <4> QED
        BY <1>5, <3>1, <4>1, <4>2 DEF DeletedThere
    <3>2. CASE u \notin op'.resp.saved
      <4>1. server'[u] = server[u] /\ u \notin missed
        BY <1>2, <1>4, <1>5, <2>1, <3>2
      <4> QED
        BY <2>1, <4>1 DEF CoverInv, Capturing, DeletedThere
    <3> QED
      BY <3>1, <3>2
  <2> QED
    BY <2>1
<1>11. Capturing'
  <2>1. Captured' = Captured
    BY <1>3 DEF Captured, Present
  <2>2. ASSUME NEW u \in op.unsynced \ missed' PROVE server'[u] = None
    <3>1. u \in Uuid /\ u \notin Captured /\ u \notin missed /\ server[u] = None
      BY <1>2, <1>4, CoverTypes DEF CoverInv, Capturing
    <3> QED
      BY <1>3, <1>4, <1>5, <3>1
  <2> QED
    BY <1>2, <1>3, <1>10, <2>1, <2>2 DEF CoverInv, Capturing, DeletedThere
<1>12. Saving'
  <2>1. ASSUME NEW u \in op'.resp.saved \ missed' PROVE AsSaved(master[u], server'[u])
    <3>1. ~Outdated(u) /\ server'[u].content = op.items[u].content
          /\ server'[u].deleted = op.items[u].deleted
      BY <1>5, <1>7, <2>1
    <3> QED
      BY <3>1 DEF Outdated, AsSaved
  <2> QED
    BY <1>2, <1>3, <2>1 DEF Saving
<1>13. ASSUME NEW f, CoversBut(f, token, {}, server, missed)
       PROVE  /\ CoversBut(f, token, {}, server', missed')
              /\ CoversBut(f, op'.resp.token, Responded', server', missed')
  <2>1. \A u \in Uuid : server'[u] = server[u]
                        \/ (server'[u] # None => ~(server'[u].version <= token))
    BY <1>4, <1>5, <1>6
  <2>2. CoversBut(f, token, {}, server', missed')
    BY <1>2, <1>13, <2>1, CoverKept
  <2>3. ASSUME NEW u \in Uuid \ Responded', Told(u, op'.resp.token, server', missed')
        PROVE  Has(f[u], server'[u])
    <3>1. u \notin op'.resp.saved /\ u \notin S /\ u \notin op'.resp.retrieved
      BY <1>3, <2>3 DEF Responded
    <3>2. server'[u] = server[u] /\ ~(server[u].version > op.token) /\ server[u] # None
      BY <1>5, <2>3, <3>1 DEF Told
    <3>3. server[u].version \in Nat
      BY <1>4, <2>3, <3>2 DEF ServerItems
    <3>4. server[u].version <= token
      BY <1>4, <1>6, <3>2, <3>3
    <3> QED
      BY <1>2, <1>13, <2>3, <3>2, <3>4 DEF CoversBut, Told
  <2> QED
    BY <2>2, <2>3 DEF CoversBut
<1>14. InMemory' /\ OnDisk'
  BY <1>2, <1>3, <1>6, <1>13, NoneLand DEF InMemory, OnDisk, Quiet, Unprocessed
<1> QED
  BY <1>8, <1>9, <1>11, <1>12, <1>14 DEF CoverInv

LEMMA FailedCovers ==
  ASSUME NEW n \in Nat, Types(n), EditInv, CoverInv, RequestLost \/ ResponseLost
  PROVE  CoverInv'
<1>1. /\ op \in Operations(n) /\ token \in Nat /\ clock \in Nat
  BY CoverTypes
<1>2. PICK S \in SUBSET op.pending : PageFailed(S)
  BY DEF RequestLost, ResponseLost
<1>3. /\ op.pc \in {"ready", "sent"}
      /\ UNCHANGED <<master, disk, token, diskToken, server, clock, missed>>
  BY DEF RequestLost, ResponseLost, client, items, store, account, past
<1>4. /\ op.collections = <<>> /\ diskToken <= token /\ token <= clock
      /\ CoversBut(master, token, {}, server, missed) /\ CoversBut(disk, token, {}, server, missed)
  BY <1>3 DEF EditInv, Request, CoverInv, Tokens, InMemory, OnDisk, Quiet
<1>5. CASE S = {}
  <2>1. op' = NoSync
    BY <1>2, <1>5 DEF PageFailed
  <2>2. /\ op'.resp = NoResponse /\ op'.collections = <<>> /\ op'.pc = "idle" /\ op'.token = 0
    BY <2>1 DEF NoSync
  <2> QED
    BY <1>1, <1>3, <1>4, <2>1, <2>2, CapturedStays, NoneAwaited
<1>6. CASE S # {}
  <2>1. op' = [op EXCEPT !.pc = "ready", !.pending = S, !.token = 0, !.resp = NoResponse]
    BY <1>2, <1>6 DEF PageFailed
  <2>2. /\ op'.resp = NoResponse /\ op'.collections = <<>> /\ op'.pc = "ready" /\ op'.token = 0
        /\ op'.items = op.items /\ op'.unsynced = op.unsynced
    BY <1>1, <1>4, <2>1 DEF Operations
  <2> QED
    BY <1>1, <1>3, <1>4, <2>2, CapturedStays, NoneAwaited DEF Responding
<1> QED
  BY <1>5, <1>6

LEMMA AnswerCovers ==
  ASSUME NEW n \in Nat, Types(n), EditInv, CoverInv, Receive \/ TokenStored \/ ProcessingThrows
  PROVE  CoverInv'
<1>1. /\ op \in Operations(n) /\ op.resp.token \in Nat /\ token \in Nat /\ diskToken \in Nat
      /\ clock \in Nat /\ op.token \in Nat /\ server \in [Uuid -> ServerItems(n) \cup {None}]
  BY CoverTypes
<1>2. CASE Receive
  <2>1. /\ op' = [op EXCEPT !.pc = "received", !.token = op.resp.token] /\ op.pc = "sent"
        /\ token' = op.resp.token /\ UNCHANGED <<master, disk, diskToken, server, clock, missed>>
    BY <1>2 DEF Receive, items, account, past
  <2>2. /\ op'.pc = "received" /\ op'.token = op.resp.token /\ op'.resp = op.resp
        /\ op'.items = op.items /\ op'.unsynced = op.unsynced
        /\ op'.collections = op.collections /\ op'.unsaved = op.unsaved
    BY <1>1, <2>1 DEF Operations
  <2>3. /\ op.collections = <<>> /\ diskToken <= token /\ token <= op.resp.token
        /\ op.resp.token <= clock
        /\ CoversBut(disk, token, {}, server, missed)
        /\ CoversBut(master, op.resp.token, Responded, server, missed)
        /\ CoversBut(disk, op.resp.token, Responded, server, missed)
    BY <2>1 DEF EditInv, Request, CoverInv, Tokens, InMemory, OnDisk, Quiet, Unprocessed
  <2>4. CoversBut(disk, diskToken, {}, server, missed)
    BY <1>1, <2>3, EarlierCovers
  <2>5. Tokens'
    BY <1>1, <2>1, <2>2, <2>3 DEF Tokens
  <2>6. Response' /\ Saving' /\ Capturing'
    BY <2>1, <2>2 DEF CoverInv, Response, Responded, Saving, Responding, Capturing, Captured,
                      Present
  <2>7. InMemory'
    BY <2>1, <2>2, <2>3, NoneLand DEF InMemory, Quiet, Unprocessed, Responded
  <2>8. OnDisk'
    BY <2>1, <2>2, <2>3, <2>4 DEF OnDisk, Quiet, Unprocessed, Responded
  <2> QED
    BY <2>5, <2>6, <2>7, <2>8 DEF CoverInv
<1>3. CASE TokenStored
  <2>1. /\ diskToken' = token /\ UNCHANGED <<op, master, disk, token, server, clock, missed>>
    BY <1>3 DEF TokenStored, items, account, past
  <2>2. Tokens'
    BY <1>1, <2>1 DEF CoverInv, Tokens
  <2>3. ~Quiet => token = op.resp.token
    BY <1>1 DEF CoverInv, Tokens, Quiet, Operations
  <2>4. Response' /\ Saving' /\ Capturing' /\ InMemory'
    BY <2>1 DEF CoverInv, Response, Responded, Saving, Responding, Capturing, Captured, Present,
                InMemory, Quiet, Unprocessed
  <2>5. OnDisk'
    BY <2>1, <2>3 DEF CoverInv, OnDisk, Quiet, Unprocessed, Responded, Present
  <2> QED
    BY <2>2, <2>4, <2>5 DEF CoverInv
<1>4. CASE ProcessingThrows
  <2>1. /\ op' = [op EXCEPT !.pc = "stuck"] /\ op.pc = "received"
        /\ UNCHANGED <<master, disk, token, diskToken, server, clock, missed>>
    BY <1>4 DEF ProcessingThrows, client, items, store, account, past
  <2>2. /\ op'.pc = "stuck" /\ op'.token = op.token /\ op'.resp = op.resp
        /\ op'.items = op.items /\ op'.unsynced = op.unsynced
        /\ op'.collections = op.collections /\ op'.unsaved = op.unsaved
    BY <1>1, <2>1 DEF Operations
  <2>3. Tokens' /\ Response' /\ Saving' /\ Capturing'
    BY <2>1, <2>2 DEF CoverInv, Tokens, Response, Responded, Saving, Responding, Capturing,
                      Captured, Present
  <2>4. InMemory' /\ OnDisk'
    BY <2>1, <2>2 DEF CoverInv, InMemory, OnDisk, Quiet, Unprocessed, Responded
  <2> QED
    BY <2>3, <2>4 DEF CoverInv
<1> QED
  BY <1>2, <1>3, <1>4

(****************************************************************************)
(* Mapping a collection.                                                    *)
(****************************************************************************)
LEMMA WindowShrinks ==
  ASSUME NEW T, NEW cs \in Seq(T), cs # <<>>, \A i \in DOMAIN cs : DOMAIN cs[i] \subseteq Uuid
  PROVE  /\ WindowOf(Tail(cs)) \cup DOMAIN Head(cs) = WindowOf(cs)
         /\ DOMAIN Head(cs) \subseteq Uuid
<1>1. /\ Head(cs) = cs[1] /\ 1 \in DOMAIN cs
      /\ \A i \in DOMAIN Tail(cs) : i + 1 \in DOMAIN cs /\ Tail(cs)[i] = cs[i + 1]
      /\ \A i \in DOMAIN cs : i # 1 => i - 1 \in DOMAIN Tail(cs) /\ Tail(cs)[i - 1] = cs[i]
  OBVIOUS
<1>2. WindowOf(Tail(cs)) \cup DOMAIN Head(cs) \subseteq WindowOf(cs)
  BY <1>1 DEF WindowOf
<1>3. ASSUME NEW u \in WindowOf(cs) PROVE u \in WindowOf(Tail(cs)) \cup DOMAIN Head(cs)
  <2>1. PICK i \in DOMAIN cs : u \in DOMAIN cs[i]
    BY <1>3 DEF WindowOf
  <2>2. CASE i = 1
    BY <1>1, <2>1, <2>2
  <2>3. CASE i # 1
    <3>1. i - 1 \in DOMAIN Tail(cs) /\ u \in DOMAIN Tail(cs)[i - 1]
      BY <1>1, <2>1, <2>3
    <3> QED
      BY <1>3, <3>1 DEF WindowOf
  <2> QED
    BY <2>2, <2>3
<1> QED
  BY <1>1, <1>2, <1>3

LEMMA TailLands ==
  ASSUME NEW n \in Nat, NEW cs \in Seq(Partial(Elements(n))), cs # <<>>, Separate(cs),
         AllLand(cs, master, token, server, missed)
  PROVE  AllLand(Tail(cs), Mapped(Merged(Head(cs))), token, server, missed)
<1> DEFINE m == Mapped(Merged(Head(cs)))
<1>1. /\ Head(cs) = cs[1] /\ 1 \in DOMAIN cs
      /\ \A i \in DOMAIN Tail(cs) : /\ i + 1 \in DOMAIN cs /\ i + 1 # 1
                                    /\ Tail(cs)[i] = cs[i + 1]
                                    /\ cs[i + 1] \in Partial(Elements(n))
  OBVIOUS
<1>2. DOMAIN Merged(Head(cs)) = DOMAIN cs[1]
  BY <1>1 DEF Merged
<1>3. ASSUME NEW i \in DOMAIN Tail(cs), NEW u \in DOMAIN Tail(cs)[i]
      PROVE  Lands(u, Tail(cs)[i][u], m[u], token, server, missed)
  <2> DEFINE e == cs[i + 1][u]
  <2>1. /\ i + 1 \in DOMAIN cs /\ i + 1 # 1 /\ Tail(cs)[i][u] = e /\ u \in DOMAIN cs[i + 1]
        /\ e \in Elements(n) /\ u \in Uuid
    BY <1>1, <1>3, PartialIs
  <2>2. Lands(u, e, master[u], token, server, missed)
    BY <2>1 DEF AllLand
  <2> HIDE DEF m, e
  <2>3. CASE u \in DOMAIN cs[1]
    <3>1. ~e.saved
      BY <1>1, <2>1, <2>3 DEF Separate, e
    <3>2. MergedWith(m[u], e) = MergedWith(master[u], e)
      BY <3>1 DEF MergedWith
    <3> QED
      BY <2>1, <2>2, <3>2 DEF Lands
  <2>4. CASE u \notin DOMAIN cs[1]
    <3>1. m[u] = master[u]
      BY <1>2, <2>1, <2>4, MappedAt DEF m
    <3> QED
      BY <2>1, <2>2, <3>1
  <2> QED
    BY <2>3, <2>4
<1> QED
  BY <1>3 DEF AllLand

\* The answer is mapped as far as the collections left say.
LEMMA EmitCovers ==
  ASSUME NEW n \in Nat, Types(n), CoverInv, NEW cs \in Seq(Partial(Elements(n))), EmitNext(cs),
         Separate(cs), token = op.resp.token, op.pc # "clearing",
         AllLand(cs, master, token, server, missed),
         CoversBut(master, token, WindowOf(cs), server, missed),
         CoversBut(disk', token, WindowOf(cs), server, missed),
         diskToken # token => CoversBut(disk', diskToken, {}, server, missed),
         WindowOf(cs) \cap Present(server) \subseteq Responded,
         UNCHANGED <<token, diskToken, server, clock, missed>>
  PROVE  CoverInv'
<1>1. op \in Operations(n) /\ Captured \subseteq Uuid
  BY CoverTypes
<1>2. /\ \A u \in Captured : op.items[u].dirty
      /\ op.unsynced \cap Captured = {}
      /\ \A u \in op.unsynced \ missed : server[u] = None
      /\ \A u \in Captured \ missed : master[u] = None => DeletedThere(u, server)
  BY DEF CoverInv, Capturing
<1>3. CASE cs = <<>>
  <2>1. /\ op' = [op EXCEPT !.pc = "stored", !.collections = <<>>, !.unsaved = <<>>]
        /\ UNCHANGED master
    BY <1>3 DEF EmitNext, items
  <2>2. /\ op'.items = op.items /\ op'.resp = op.resp /\ op'.token = op.token
        /\ op'.unsynced = op.unsynced /\ op'.collections = <<>> /\ op'.pc = "stored"
    BY <1>1, <2>1 DEF Operations
  <2>3. Tokens' /\ Response' /\ Saving'
    BY <2>2 DEF CoverInv, Tokens, Response, Responded, Saving, Responding
  <2>4. Capturing'
    BY <1>2, <2>1, <2>2 DEF Capturing, Captured, Present, Responding
  <2>5. InMemory' /\ OnDisk'
    BY <1>3, <2>1, <2>2, NoneLand DEF InMemory, OnDisk, Quiet, Unprocessed
  <2> QED
    BY <2>3, <2>4, <2>5 DEF CoverInv
<1>4. CASE cs # <<>>
  <2> DEFINE h == Head(cs)
             f == Merged(h)
  <2>1. /\ op' = [op EXCEPT !.pc = "storing", !.collections = Tail(cs), !.unsaved = f]
        /\ master' = Mapped(f)
    BY <1>4 DEF EmitNext
  <2>2. /\ h \in Partial(Elements(n)) /\ h = cs[1] /\ 1 \in DOMAIN cs /\ DOMAIN f = DOMAIN h
    BY <1>4 DEF Merged
  <2>3. \A u \in DOMAIN f : f[u] = MergedWith(master[u], h[u])
                            /\ Lands(u, h[u], master[u], token, server, missed)
    BY <2>2 DEF AllLand, Merged
  <2>4. \A i \in DOMAIN cs : DOMAIN cs[i] \subseteq Uuid
    BY PartialIs
  <2>5. WindowOf(Tail(cs)) \cup DOMAIN f = WindowOf(cs) /\ DOMAIN f \subseteq Uuid
    BY <1>4, <2>2, <2>4, WindowShrinks
  <2>6. AllLand(Tail(cs), Mapped(f), token, server, missed)
    BY <1>4, TailLands
  <2> HIDE DEF f, h
  <2>7. /\ op'.items = op.items /\ op'.resp = op.resp /\ op'.token = op.token
        /\ op'.unsynced = op.unsynced /\ op'.collections = Tail(cs) /\ op'.pc = "storing"
        /\ op'.unsaved = f
    BY <1>1, <2>1 DEF Operations
  <2>8. \A u \in DOMAIN f : Told(u, token, server, missed) => Has(Landed(f[u]), server[u])
    BY <2>3 DEF Lands, Told
  <2>9. CoversBut(Mapped(f), token, WindowOf(Tail(cs)), server, missed)
    BY <2>5, <2>8, MapCovers
  <2>10. Tokens' /\ Response' /\ Saving'
    BY <2>7 DEF CoverInv, Tokens, Response, Responded, Saving, Responding
  <2>11. Capturing'
    <3>1. ASSUME NEW u \in Captured \ missed, Mapped(f)[u] = None PROVE DeletedThere(u, server)
      <4>1. CASE u \in DOMAIN f
        <5>1. Landed(MergedWith(master[u], h[u])) = None
          BY <1>1, <2>3, <3>1, <4>1, MappedAt DEF Landed
        <5> QED
          BY <2>3, <3>1, <4>1, <5>1 DEF Lands
      <4>2. CASE u \notin DOMAIN f
        BY <1>1, <1>2, <3>1, <4>2, MappedAt
      <4> QED
        BY <4>1, <4>2
    <3> QED
      BY <1>2, <2>1, <2>7, <3>1 DEF Capturing, Captured, Present, Responding
  <2>12. InMemory'
    BY <2>1, <2>6, <2>7, <2>9 DEF InMemory, Quiet, Unprocessed
  <2>13. OnDisk'
    BY <2>5, <2>7, <2>8 DEF OnDisk, Quiet, Unprocessed, Responded, Present
  <2> QED
    BY <2>10, <2>11, <2>12, <2>13 DEF CoverInv
<1> QED
  BY <1>3, <1>4

LEMMA CollectionStoredCovers ==
  ASSUME NEW n \in Nat, Types(n), EditInv, CoverInv, CollectionStored
  PROVE  CoverInv'
<1>1. /\ op.collections \in Seq(Partial(Elements(n))) /\ op.unsaved \in Partial(Payloads(n))
      /\ token \in Nat /\ diskToken \in Nat /\ server \in [Uuid -> ServerItems(n) \cup {None}]
      /\ DOMAIN op.unsaved \subseteq Uuid
  BY CoverTypes, PartialIs
<1>2. /\ EmitNext(op.collections) /\ disk' = Save(op.unsaved) /\ op.pc = "storing"
      /\ UNCHANGED <<token, diskToken, server, clock, missed>>
  BY DEF CollectionStored, account, past
<1>3. /\ token = op.resp.token /\ diskToken <= token
      /\ Separate(op.collections) /\ AllLand(op.collections, master, token, server, missed)
      /\ CoversBut(master, token, WindowOf(op.collections), server, missed)
      /\ CoversBut(disk, token, WindowOf(op.collections) \cup DOMAIN op.unsaved, server, missed)
      /\ \A u \in DOMAIN op.unsaved :
           Told(u, token, server, missed) => Has(Landed(op.unsaved[u]), server[u])
      /\ WindowOf(op.collections) \cap Present(server) \subseteq Responded
      /\ diskToken # token => CoversBut(disk, diskToken, {}, server, missed)
  BY <1>2 DEF EditInv, Remaining, CoverInv, Tokens, InMemory, OnDisk, Quiet
<1>4. CoversBut(disk', token, WindowOf(op.collections), server, missed)
  BY <1>1, <1>2, <1>3, SaveCovers
<1>5. ASSUME diskToken # token PROVE CoversBut(disk', diskToken, {}, server, missed)
  <2>1. CoversBut(disk, diskToken, {} \cup DOMAIN op.unsaved, server, missed)
    BY <1>3, <1>5 DEF CoversBut
  <2>2. \A u \in DOMAIN op.unsaved :
          Told(u, diskToken, server, missed) => Has(Landed(op.unsaved[u]), server[u])
    <3>1. \A u \in DOMAIN op.unsaved :
            Told(u, diskToken, server, missed) => Told(u, token, server, missed)
      BY <1>1, <1>3, TokensGrow
    <3> QED
      BY <1>3, <3>1
  <2> QED
    BY <1>1, <1>2, <2>1, <2>2, SaveCovers
<1> QED
  BY <1>1, <1>2, <1>3, <1>4, <1>5, EmitCovers

(****************************************************************************)
(* What the deltas make of an answer.                                       *)
(****************************************************************************)
LEMMA TakenOverLands ==
  ASSUME NEW n \in Nat, Types(n), CoverInv, NEW u \in Responded, NEW m
  PROVE  Lands(u, Unsaved(Final(u, TakenOver(u))), m, op.resp.token, server, missed)
<1> DEFINE t == TakenOver(u)
           p == Final(u, t)
           e == Unsaved(p)
<1>1. u \in Uuid /\ u \in Present(op.resp.data)
      /\ op \in Operations(n) /\ master \in [Uuid -> Payloads(n) \cup {None}]
  BY CoverTypes
<1>2. Incoming(u) \in ServerItems(n) /\ t \in Payloads(n)
  BY <1>1, DeltaTypes
<1>3. t.content = Incoming(u).content /\ t.deleted = Incoming(u).deleted
  BY DEF TakenOver
<1> HIDE DEF t
<1>4. p \in Payloads(n) /\ p.content = t.content /\ p.deleted = t.deleted /\ p # None
  <2>1. p \in Payloads(n) /\ p.content = t.content /\ p.deleted = t.deleted
    BY <1>1, <1>2, FinalIs
  <2> HIDE DEF p
  <2> QED
    BY <2>1, PayloadsArePayloads
<1> HIDE DEF p
<1>5. MergedWith(m, e) = p
  BY DEF MergedWith, Unsaved
<1>6. /\ op.resp.data[u] # None /\ server[u] # None
      /\ server[u] = op.resp.data[u] \/ ~(server[u].version <= op.resp.token)
      /\ op.resp.data[u].deleted => DeletedThere(u, server)
  BY <1>1 DEF CoverInv, Response
<1>7. Landed(p) = None => DeletedThere(u, server)
  BY <1>3, <1>4, <1>6 DEF Landed, discardable, Incoming
<1>8. ASSUME Told(u, op.resp.token, server, missed) PROVE Has(Landed(p), server[u])
  <2>1. server[u] = Incoming(u)
    BY <1>6, <1>8 DEF Told, Incoming
  <2> QED
    BY <1>3, <1>4, <2>1 DEF Has, Landed, discardable
<1> HIDE DEF e
<1>9. Lands(u, e, m, op.resp.token, server, missed)
  BY <1>5, <1>7, <1>8 DEF Lands
<1> QED
  BY <1>9 DEF e, p, t

\* What is to be uploaded is not behind.
LEMMA DirtyLands ==
  ASSUME NEW n \in Nat, NEW u, NEW p \in Payloads(n), p.dirty = TRUE, NEW m, NEW t, NEW s, NEW lost
  PROVE  Lands(u, Unsaved(p), m, t, s, lost)
<1>1. MergedWith(m, Unsaved(p)) = p /\ p # None
  BY PayloadsArePayloads DEF MergedWith, Unsaved
<1>2. Landed(p) = p
  BY DEF Landed, discardable
<1> QED
  BY <1>1, <1>2, DirtyHas DEF Lands

LEMMA KeptLeftLands ==
  ASSUME NEW n \in Nat, Types(n), NEW u \in Present(op.resp.data) \cap Present(master),
         NEW m, NEW t, NEW s, NEW lost
  PROVE  Lands(u, Unsaved(Final(u, KeptLeft(u))), m, t, s, lost)
<1> DEFINE k == KeptLeft(u)
<1>1. u \in Uuid /\ op \in Operations(n) /\ master \in [Uuid -> Payloads(n) \cup {None}]
  BY CoverTypes DEF Present
<1>2. master[u] \in Payloads(n) /\ k \in Payloads(n)
  BY <1>1, DeltaTypes
<1>3. k.dirty = TRUE /\ k.dirtied = "since"
  BY <1>2 DEF KeptLeft, Payloads
<1> HIDE DEF k
<1>4. finalDirtyState(u, k) = TRUE
  BY <1>3 DEF finalDirtyState
<1>5. Final(u, k) \in Payloads(n) /\ Final(u, k).dirty = TRUE
  BY <1>1, <1>2, <1>4, FinalIs
<1>6. Lands(u, Unsaved(Final(u, k)), m, t, s, lost)
  BY <1>5, DirtyLands
<1> QED
  BY <1>6 DEF k

\* What was saved is as the server has it, or was changed since and stays to be uploaded.
LEMMA SavedLands ==
  ASSUME NEW n \in Nat, Types(n), EditInv, CoverInv, op.pc = "received", NEW u \in op.resp.saved
  PROVE  Lands(u, SavedCollection[u], master[u], op.resp.token, server, missed)
<1> DEFINE t == SavedState(u)
           p == Final(u, t)
           e == SavedCollection[u]
           q == MergedWith(master[u], e)
           gone == IF master[u] # None THEN master[u].deleted ELSE Incoming(u).deleted
<1>1. u \in Uuid /\ u \in Present(op.resp.data) /\ u \in Responded
      /\ op \in Operations(n) /\ master \in [Uuid -> Payloads(n) \cup {None}]
  BY CoverTypes DEF Responded
<1>2. /\ Incoming(u) \in ServerItems(n) /\ t \in Payloads(n) /\ TakenOver(u) \in Payloads(n)
      /\ u \in Present(master) => master[u] \in Payloads(n)
  BY <1>1, DeltaTypes
<1>3. /\ t.deleted = gone /\ t.dirty = gone /\ t.dirtied = "unset"
  <2>1. TakenOver(u).dirtied = "unset"
    BY DEF TakenOver
  <2>2. t = [TakenOver(u) EXCEPT !.deleted = gone, !.dirty = gone]
    BY DEF SavedState
  <2> HIDE DEF t, gone
  <2> QED
    BY <1>2, <2>1, <2>2 DEF Payloads
<1> HIDE DEF t
<1>4. p \in Payloads(n) /\ p.deleted = t.deleted /\ p.dirty = finalDirtyState(u, t)
  BY <1>1, <1>2, FinalIs
<1>5. e.saved = TRUE /\ e.p = p /\ e \in Elements(n)
  BY <1>4 DEF SavedCollection, Elements, t
<1> HIDE DEF p, e
<1>6. SUFFICES ASSUME u \notin missed
               PROVE  /\ Landed(q) = None => DeletedThere(u, server)
                      /\ Told(u, op.resp.token, server, missed) => Has(Landed(q), server[u])
  BY DEF Lands, e
<1>7. /\ op.resp.data[u] = Incoming(u) /\ AsSaved(master[u], Incoming(u))
      /\ server[u] = Incoming(u) \/ ~(server[u].version <= op.resp.token)
      /\ Incoming(u).deleted => DeletedThere(u, server)
  <2>1. op.resp.data[u] = Incoming(u) /\ op.resp.data[u] # None
    BY <1>1 DEF Incoming, Present
  <2>2. AsSaved(master[u], Incoming(u))
    BY <1>6, <2>1 DEF CoverInv, Saving, Responding
  <2> QED
    BY <1>1, <2>1, <2>2 DEF CoverInv, Response
<1>8. CASE master[u] = None
  <2>1. q = p /\ p # None
    BY <1>4, <1>5, <1>8, PayloadsArePayloads DEF MergedWith
  <2>2. Incoming(u).deleted
    BY <1>7, <1>8 DEF AsSaved
  <2>3. p.dirty
    BY <1>3, <1>4, <1>8, <2>2 DEF finalDirtyState, Present
  <2> HIDE DEF q
  <2> QED
    BY <2>1, <2>3 DEF Landed, discardable, Has
<1>9. CASE master[u] # None
  <2>1. master[u] \in Payloads(n) /\ u \in Present(master)
    BY <1>1, <1>9 DEF Present
  <2>2. /\ q.content = master[u].content /\ q.deleted = p.deleted /\ q.dirty = p.dirty
        /\ q # None
    BY <1>5, <2>1, MergedWithIs, PayloadsArePayloads
  <2>3. Sound(master[u], uploaded) /\ master[u].began
    BY <1>9, <2>1 DEF EditInv, AllSound, SoundIn, Following, Responding, Settled
  <2>4. Known(Incoming(u), uploaded) /\ NoContent \notin uploaded
    BY <1>1 DEF EditInv, AllSound, KnownIn, Incoming
  <2>5. p.deleted = master[u].deleted
    BY <1>3, <1>4, <1>9
  <2> HIDE DEF q
  <2>6. ASSUME master[u].dirtied = "since" PROVE p.dirty
    <3>1. ~discardable(t)
      BY <1>3 DEF discardable
    <3>2. finalDirtyState(u, t)
      BY <1>3, <2>1, <2>3, <2>6, <3>1 DEF finalDirtyState
    <3> QED
      BY <1>4, <3>2
  <2>7. CASE p.dirty
    BY <2>2, <2>7 DEF Landed, discardable, Has
  <2>8. CASE ~p.dirty /\ Incoming(u).deleted
    <3>1. master[u].deleted
      BY <1>7, <1>9, <2>8 DEF AsSaved
    <3>2. DeletedThere(u, server)
      BY <1>7, <2>8
    <3>3. Landed(q) = None
      BY <2>2, <2>5, <2>8, <3>1 DEF Landed, discardable
    <3> QED
      BY <3>2, <3>3 DEF DeletedThere, Has
  <2>9. CASE ~p.dirty /\ ~Incoming(u).deleted
    <3>1. master[u].content = Incoming(u).content
      BY <1>7, <1>9, <2>6, <2>9 DEF AsSaved
    <3>2. ~master[u].deleted
      BY <2>3, <2>4, <2>9, <3>1 DEF Sound, Known
    <3>3. Landed(q) = q
      BY <2>2, <2>5, <3>2 DEF Landed, discardable
    <3>4. Told(u, op.resp.token, server, missed) => server[u] = Incoming(u)
      BY <1>7 DEF Told
    <3> QED
      BY <2>2, <2>9, <3>1, <3>3, <3>4 DEF Has
  <2> QED
    BY <2>7, <2>8, <2>9
<1> QED
  BY <1>8, <1>9

\* The elements of f leave nothing behind.
LandsWell(f) == \A u \in DOMAIN f : Lands(u, f[u], master[u], op.resp.token, server, missed)

LEMMA BothLand ==
  ASSUME NEW f, NEW g, LandsWell(f), LandsWell(g)
  PROVE  LandsWell(Both(f, g)) /\ DOMAIN Both(f, g) = DOMAIN f \cup DOMAIN g
BY DEF LandsWell, Both

LEMMA AppliedLands ==
  ASSUME NEW n \in Nat, Types(n), CoverInv, NEW S, S \subseteq Responded
  PROVE  LandsWell(Applied(S)) /\ DOMAIN Applied(S) = S
<1>1. ASSUME NEW u \in S
      PROVE  Lands(u, Applied(S)[u], master[u], op.resp.token, server, missed)
  <2>1. Applied(S)[u] = Unsaved(Final(u, TakenOver(u)))
    BY DEF Applied, Unsaved
  <2> QED
    BY <2>1, TakenOverLands
<1>2. DOMAIN Applied(S) = S
  BY DEF Applied
<1> QED
  BY <1>1, <1>2 DEF LandsWell

LEMMA ResolvedLands ==
  ASSUME NEW n \in Nat, Types(n), CoverInv,
         NEW S, S \subseteq Responded \cap Present(master), NEW recent
  PROVE  LandsWell(Resolved(S, recent)) /\ S \subseteq DOMAIN Resolved(S, recent)
<1> DEFINE f == Resolved(S, recent)
<1>1. /\ DOMAIN f = S \cup Copied(S) /\ S \subseteq Present(op.resp.data) \cap Present(master)
      /\ op \in Operations(n) /\ master \in [Uuid -> Payloads(n) \cup {None}]
  BY CoverTypes DEF Resolved
<1>2. ASSUME NEW v \in S
      PROVE  Lands(v, f[v], master[v], op.resp.token, server, missed)
  <2>1. \/ f[v] = Unsaved(Final(v, KeptLeft(v)))
        \/ f[v] = Unsaved(Final(v, TakenOver(v)))
    BY DEF Resolved, Unsaved
  <2>2. /\ Lands(v, Unsaved(Final(v, KeptLeft(v))), master[v], op.resp.token, server, missed)
        /\ Lands(v, Unsaved(Final(v, TakenOver(v))), master[v], op.resp.token, server, missed)
    BY <1>1, KeptLeftLands, TakenOverLands
  <2> QED
    BY <2>1, <2>2
<1>3. ASSUME NEW v \in Copied(S) \ S
      PROVE  Lands(v, f[v], master[v], op.resp.token, server, missed)
  <2> DEFINE u == CHOOSE w \in S \cap Duplicated : CopyUuid(w) = v
             c == CopyMade(Incoming(u).content, Incoming(u).version)
             d == CopyMade(master[u].content, master[u].version)
  <2>1. u \in S \cap Duplicated
    BY <1>3 DEF Copied
  <2>2. f[v] = [saved |-> FALSE, p |-> IF u \in recent THEN c ELSE d]
    BY <1>3 DEF Resolved
  <2>3. c \in Payloads(n) /\ d \in Payloads(n)
    BY <1>1, <2>1, DeltaTypes
  <2>4. c.dirty = TRUE /\ d.dirty = TRUE
    BY DEF CopyMade
  <2> HIDE DEF u, c, d
  <2>5. f[v] = Unsaved(c) \/ f[v] = Unsaved(d)
    BY <2>2 DEF Unsaved
  <2> QED
    BY <2>3, <2>4, <2>5, DirtyLands
<1> HIDE DEF f
<1>4. LandsWell(f)
  BY <1>1, <1>2, <1>3 DEF LandsWell
<1> QED
  BY <1>1, <1>4 DEF f

\* Nothing of an answer is passed over, but what the client has no more.
LEMMA CollectionsLand ==
  ASSUME NEW n \in Nat, Types(n), EditInv, CoverInv, op.pc = "received", NEW recent
  PROVE  /\ LandsWell(RetrievedCollection(recent)) /\ LandsWell(SavedCollection)
         /\ LandsWell(ConflictsCollection(recent))
         /\ op.resp.retrieved \ missed \subseteq DOMAIN RetrievedCollection(recent)
         /\ DOMAIN SavedCollection = op.resp.saved
         /\ op.resp.conflicts \subseteq DOMAIN ConflictsCollection(recent)
<1>1. /\ op.resp.retrieved \cup op.resp.conflicts \subseteq Responded /\ Responded \subseteq Uuid
      /\ Responded \subseteq Present(op.resp.data)
      /\ Contested \subseteq op.resp.retrieved
      /\ Contested \cap Conflicted \subseteq Responded \cap Present(master)
      /\ op.resp.conflicts \cap Conflicted \subseteq Responded \cap Present(master)
  BY CoverTypes DEF Responded, Contested, Conflicted
<1> DEFINE a == Applied(op.resp.retrieved \ Contested)
           b == Resolved(Contested \cap Conflicted, recent)
           c == Applied(op.resp.conflicts \ Conflicted)
           d == Resolved(op.resp.conflicts \cap Conflicted, recent)
<1>2. LandsWell(a) /\ DOMAIN a = op.resp.retrieved \ Contested
  BY <1>1, AppliedLands
<1>3. LandsWell(c) /\ DOMAIN c = op.resp.conflicts \ Conflicted
  BY <1>1, AppliedLands
<1>4. LandsWell(b) /\ Contested \cap Conflicted \subseteq DOMAIN b
  BY <1>1, ResolvedLands
<1>5. LandsWell(d) /\ op.resp.conflicts \cap Conflicted \subseteq DOMAIN d
  BY <1>1, ResolvedLands
<1>6. RetrievedCollection(recent) = Both(a, b) /\ ConflictsCollection(recent) = Both(c, d)
  BY DEF RetrievedCollection, ConflictsCollection
<1> HIDE DEF a, b, c, d
<1>7. /\ LandsWell(Both(a, b)) /\ DOMAIN Both(a, b) = DOMAIN a \cup DOMAIN b
      /\ LandsWell(Both(c, d)) /\ DOMAIN Both(c, d) = DOMAIN c \cup DOMAIN d
  BY <1>2, <1>3, <1>4, <1>5, BothLand
<1>8. ASSUME NEW u \in Contested \ missed PROVE u \in Conflicted
  <2>1. /\ u \in Uuid /\ u \in op.resp.retrieved /\ ~op.resp.data[u].deleted
        /\ op.resp.data[u] # None /\ (u \in SavedOrSaving \/ u \in DirtyItems)
    BY <1>1, <1>8 DEF Contested, Incoming, Present
  <2>2. u \in Captured \/ u \in Present(master)
    BY <2>1 DEF SavedOrSaving, DirtyItems
  <2>3. u \in Present(master)
    BY <1>8, <2>1, <2>2 DEF CoverInv, Capturing, Responding, Present
  <2> QED
    BY <1>8, <2>3 DEF Conflicted
<1>9. DOMAIN SavedCollection = op.resp.saved
  BY DEF SavedCollection
<1>10. LandsWell(SavedCollection)
  BY <1>9, SavedLands DEF LandsWell
<1> QED
  BY <1>2, <1>3, <1>4, <1>5, <1>6, <1>7, <1>8, <1>9, <1>10

\* Collections of which the saved one shares no item with the others are separate.
LEMMA CollectsSeparate ==
  ASSUME NEW cs, NEW f, NEW g, NEW h, Collects(cs, f, g, h), FitsWell(f), FitsWell(h),
         DOMAIN g \cap DOMAIN f = {}, DOMAIN g \cap DOMAIN h = {}
  PROVE  Separate(cs)
<1>1. /\ \A u \in DOMAIN f : ~f[u].saved
      /\ \A u \in DOMAIN h : ~h[u].saved
  BY DEF FitsWell
<1>2. ASSUME NEW i \in DOMAIN cs, NEW j \in DOMAIN cs, i # j,
             NEW u \in DOMAIN cs[i] \cap DOMAIN cs[j]
      PROVE  ~cs[i][u].saved
  <2>1. \/ cs[i] = f /\ cs[j] \in {g, h}
        \/ cs[i] = g /\ cs[j] \in {f, h}
        \/ cs[i] = h /\ cs[j] \in {f, g}
    BY <1>2 DEF Collects
  <2> QED
    BY <1>1, <1>2, <2>1
<1> QED
  BY <1>2 DEF Separate

LEMMA ProcessResponseCovers ==
  ASSUME NEW n \in Nat, Types(n), EditInv, CoverInv, ProcessResponse
  PROVE  CoverInv'
<1> DEFINE new == uuids + 1 .. uuids + Cardinality(Duplicated)
<1>1. /\ op.pc = "received" /\ uuids \in Nat
      /\ uuids + Cardinality(Duplicated) <= MaxUuid /\ OperationTypes(n)
      /\ master \in [Uuid -> Payloads(n) \cup {None}] /\ Responded \subseteq Uuid
      /\ UNCHANGED <<disk, token, diskToken, server, clock, missed>>
  BY CoverTypes DEF ProcessResponse, Types, OtherTypes, account, past
<1>2. new \cap 1 .. uuids = {}
  BY <1>1
<1>3. PICK recent \in SUBSET Duplicated : EmitNext(CollectionsByProcessingResponse(recent))
  BY DEF ProcessResponse
<1>4. PICK cs : cs = CollectionsByProcessingResponse(recent)
  OBVIOUS
<1>5. PICK f : f = RetrievedCollection(recent)
  OBVIOUS
<1>6. PICK g : g = SavedCollection
  OBVIOUS
<1>7. PICK h : h = ConflictsCollection(recent)
  OBVIOUS
<1>8. f \in Partial(Elements(n)) /\ g \in Partial(Elements(n)) /\ h \in Partial(Elements(n))
  BY <1>1, <1>5, <1>6, <1>7, CollectionTypes
<1>9. cs \in Seq(Partial(Elements(n))) /\ Collects(cs, f, g, h)
  BY <1>1, <1>4, <1>5, <1>6, <1>7, <1>8, CollectionsOfResponse
<1>10. /\ FitsWell(f) /\ DOMAIN f \subseteq op.resp.retrieved \cup new
       /\ FitsWell(h) /\ DOMAIN h \subseteq op.resp.conflicts \cup new
  BY <1>1, <1>5, <1>7, CollectionsFit
<1>11. /\ LandsWell(f) /\ LandsWell(g) /\ LandsWell(h)
       /\ op.resp.retrieved \ missed \subseteq DOMAIN f
       /\ DOMAIN g = op.resp.saved /\ op.resp.conflicts \subseteq DOMAIN h
  BY <1>1, <1>5, <1>6, <1>7, CollectionsLand
<1> HIDE DEF new
<1>12. \A i \in DOMAIN cs : cs[i] \in {f, g, h}
  BY <1>9 DEF Collects
<1>13. \A k \in {f, g, h} : DOMAIN k # {} => \E i \in DOMAIN cs : cs[i] = k
  BY <1>9 DEF Collects
<1>14. /\ token = op.resp.token
       /\ CoversBut(master, token, Responded, server, missed)
       /\ CoversBut(disk, token, Responded, server, missed)
       /\ diskToken # token => CoversBut(disk, diskToken, {}, server, missed)
  BY <1>1 DEF CoverInv, Tokens, InMemory, OnDisk, Quiet, Unprocessed
<1>15. AllLand(cs, master, token, server, missed)
  BY <1>11, <1>12, <1>14 DEF AllLand, LandsWell
<1>16. Responded \ missed \subseteq WindowOf(cs)
  <2>1. ASSUME NEW u \in Responded \ missed PROVE u \in WindowOf(cs)
    <3>1. PICK k \in {f, g, h} : u \in DOMAIN k
      BY <1>11, <2>1 DEF Responded
    <3>2. PICK i \in DOMAIN cs : cs[i] = k
      BY <1>13, <3>1
    <3> QED
      BY <1>1, <2>1, <3>1, <3>2 DEF WindowOf
  <2> QED
    BY <2>1
<1>17. WindowOf(cs) \cap Present(server) \subseteq Responded
  <2>1. ASSUME NEW u \in WindowOf(cs), u \in Present(server) PROVE u \in Responded
    <3>1. PICK i \in DOMAIN cs : u \in DOMAIN cs[i]
      BY <2>1 DEF WindowOf
    <3>2. u \in DOMAIN f \/ u \in DOMAIN g \/ u \in DOMAIN h
      BY <1>12, <3>1
    <3>3. u \notin new
      BY <1>2, <2>1 DEF EditInv, Names
    <3> QED
      BY <1>10, <1>11, <3>2, <3>3 DEF Responded
  <2> QED
    BY <2>1
<1>18. /\ CoversBut(master, token, WindowOf(cs), server, missed)
       /\ CoversBut(disk, token, WindowOf(cs), server, missed)
  BY <1>14, <1>16 DEF CoversBut, Told
<1>19. Separate(cs)
  <2>1. /\ DOMAIN g \cap DOMAIN f = {} /\ DOMAIN g \cap DOMAIN h = {}
    <3>1. op.resp.saved \subseteq 1 .. uuids
          /\ op.resp.saved \cap (op.resp.retrieved \cup op.resp.conflicts) = {}
      BY <1>1 DEF EditInv, Names, Request, OperationTypes, References
    <3> QED
      BY <1>2, <1>10, <1>11, <3>1
  <2> QED
    BY <1>9, <1>10, <2>1, CollectsSeparate
<1> QED
  BY <1>1, <1>3, <1>4, <1>9, <1>14, <1>15, <1>17, <1>18, <1>19, EmitCovers

(****************************************************************************)
(* The end of a page, of the request and of the session.                    *)
(****************************************************************************)
LEMMA EndCovers ==
  ASSUME NEW n \in Nat, Types(n), EditInv, CoverInv, EndPage \/ NeverSyncedCleared
  PROVE  CoverInv'
<1>1. /\ op \in Operations(n) /\ clock \in Nat /\ token \in Nat /\ Captured \subseteq Uuid
      /\ op.unsaved \in Partial(Payloads(n)) /\ Responded \subseteq Present(op.resp.data)
      /\ op.token \in Nat
  BY CoverTypes
<1>2. /\ diskToken <= token /\ op.token <= token /\ token <= clock /\ op.resp.token <= clock
  BY DEF CoverInv, Tokens
<1>3. \A u \in op.unsynced \ missed : server[u] = None
  BY DEF CoverInv, Capturing
<1>4. CASE EndPage
  <2>1. /\ op.pc = "stored" /\ op.collections = <<>>
        /\ UNCHANGED <<token, diskToken, server, clock, missed>>
        /\ disk' = [u \in Uuid |-> IF u \in DeletedPayloads THEN None ELSE disk[u]]
    BY <1>4 DEF EndPage, account, past, EditInv, Request
  <2>2. /\ CoversBut(master, token, {}, server, missed)
        /\ CoversBut(disk, token, {}, server, missed)
    BY <2>1 DEF CoverInv, InMemory, OnDisk, Quiet
  <2>3. CoversBut(disk', token, {}, server, missed)
    <3>1. ASSUME NEW u \in Uuid, Told(u, token, server, missed) PROVE Has(disk'[u], server[u])
      <4>1. CASE u \in DeletedPayloads
        <5>1. op.resp.data[u] # None /\ op.resp.data[u].deleted
          BY <1>1, <4>1 DEF DeletedPayloads, Incoming, Present
        <5>2. server[u].deleted
          BY <5>1 DEF CoverInv, Response, DeletedThere
        <5> QED
          BY <2>1, <4>1, <5>2 DEF Has
      <4>2. CASE u \notin DeletedPayloads
        BY <2>1, <2>2, <3>1, <4>2 DEF CoversBut
      <4> QED
        BY <4>1, <4>2
    <3> QED
      BY <3>1 DEF CoversBut
  <2>4. CASE op.pending # {}
    <3>1. op' = [op EXCEPT !.pc = "ready", !.resp = NoResponse] /\ UNCHANGED master
      BY <1>4, <2>4 DEF EndPage
    <3>2. /\ op'.items = op.items /\ op'.resp = NoResponse /\ op'.unsynced = op.unsynced
          /\ op'.collections = <<>> /\ op'.pc = "ready" /\ op'.token = op.token
      BY <1>1, <2>1, <3>1 DEF Operations
    <3> QED
      BY <1>1, <1>2, <2>1, <2>2, <2>3, <3>1, <3>2, CapturedStays, NoneAwaited DEF Responding
  <2>5. CASE op.pending = {} /\ op.unsynced # {}
    <3>1. op' = [op EXCEPT !.pc = "clearing", !.unsaved = Cleared] /\ master' = Mapped(Cleared)
      BY <1>4, <2>5 DEF EndPage
    <3>2. /\ op'.items = op.items /\ op'.resp = op.resp /\ op'.unsynced = op.unsynced
          /\ op'.collections = <<>> /\ op'.pc = "clearing" /\ op'.token = op.token
          /\ op'.unsaved = Cleared
      BY <1>1, <2>1, <3>1 DEF Operations
    <3>3. DOMAIN Cleared = op.unsynced
      BY DEF Cleared
    <3>4. CoversBut(Mapped(Cleared), token, {}, server, missed)
      <4>1. CoversBut(master, token, {} \cup DOMAIN Cleared, server, missed)
        BY <2>2 DEF CoversBut
      <4>2. \A u \in DOMAIN Cleared : ~Told(u, token, server, missed)
        BY <1>3, <3>3 DEF Told
      <4> QED
        BY <4>1, <4>2, MapCovers
    <3>5. Tokens' /\ Response' /\ Saving'
      BY <1>2, <2>1, <3>2 DEF CoverInv, Tokens, Response, Responded, Saving, Responding
    <3>6. Capturing'
      <4>1. \A u \in Captured : Mapped(Cleared)[u] = master[u]
        BY <1>1, <3>3, MappedAt DEF CoverInv, Capturing
      <4> QED
        BY <2>1, <3>1, <3>2, <3>3, <4>1 DEF CoverInv, Capturing, Captured, Present, Responding
    <3>7. InMemory' /\ OnDisk'
      BY <2>1, <2>3, <3>1, <3>2, <3>4, NoneLand DEF InMemory, OnDisk, Quiet, Unprocessed
    <3> QED
      BY <3>5, <3>6, <3>7 DEF CoverInv
  <2>6. CASE op.pending = {} /\ op.unsynced = {}
    <3>1. op' = NoSync /\ UNCHANGED master
      BY <1>4, <2>6 DEF EndPage
    <3>2. /\ op'.resp = NoResponse /\ op'.collections = <<>> /\ op'.pc = "idle" /\ op'.token = 0
      BY <3>1 DEF NoSync
    <3> QED
      BY <1>1, <1>2, <2>1, <2>2, <2>3, <3>1, <3>2, CapturedStays, NoneAwaited
  <2> QED
    BY <2>4, <2>5, <2>6
<1>5. CASE NeverSyncedCleared
  <2>1. /\ disk' = Save(op.unsaved) /\ op' = NoSync /\ op.pc = "clearing"
        /\ UNCHANGED <<master, token, diskToken, server, clock, missed>>
    BY <1>5 DEF NeverSyncedCleared, items, account, past
  <2>2. /\ op'.resp = NoResponse /\ op'.collections = <<>> /\ op'.pc = "idle" /\ op'.token = 0
    BY <2>1 DEF NoSync
  <2>3. /\ CoversBut(master, token, {}, server, missed)
        /\ CoversBut(disk, token, {} \cup DOMAIN op.unsaved, server, missed)
        /\ \A u \in DOMAIN op.unsaved : ~Told(u, token, server, missed)
    BY <1>3, <2>1 DEF CoverInv, InMemory, OnDisk, Quiet, Capturing, CoversBut, Told
  <2>4. CoversBut(disk', token, {}, server, missed)
    BY <1>1, <2>1, <2>3, SaveCovers
  <2> QED
    BY <1>1, <1>2, <2>1, <2>2, <2>3, <2>4, CapturedStays, NoneAwaited
<1> QED
  BY <1>4, <1>5

LEMMA RestartCovers ==
  ASSUME NEW n \in Nat, Types(n), EditInv, CoverInv, Restart
  PROVE  CoverInv'
<1>1. /\ op \in Operations(n) /\ clock \in Nat /\ token \in Nat /\ diskToken \in Nat
      /\ PendingWrite \in Partial(Payloads(n)) /\ DOMAIN PendingWrite \subseteq Uuid
      /\ server \in [Uuid -> ServerItems(n) \cup {None}]
      /\ disk \in [Uuid -> Payloads(n) \cup {None}]
  BY CoverTypes, PendingWriteType, PartialIs
<1>2. PICK landed \in BOOLEAN : /\ disk' = IF landed THEN Save(PendingWrite) ELSE disk
                                /\ missed' = missed \cup PassedOver(landed)
  BY DEF Restart
<1>3. /\ master' = disk' /\ token' = diskToken /\ op' = NoSync
      /\ UNCHANGED <<diskToken, server, clock>>
  BY DEF Restart, account
<1>4. diskToken <= token /\ token <= clock /\ (~Quiet => token = op.resp.token)
  BY <1>1 DEF CoverInv, Tokens, Quiet, Operations
<1>5. ASSUME NEW u \in DOMAIN PendingWrite, Told(u, token, server, missed)
      PROVE  Has(Landed(PendingWrite[u]), server[u])
  <2>1. CASE op.pc = "saving"
    <3>1. PendingWrite = [v \in Captured |-> op.items[v]]
      BY <2>1 DEF PendingWrite
    <3>2. op.items[u] # None /\ op.items[u].dirty
      BY <1>5, <3>1 DEF CoverInv, Capturing, Captured, Present
    <3> QED
      BY <1>5, <3>1, <3>2 DEF Landed, discardable, Has
  <2>2. CASE op.pc = "clearing"
    <3>1. PendingWrite = op.unsaved
      BY <2>2 DEF PendingWrite
    <3> QED
      BY <1>5, <2>2, <3>1 DEF CoverInv, Capturing, Told
  <2>3. CASE op.pc = "storing"
    <3>1. PendingWrite = op.unsaved
      BY <2>3 DEF PendingWrite
    <3> QED
      BY <1>5, <2>3, <3>1 DEF CoverInv, OnDisk
  <2>4. CASE op.pc \notin {"saving", "storing", "clearing"}
    <3>1. PendingWrite = <<>> /\ DOMAIN <<>> = {}
      BY <2>4 DEF PendingWrite
    <3> QED
      BY <1>5, <3>1
  <2> QED
    BY <2>1, <2>2, <2>3, <2>4
<1>6. ASSUME CoversBut(disk, diskToken, {}, server, missed)
      PROVE  CoversBut(disk', diskToken, {}, server, missed)
  <2>1. CoversBut(disk, diskToken, {} \cup DOMAIN PendingWrite, server, missed)
    BY <1>6 DEF CoversBut
  <2>2. \A u \in DOMAIN PendingWrite :
          Told(u, diskToken, server, missed) => Has(Landed(PendingWrite[u]), server[u])
    BY <1>1, <1>4, <1>5, TokensGrow
  <2>3. CoversBut(Save(PendingWrite), diskToken, {}, server, missed)
    BY <1>1, <2>1, <2>2, SaveCovers
  <2> QED
    BY <1>2, <1>6, <2>3
<1>7. ASSUME ~Quiet, diskToken = token, NEW u \in Uuid, Told(u, diskToken, server, missed'),
             disk'[u] = None \/ ~disk'[u].dirty
      PROVE  Has(disk'[u], server[u])
  <2>1. Told(u, token, server, missed) /\ u \notin PassedOver(landed) /\ u \in Present(server)
    BY <1>2, <1>7 DEF Told, Present
  <2>2. diskToken = op.resp.token
    BY <1>4, <1>7
  <2>3. CASE Unprocessed
    <3>1. u \notin Responded
      BY <1>7, <2>1, <2>2, <2>3 DEF PassedOver, Unprocessed, Quiet
    <3>2. CoversBut(disk, token, Responded, server, missed)
      BY <2>2, <2>3, <1>7 DEF CoverInv, OnDisk
    <3>3. PendingWrite = <<>> /\ DOMAIN <<>> = {}
      BY <2>3 DEF PendingWrite, Unprocessed
    <3>4. disk'[u] = disk[u]
      BY <1>2, <3>3 DEF Save
    <3> QED
      BY <2>1, <3>1, <3>2, <3>4 DEF CoversBut
  <2>4. CASE op.pc = "storing"
    <3>1. PendingWrite = op.unsaved
      BY <2>4 DEF PendingWrite
    <3>2. /\ CoversBut(disk, token, WindowOf(op.collections) \cup DOMAIN op.unsaved, server,
                       missed)
          /\ (WindowOf(op.collections) \cup DOMAIN op.unsaved) \cap Present(server)
               \subseteq Responded
      BY <2>4 DEF CoverInv, OnDisk
    <3>3. u \notin WindowOf(op.collections) /\ (u \in DOMAIN op.unsaved => landed)
      BY <1>7, <2>1, <2>2, <2>4, <3>2 DEF PassedOver, WindowOf, InWindow
    <3>4. CASE u \in DOMAIN op.unsaved
      <4>1. disk' = Save(PendingWrite)
        BY <1>2, <3>3, <3>4
      <4>2. CoversBut(Save(PendingWrite), token, Uuid \ {u}, server, missed)
        <5>1. CoversBut(disk, token, (Uuid \ {u}) \cup DOMAIN PendingWrite, server, missed)
          BY <3>1, <3>4 DEF CoversBut
        <5> QED
          BY <1>1, <1>5, <5>1, SaveCovers
      <4> QED
        BY <2>1, <4>1, <4>2 DEF CoversBut
    <3>5. CASE u \notin DOMAIN op.unsaved
      <4>1. disk'[u] = disk[u]
        BY <1>2, <3>1, <3>5 DEF Save
      <4> QED
        BY <2>1, <3>2, <3>3, <3>5, <4>1 DEF CoversBut
    <3> QED
      BY <3>4, <3>5
  <2> QED
    BY <1>1, <1>7, <2>3, <2>4 DEF Quiet, Unprocessed, Operations
<1>8. CoversBut(disk', diskToken, {}, server, missed')
  <2>1. CASE Quiet
    <3>1. CoversBut(disk, token, {}, server, missed)
      BY <2>1 DEF CoverInv, OnDisk
    <3>2. CoversBut(disk, diskToken, {}, server, missed)
      BY <1>1, <1>4, <3>1, EarlierCovers
    <3> QED
      BY <1>2, <1>6, <3>2 DEF CoversBut, Told
  <2>2. CASE ~Quiet /\ diskToken # token
    <3>1. CoversBut(disk, diskToken, {}, server, missed)
      BY <1>4, <2>2 DEF CoverInv, OnDisk
    <3> QED
      BY <1>2, <1>6, <3>1 DEF CoversBut, Told
  <2>3. CASE ~Quiet /\ diskToken = token
    <3>1. \A u \in Uuid : disk'[u] # None /\ disk'[u].dirty => Has(disk'[u], server[u])
      BY DEF Has
    <3> QED
      BY <1>7, <2>3, <3>1 DEF CoversBut
  <2> QED
    BY <2>1, <2>2, <2>3
<1>9. /\ op'.resp = NoResponse /\ op'.collections = <<>> /\ op'.pc = "idle" /\ op'.token = 0
  BY <1>3 DEF NoSync
<1>10. diskToken <= clock
  BY <1>1, <1>4
<1> QED
  BY <1>1, <1>3, <1>8, <1>9, <1>10, CapturedStays, NoneAwaited

-----------------------------------------------------------------------------
LEMMA CoverInvInit == Init => CoverInv
<1> SUFFICES ASSUME Init PROVE CoverInv
  OBVIOUS
<1>1. /\ op.pc = "idle" /\ op.items = [u \in Uuid |-> None] /\ op.unsynced = {}
      /\ op.collections = <<>> /\ op.token = 0 /\ op.resp.token = 0
      /\ op.resp.data = [u \in Uuid |-> None] /\ Responded = {}
  BY DEF Init, NoSync, NoResponse, Responded
<1>2. token = 1 /\ diskToken = 1 /\ clock = 1 /\ disk = master
  BY DEF Init
<1>3. \A u \in Uuid : server[u] # None => Has(master[u], server[u])
  <2>1. ASSUME NEW u \in Uuid, server[u] # None PROVE Has(master[u], server[u])
    <3>1. u \in Initial
      BY <2>1 DEF Init
    <3> DEFINE p == [content |-> u, version |-> 1, deleted |-> FALSE, dirty |-> FALSE,
                     dirtied |-> "unset", began |-> FALSE]
    <3>2. master[u] = p /\ server[u] = [content |-> u, version |-> 1, deleted |-> FALSE]
      BY <3>1 DEF Init
    <3>3. p \in Payload
      BY <2>1, UuidAssumption DEF Payload, Content, Uuid
    <3>4. p # None /\ p.content = u
      BY <3>3, NoneAssumption
    <3> HIDE DEF p
    <3> QED
      BY <3>2, <3>4 DEF Has
  <2> QED
    BY <2>1
<1>4. CoversBut(master, token, {}, server, missed)
  BY <1>3 DEF CoversBut, Told
<1>5. Tokens /\ Response /\ Capturing /\ Saving
  BY <1>1, <1>2 DEF Tokens, Response, Capturing, Captured, Present, Saving, Responding
<1>6. InMemory /\ OnDisk
  BY <1>1, <1>2, <1>4, NoneLand DEF InMemory, OnDisk, Quiet, Unprocessed
<1> QED
  BY <1>5, <1>6 DEF CoverInv

LEMMA CoverInvNext ==
  ASSUME EditWhileStoring = FALSE, TypeInv, EditInv, CoverInv, [Next]_vars
  PROVE  CoverInv'
<1>1. PICK n \in Nat : Types(n)
  BY DEF TypeInv
<1>2. CASE Progress
  BY <1>1, <1>2, BeginSyncCovers, PreSyncSavedCovers, SendCovers, AnswerCovers,
     ProcessResponseCovers, CollectionStoredCovers, EndCovers DEF Progress
<1>3. CASE Surroundings
  <2>1. CASE \E u \in Uuid : Edit(u) \/ Delete(u) \/ RemoteEdit(u) \/ RemoteDelete(u)
    BY <1>1, <2>1, UserCovers, RemoteCovers
  <2>2. CASE Create
    <3>1. \E u \in Uuid : TRUE
      BY <1>1, <2>2, UuidAssumption DEF Create, Types, OtherTypes, Uuid
    <3> QED
      BY <1>1, <2>2, <3>1, UserCovers
  <2>3. CASE RequestLost \/ ResponseLost \/ TokenStored
    BY <1>1, <2>3, FailedCovers, AnswerCovers
  <2>4. CASE Restart
    BY <1>1, <2>4, RestartCovers
  <2> QED
    BY <1>3, <2>1, <2>2, <2>3, <2>4 DEF Surroundings
<1>4. CASE UNCHANGED vars
  <2> USE DEF vars, client, items, store, account, past
  <2>1. Tokens' /\ Response' /\ Capturing' /\ Saving'
    BY <1>4 DEF CoverInv, Tokens, Response, Responded, Capturing, Captured, Present, Saving,
                Responding
  <2>2. InMemory' /\ OnDisk'
    BY <1>4 DEF CoverInv, InMemory, OnDisk, Quiet, Unprocessed, Responded, Present
  <2> QED
    BY <2>1, <2>2 DEF CoverInv
<1> QED
  BY <1>2, <1>3, <1>4 DEF Next

(****************************************************************************)
(* The sync token never runs ahead of the collection: the client has every  *)
(* state of an item that the server will not tell it of again, or something *)
(* of its own to upload.  That it stays so is the work of the whole data    *)
(* path: of the token that only the answer moves, of the deltas that take   *)
(* in all of an answer, of deletePayloads, and, over a restart, of storage  *)
(* that may be behind with the token or with the items.  missed has the     *)
(* items with which the code fails (README).                                *)
(****************************************************************************)
THEOREM TokenIsNotAhead ==
  ASSUME EditWhileStoring = FALSE
  PROVE  Spec => []TokenCoversItems
<1>1. Init => TypeInv /\ EditInv /\ CoverInv
  BY TypeInvInit, EditInvInit, CoverInvInit
<1>2. TypeInv /\ EditInv /\ CoverInv /\ [Next]_vars => (TypeInv /\ EditInv /\ CoverInv)'
  BY TypeInvNext, EditInvNext, CoverInvNext
<1>3. TypeInv /\ CoverInv => TokenCoversItems
  <2> SUFFICES ASSUME TypeInv, CoverInv, op.pc = "idle", NEW u \in Present(server) \ missed,
                      server[u].version <= token
               PROVE  Same(u) \/ u \in DirtyItems
    BY DEF TokenCoversItems
  <2>1. PICK n \in Nat : Types(n)
    BY DEF TypeInv
  <2>2. u \in Uuid /\ server[u] # None
    BY DEF Present
  <2>3. CoversBut(master, token, {}, server, missed)
    BY DEF CoverInv, InMemory, Quiet
  <2>4. Has(master[u], server[u])
    BY <2>2, <2>3 DEF CoversBut, Told
  <2> QED
    BY <2>2, <2>4 DEF Has, Same, DirtyItems, Present
<1> QED
  BY <1>1, <1>2, <1>3, PTL DEF Spec
===============================================================================
