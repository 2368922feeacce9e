--------------------------------- MODULE Items ---------------------------------
(*******************************************************************************)
(* Items in memory: the payload manager's queue of emissions, the item         *)
(* manager's collection with its index of references and its sorted display,   *)
(* the view of the notes, the streams of consumers, and the operations of the  *)
(* item manager.                                                               *)
(*                                                                             *)
(* JavaScript runs one function at a time, until it awaits: an emission goes   *)
(* to every observer before anything else happens.  But an observer may itself *)
(* change an item, which emits again.                                          *)
(*                                                                             *)
(* A payload is its place in the display (a value to sort by and a pin), what  *)
(* it references, and whether it is deleted and dirty.  The payload manager's  *)
(* collection and the item manager's always change together, and are one here. *)
(* Errors of decryption and the contents are left out.                         *)
(*******************************************************************************)
EXTENDS Naturals, Sequences, FiniteSets, FiniteSetsExt, TLC

CONSTANTS
  Note, Tag,   \* uuids
  Stored,      \* the notes that the database has at first
  Stream,      \* consumers of streamItems
  None,
  Deletable,   \* the items that the user deletes
  Restores,    \* whether the server restores what was discarded here, which nothing then
               \* knows to be referred to
  MaxChanges   \* bound: changes made by the user, consumers, the server

Item == Note \union Tag
Payload == [rank : 1..2, pinned : BOOLEAN, refs : SUBSET Note, deleted : BOOLEAN, dirty : BOOLEAN]

ASSUME ItemAssumption ==
  /\ Note \intersect Tag = {} /\ None \notin Item \union Payload
  /\ IsFiniteSet(Item)
  /\ Stored \subseteq Note /\ Deletable \subseteq Item
ASSUME BoundAssumption == MaxChanges \in Nat /\ Restores \in BOOLEAN

Blank == [rank |-> 1, pinned |-> FALSE, refs |-> {}, deleted |-> FALSE, dirty |-> FALSE]
Deleted == [Blank EXCEPT !.deleted = TRUE]
Discardable(p) == p.deleted /\ ~p.dirty

VARIABLES
  items,      \* map: each item's payload, or None
  references, \* referenceMap
  display,    \* sortedMap, filteredMap and the options, for the notes and for the tags
  notesView,  \* the tag of the criteria, displayedNotes, needsRebuilding
  queue,      \* emitQueue: the payloads, and the deletion that awaits them
  running,    \* the emissions being notified: what to, and which streams remain
  streams,    \* what each stream has been given, once it is subscribed
  deletions,  \* setItemToBeDeleted, by item: what remains to be unlinked
  history,    \* what was removed without an emission, discarded, or retrieved with a
              \* reference to a deleted item
  left        \* what remains of the bound

vars == <<items, references, display, notesView, queue, running, streams, deletions, history, left>>

R == INSTANCE UuidMap WITH Uuid <- Item

Undeleted == [pc |-> "none", left |-> {}]
NoDisplay(type) ==
  [of |-> type, sorted |-> <<>>, at |-> [u \in type |-> 0], sort |-> "asc", filter |-> FALSE]

Live(u) == items[u] # None /\ ~items[u].deleted
Spend == left > 0 /\ left' = left - 1

-------------------------------------------------------------------------------
(******************************************************************************)
(* ItemCollection.  Elements know their place in the sorted array, so that it *)
(* is sorted again only when a place may have changed.                        *)
(******************************************************************************)
Passes(d, p) == ~p.deleted /\ ~(d.filter /\ p.pinned)

Before(d, p, q) ==
  IF p.pinned # q.pinned THEN p.pinned
  ELSE IF d.sort = "asc" THEN p.rank < q.rank ELSE p.rank > q.rank

Resorted(d, elements) ==
  LET sorted == SortSeq(elements, LAMBDA x, y : Before(d, x.payload, y.payload))
  IN [d EXCEPT !.sorted = sorted,
               !.at = [n \in d.of |-> IF \E i \in DOMAIN sorted : sorted[i].uuid = n
                                      THEN CHOOSE i \in DOMAIN sorted : sorted[i].uuid = n
                                      ELSE 0]]

Moves(p, q) == p.rank # q.rank \/ p.pinned # q.pinned

\* filterSortElements, of the elements of a type, of which those in kept are in the map.
\* Variant with a bug first: a change of the pin does not sort again.
SortedBy(d, elements, kept, moves(_, _)) ==
  LET own == DOMAIN elements \intersect d.of
      passing == {n \in own \intersect kept : Passes(d, elements[n])}
      fresh == {n \in passing : d.at[n] = 0}
      gone == {n \in own \ passing : d.at[n] # 0}
      moved == {n \in passing \ fresh : moves(d.sorted[d.at[n]].payload, elements[n])}
      Element(n) == [uuid |-> n, payload |-> elements[n]]
      replaced == [i \in DOMAIN d.sorted |->
                     LET n == d.sorted[i].uuid
                     IN IF n \in gone THEN None ELSE IF n \in passing THEN Element(n) ELSE d.sorted[i]]
      pushed == FoldSet(LAMBDA n, s : Append(s, Element(n)), <<>>, fresh)
  IN IF fresh \union gone \union moved = {} THEN [d EXCEPT !.sorted = replaced]
     ELSE Resorted(d, SelectSeq(replaced, LAMBDA x : x # None) \o pushed)

FilterSortByRank(ds, elements, kept) ==
  [k \in DOMAIN ds |-> SortedBy(ds[k], elements, kept, LAMBDA p, q : p.rank # q.rank)]
FilterSortElements(ds, elements, kept) ==
  [k \in DOMAIN ds |-> SortedBy(ds[k], elements, kept, Moves)]

\* set, for what an emission changed or inserted, and then discard.
SetReferences(m, elements) ==
  FoldSet(LAMBDA u, r : IF elements[u].deleted THEN R!RemoveFromMap(r, u)
                        ELSE R!SetAllRelationships(r, u, elements[u].refs),
          m, DOMAIN elements)

Matching(d, all, tag) ==
  SelectSeq([i \in DOMAIN d.sorted |-> d.sorted[i].uuid],
            LAMBDA n : tag = None \/ n \in all[tag].refs)

-------------------------------------------------------------------------------
(***************************************************************************)
(* The payload manager, and the item manager as its observer.              *)
(***************************************************************************)
\* The payload of one item.
Only(u, p) == [x \in {u} |-> p]

Emit(payloads, owner) == queue' = Append(queue, [payloads |-> payloads, owner |-> owner])

\* An emission made while one is being notified waits for it.  Variant with a bug first: it goes
\* ahead.
MayPopAtOnce == Len(queue) > Len(running)
MayPop == running = <<>> /\ queue # <<>>

Subscribed == {s \in Stream : streams[s] # None}

\* setPayloads, of the emission that is at the head of the queue.
PopQueue ==
  LET elements == queue[Len(running) + 1].payloads
      kept == {u \in DOMAIN elements : ~Discardable(elements[u])}
  IN /\ MayPop
     /\ items' = [u \in Item |-> IF u \in kept THEN elements[u]
                                 ELSE IF u \in DOMAIN elements THEN None ELSE items[u]]
     /\ references' = SetReferences(references, elements)
     /\ display' = FilterSortElements(display, elements, kept)
     /\ notesView' = [notesView EXCEPT !.stale = TRUE]
     /\ running' = Append(running, [payloads |-> elements, streams |-> Subscribed])
     /\ history' = [history EXCEPT !.unannounced = @ \ DOMAIN elements,
                                   !.discarded = @ \union (DOMAIN elements \ kept)]
     /\ UNCHANGED <<queue, streams, deletions, left>>

\* Changes that a consumer makes: the mutator works on the item as it is now, and dirties it.
Changed(u) ==
  LET p == [items[u] EXCEPT !.dirty = TRUE]
      linked == IF u \in Tag THEN {n \in Note : Live(n)} ELSE {}
  IN {[p EXCEPT !.rank = 3 - @], [p EXCEPT !.pinned = ~@]}
     \union {[p EXCEPT !.refs = @ \union {n}] : n \in linked}
     \union {[p EXCEPT !.refs = @ \ {n}] : n \in items[u].refs}

Top == running[Len(running)]

\* A stream is given what was changed, inserted and discarded; it may change an item at once.
Given(view, elements) ==
  [u \in Item |-> IF u \notin DOMAIN elements THEN view[u]
                  ELSE IF Discardable(elements[u]) THEN None ELSE elements[u]]
Notify(s) ==
  /\ running # <<>> /\ ~MayPop
  /\ s \in Top.streams
  /\ streams' = [streams EXCEPT ![s] = Given(@, Top.payloads)]
  /\ running' = [running EXCEPT ![Len(running)].streams = @ \ {s}]
  /\ \/ UNCHANGED <<queue, left>>
     \/ /\ Spend
        /\ \E u \in Item : Live(u) /\ \E p \in Changed(u) : Emit(Only(u, p), None)
  /\ UNCHANGED <<items, references, display, notesView, deletions, history>>

\* All have been notified: the caller goes on, and the next emission is processed.
Resolve ==
  LET n == Len(running)
      owner == queue[n].owner
  IN /\ running # <<>> /\ ~MayPop
     /\ Top.streams = {}
     /\ queue' = SubSeq(queue, 1, n - 1) \o SubSeq(queue, n + 1, Len(queue))
     /\ running' = SubSeq(running, 1, n - 1)
     /\ deletions' = IF owner = None THEN deletions ELSE [deletions EXCEPT ![owner].pc = "linked"]
     /\ UNCHANGED <<items, references, display, notesView, streams, history, left>>

-------------------------------------------------------------------------------
(***************************************************************************)
(* The operations, which begin or go on when nothing else runs.            *)
(***************************************************************************)
Quiet == queue = <<>> /\ running = <<>>
Does(payloads, owner) ==
  /\ Quiet
  /\ Emit(payloads, owner)
  /\ UNCHANGED <<items, references, display, notesView, running, streams>>

ChangeItem(u) ==
  /\ Live(u) /\ Spend
  /\ \E p \in Changed(u) : Does(Only(u, p), None)
  /\ UNCHANGED <<deletions, history>>

CreateItem(n) ==
  /\ items[n] = None /\ n \notin history.discarded
  /\ Spend
  /\ Does(Only(n, [Blank EXCEPT !.dirty = TRUE]), None)
  /\ UNCHANGED <<deletions, history>>

\* PayloadsByDuplicating and PayloadsByAlternatingUuid: what refers to the item refers to the
\* copy too, or instead.  Generating a uuid does not take long.
CopyItem(n, copy, alternates) ==
  LET referring == {u \in references.inverse[n] : items[u] # None}
      removed == IF alternates THEN {n} ELSE {}
  IN /\ Live(n)
     /\ items[copy] = None /\ copy \notin history.discarded
     /\ Spend
     /\ Does([u \in referring \union {copy} \union removed |->
                IF u = copy THEN [items[n] EXCEPT !.dirty = TRUE]
                ELSE IF u = n THEN Deleted
                ELSE [items[u] EXCEPT !.refs = (@ \union {copy}) \ removed, !.dirty = TRUE]],
             None)
     /\ UNCHANGED <<deletions, history>>

\* setItemToBeDeleted.  The items that refer to this one are captured first.
SetItemToBeDeleted(u) ==
  /\ Live(u) /\ Spend
  /\ Does(Only(u, [Deleted EXCEPT !.dirty = TRUE]), u)
  /\ deletions' = [deletions EXCEPT ![u] = [pc |-> "await", left |-> references.inverse[u]]]
  /\ UNCHANGED history

\* Then they drop their reference, one by one.  Variant with a bug first: they are looked up
\* only now.
LookedUp(u) == references.inverse[u]
Captured(u) == deletions[u].left

DropReference(u, a) ==
  /\ deletions[u].pc = "linked"
  /\ a \in Captured(u)
  /\ \/ /\ items[a] = None
        /\ Quiet
        /\ deletions' = [deletions EXCEPT ![u].left = @ \ {a}]
        /\ UNCHANGED <<items, references, display, notesView, queue, running, streams>>
     \/ \* a deleted item has no content: the deletion ends with an error
        /\ items[a] # None /\ items[a].deleted
        /\ Quiet
        /\ deletions' = [deletions EXCEPT ![u] = [pc |-> "failed", left |-> {}]]
        /\ UNCHANGED <<items, references, display, notesView, queue, running, streams>>
     \/ /\ Live(a)
        /\ Does(Only(a, [items[a] EXCEPT !.refs = @ \ {u}, !.dirty = TRUE]), u)
        /\ deletions' = [deletions EXCEPT ![u] = [pc |-> "await", left |-> @.left \ {a}]]
  /\ UNCHANGED <<history, left>>

Linked(u) ==
  /\ Quiet
  /\ deletions[u].pc = "linked" /\ Captured(u) = {}
  /\ deletions' = [deletions EXCEPT ![u].pc = "done"]
  /\ UNCHANGED <<items, references, display, notesView, queue, running, streams, history, left>>

\* deleteItemLocally: nothing is emitted.
RemoveItemLocally(u) ==
  /\ Quiet /\ Live(u) /\ Spend
  /\ items' = [items EXCEPT ![u] = None]
  /\ references' = R!RemoveFromMap(references, u)
  /\ display' = FilterSortElements(display, Only(u, items[u]), {})
  /\ history' = [history EXCEPT !.unannounced = @ \union {u}, !.discarded = @ \union {u}]
  /\ UNCHANGED <<notesView, queue, running, streams, deletions>>

\* A sync has retrieved an item that is not dirty here.
Retrieve(u) ==
  LET gone == {n \in Note : ~Live(n) /\ (n \in history.discarded \/ items[n] # None)}
  IN /\ items[u] # None => ~items[u].dirty
     /\ u \in history.discarded => Restores
     /\ Spend
     /\ \/ /\ Does(Only(u, Deleted), None)
           /\ UNCHANGED history
        \/ \E refs \in IF u \in Tag THEN SUBSET Note ELSE {{}} :
             /\ Does(Only(u, [Blank EXCEPT !.rank = 2, !.refs = refs]), None)
             /\ history' = [history EXCEPT !.relinked = @ \union {<<u, n>> : n \in refs \intersect gone}]
     /\ UNCHANGED deletions

\* Or has saved what was dirty.
Saved(u) ==
  /\ items[u] # None /\ items[u].dirty
  /\ Does(Only(u, [items[u] EXCEPT !.dirty = FALSE]), None)
  /\ UNCHANGED <<deletions, history, left>>

-------------------------------------------------------------------------------
(***************************************************************************)
(* Consumers, which may also act while they are being notified.            *)
(***************************************************************************)
\* streamItems: a new stream is given what there is; an emission being notified has its
\* observers already.
Subscribe(s) ==
  /\ ~MayPop
  /\ streams[s] = None
  /\ streams' = [streams EXCEPT ![s] = items]
  /\ UNCHANGED <<items, references, display, notesView, queue, running, deletions, history, left>>

Unsubscribe(s) ==
  /\ Quiet
  /\ streams[s] # None
  /\ streams' = [streams EXCEPT ![s] = None]
  /\ UNCHANGED <<items, references, display, notesView, queue, running, deletions, history, left>>

\* With the same order, and no filter, nothing is done.
DisplayOptions(d, sort, filter) ==
  IF d.sort = sort /\ ~d.filter /\ ~filter THEN d
  ELSE LET present == {u \in d.of : items[u] # None}
       IN SortedBy([NoDisplay(d.of) EXCEPT !.sort = sort, !.filter = filter],
                   [u \in present |-> items[u]], present, Moves)
SetDisplayOptions(sort, filter) ==
  /\ ~MayPop
  /\ Spend
  /\ display' = [display EXCEPT !.tags = DisplayOptions(@, sort, filter)]
  /\ UNCHANGED <<items, references, notesView, queue, running, streams, deletions, history>>

SetCriteria(tag, sort) ==
  /\ ~MayPop
  /\ Spend
  /\ display' = [display EXCEPT !.notes = DisplayOptions(@, sort, FALSE)]
  /\ notesView' = [notesView EXCEPT !.tag = tag, !.stale = TRUE]
  /\ UNCHANGED <<items, references, queue, running, streams, deletions, history>>

\* If the tag of the criteria was discarded, this throws.
DisplayElements ==
  /\ ~MayPop
  /\ notesView.stale
  /\ notesView.tag # None => items[notesView.tag] # None
  /\ notesView' = [notesView EXCEPT !.stale = FALSE,
                                    !.shown = Matching(display.notes, items, notesView.tag)]
  /\ UNCHANGED <<items, references, display, queue, running, streams, deletions, history, left>>

-------------------------------------------------------------------------------
\* A database that was loaded: the collection was set.
Init ==
  LET loaded == Tag \union Stored
  IN /\ \E tagged \in [Tag -> SUBSET Stored] :
          items = [u \in Item |-> IF u \in Tag THEN [Blank EXCEPT !.refs = tagged[u]]
                                  ELSE IF u \in Stored THEN Blank ELSE None]
     /\ references = SetReferences(R!NewMap, [u \in loaded |-> items[u]])
     /\ display = FilterSortElements([notes |-> NoDisplay(Note), tags |-> NoDisplay(Tag)],
                                     [u \in loaded |-> items[u]], loaded)
  /\ notesView = [tag |-> None, stale |-> TRUE, shown |-> <<>>]
  /\ queue = <<>> /\ running = <<>>
  /\ streams = [s \in Stream |-> None]
  /\ deletions = [u \in Item |-> Undeleted]
  /\ history = [unannounced |-> {}, discarded |-> {}, relinked |-> {}]
  /\ left = MaxChanges

Emission == PopQueue \/ (\E s \in Stream : Notify(s)) \/ Resolve
Operation ==
  \/ \E u \in Item : ChangeItem(u) \/ RemoveItemLocally(u) \/ Retrieve(u) \/ Saved(u)
  \/ \E n \in Note : CreateItem(n) \/ \E copy \in Note : CopyItem(n, copy, TRUE) \/ CopyItem(n, copy, FALSE)
  \/ \E u \in Deletable : SetItemToBeDeleted(u)
  \/ \E u \in Item : (\E a \in Item : DropReference(u, a)) \/ Linked(u)
Consumer ==
  \/ \E s \in Stream : Subscribe(s) \/ Unsubscribe(s)
  \/ \E sort \in {"asc", "dsc"} : (\E filter \in BOOLEAN : SetDisplayOptions(sort, filter))
                                  \/ \E tag \in Tag \union {None} : SetCriteria(tag, sort)
  \/ DisplayElements

Next == Emission \/ Operation \/ Consumer

Spec == Init /\ [][Next]_vars

-------------------------------------------------------------------------------
(*****************************************************************************)
(* When every emission has been notified, each stream has been given exactly *)
(* what is in the collection, in whatever order its observers changed items, *)
(* and whenever it subscribed.  Items removed locally are not announced.     *)
(*****************************************************************************)
StreamsAgree ==
  Quiet => \A s \in Subscribed, u \in Item \ history.unannounced : streams[s][u] = items[u]

(*******************************************************************************)
(* The display, which is sorted again only when an element may have moved, has *)
(* the items that pass the filter, as they are now, in order, and knows their  *)
(* places.  A view of the notes that is not to be rebuilt shows those.         *)
(*******************************************************************************)
Shown(d) == {u \in d.of : items[u] # None /\ Passes(d, items[u])}
Current(d) ==
  /\ {d.sorted[i] : i \in DOMAIN d.sorted} = {[uuid |-> u, payload |-> items[u]] : u \in Shown(d)}
  /\ Len(d.sorted) = Cardinality(Shown(d))
  /\ \A i, j \in DOMAIN d.sorted : i < j => ~Before(d, d.sorted[j].payload, d.sorted[i].payload)
  /\ \A u \in d.of : IF u \in Shown(d) THEN d.sorted[d.at[u]].uuid = u ELSE d.at[u] = 0
DisplayIsCurrent ==
  /\ Current(display.notes) /\ Current(display.tags)
  /\ ~notesView.stale /\ history.unannounced = {} =>
       {notesView.shown[i] : i \in DOMAIN notesView.shown} =
         {n \in Shown(display.notes) : notesView.tag = None \/ n \in items[notesView.tag].refs}

(*******************************************************************************)
(* When setItemToBeDeleted is over, nothing refers to the item any more, but   *)
(* for what the server has sent since: copies of the item's referrers, other   *)
(* deletions and changes made by consumers in between do not bring a reference *)
(* back.                                                                       *)
(*******************************************************************************)
DeletionUnlinks ==
  \A n \in Note : deletions[n].pc \in {"done", "failed"} /\ ~Live(n) =>
    \A a \in Item : Live(a) /\ n \in items[a].refs => <<a, n>> \in history.relinked

===============================================================================
