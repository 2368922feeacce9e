------------------------------ MODULE Components ------------------------------
(*****************************************************************************)
(* The component manager: extensions shown in windows of their own (iframes) *)
(* ask to stream, save, create and delete items.  What a component asks for  *)
(* beyond its permissions waits for the user's answer in a dialog.           *)
(*                                                                           *)
(* A permission is an atom: the item in context, or a type of items.  A step *)
(* is what runs until the next real wait: a dialog, a sync, a uuid being     *)
(* generated, the ten milliseconds between a theme's activation and the      *)
(* deactivation of the others.  Changes to items reach their observers       *)
(* before the change returns, so they belong to the step.  Nobody but the    *)
(* manager changes permissions here, so streams once allowed stay allowed.   *)
(*****************************************************************************)
EXTENDS Naturals, Sequences, FiniteSets, SequencesExt, Filter

CONSTANTS
  Component,   \* the components, all of one area
  Notes,       \* the items that may be in context; no type to be streamed in bulk
  Tags,        \* the items of another type, one of AllowedBatchPermissions
  Theme,       \* the themes
  Layerable,   \* those that may be active together with others
  Locked,      \* the items with editing disabled
  None,        \* no item
  Kinds,       \* the kinds of requests considered
  MaxRequests, \* bound: requests that need permissions
  MaxWindows,  \* bound: registrations of windows
  MaxEvents,   \* bound: what users, other clients and the surroundings do besides
  MaxToggles   \* bound: toggles of themes

Item == Notes \union Tags
Context == "context"
TypeOf(i) == IF i \in Notes THEN "Note" ELSE "Tag"
Atom == {Context, "Note", "Tag"}

ASSUME SortAssumption ==
  /\ Notes \intersect Tags = {} /\ None \notin Item
  /\ Layerable \subseteq Theme /\ Locked \subseteq Item
ASSUME KindAssumption ==
  Kinds \subseteq {"stream", "stream-context", "save", "duplicate", "delete", "permissions"}
ASSUME BoundAssumption == {MaxRequests, MaxWindows, MaxEvents, MaxToggles} \subseteq Nat

VARIABLES
  components, \* the component items: whether they exist, their permissions, and which
              \* of the immutable objects that stand for them is the newest
  windows,    \* componentState: window and session key, hidden, readonly
  regs,       \* the registrations whose session key is being generated, in order
  generated,  \* the session keys asked for so far
  streams,    \* streamObservers, contextStreamObservers: what each component observes
  requests,   \* the requests that are not over, or whose dialog is shown
  dialogs,    \* permissionDialogs: requests that wait for an answer
  shown,      \* how often the dialog of each request is on the screen
  items,      \* the items that exist
  context,    \* the item in context
  told,       \* the items of which a component's window has the newest state
  heard,      \* history: what was pushed at once to the window there is
  excess,     \* history: permissions that requests were run without
  keys,       \* the session key a component's window has
  active,     \* the active themes
  toggles,    \* the toggled themes whose others are still to be deactivated
  left        \* what remains of the bounds on requests, events and toggles

manager == <<windows, regs, generated, streams, heard>>
prompts == <<requests, dialogs, shown>>
data == <<items, context>>
themes == <<active, toggles>>
vars == <<components, manager, prompts, data, told, keys, excess, themes, left>>

\* The entry of componentState for a component: which object it is, 0 if there is no
\* window yet, and the session key, 0 if it has none.
NoState == [id |-> 0, key |-> 0, hidden |-> FALSE, readonly |-> FALSE]

Request == [comp : Component, object : Nat, kind : Kinds, items : SUBSET Item,
            need : SUBSET Atom, missing : SUBSET Atom,
            status : {"asked", "confirming", "over"}]

TypeOK ==
  /\ components \in [Component -> [present : BOOLEAN, perms : SUBSET Atom, object : Nat]]
  /\ windows \in [Component -> [id : Nat, key : Nat, hidden : BOOLEAN, readonly : BOOLEAN]]
  /\ regs \in Seq([comp : Component, id : Nat, key : Nat]) /\ generated \in Nat
  /\ streams \in [Component -> SUBSET Atom] /\ heard \in [Component -> SUBSET Atom]
  /\ DOMAIN requests \subseteq 1..MaxRequests
  /\ \A r \in DOMAIN requests : requests[r] \in Request
  /\ dialogs \in Seq(DOMAIN requests) /\ IsInjective(dialogs)
  /\ shown \in [1..MaxRequests -> Nat]
  /\ items \subseteq Item /\ context \in items \union {None}
  /\ told \in [Component -> SUBSET Item] /\ keys \in [Component -> Nat]
  /\ excess \subseteq Atom
  /\ active \subseteq Theme /\ toggles \in Seq(SUBSET Theme)
  /\ left \in [{"requests", "events", "toggles"} -> Nat]

Init ==
  /\ components = [c \in Component |-> [present |-> TRUE, perms |-> {}, object |-> 0]]
  /\ windows = [c \in Component |-> NoState]
  /\ regs = <<>> /\ generated = 0
  /\ streams = [c \in Component |-> {}] /\ heard = [c \in Component |-> {}]
  /\ requests = <<>> /\ dialogs = <<>>
  /\ shown = [r \in 1..MaxRequests |-> 0]
  /\ items \in {Item \ S : S \in SUBSET Tags} /\ context = None
  /\ told = [c \in Component |-> {}] /\ keys = [c \in Component |-> 0]
  /\ excess = {}
  /\ active = {} /\ toggles = <<>>
  /\ left = [requests |-> MaxRequests, events |-> MaxEvents, toggles |-> MaxToggles]

Spend(kind) == left[kind] > 0 /\ left' = [left EXCEPT ![kind] = @ - 1]

-------------------------------------------------------------------------------
(***************************************************************************)
(* Messages to components.  A hidden component gets no replies, nor does   *)
(* one whose window is gone.                                               *)
(***************************************************************************)
Reaches(c) == windows[c].id # 0 /\ ~windows[c].hidden

\* What the observers of c, with the streams s, are sent when the items in S change.
Streamed(s, S, exist) ==
  {i \in S : TypeOf(i) \in s} \union {i \in S \intersect exist : i = context /\ Context \in s}

\* notifyStreamObservers: the source of a change is not notified of it.
NotifyStreamObservers(t, s, S, exist, source) ==
  [c \in Component |->
     IF c = source THEN t[c] \union S
     ELSE (t[c] \ S) \union (IF Reaches(c) THEN Streamed(s[c], S, exist) ELSE {})]

\* What handleStreamItemsMessage and handleStreamContextItemMessage push at once.
Pushed(c, s, exist) ==
  IF Reaches(c) THEN Streamed(s, exist, exist) ELSE {}

-------------------------------------------------------------------------------
(***************************************************************************)
(* What a request does once it is permitted, on a record w of the state it *)
(* changes: several requests may be run by one answer.                     *)
(***************************************************************************)
World == [streams |-> streams, heard |-> heard, requests |-> requests, items |-> items, told |-> told,
          perms |-> [c \in Component |-> components[c].perms], excess |-> excess]

Ends(w, r, status) == [w EXCEPT !.requests[r].status = status]

Changes(w, S, source) ==
  [w EXCEPT !.items = @ \union S,
            !.told = NotifyStreamObservers(@, w.streams, S, w.items \union S, source)]

\* The types of an observer are those of the first message of its component.
Observe(w, c, s) ==
  LET t == IF w.streams[c] \intersect s # {} THEN w.streams[c]
           ELSE w.streams[c] \union s
  IN [w EXCEPT !.streams[c] = t, !.heard[c] = @ \union s,
               !.told[c] = @ \union Pushed(c, s, w.items)]

Run(v, r) ==
  LET q == v.requests[r]
      c == q.comp
      w == [v EXCEPT !.excess = @ \union (q.need \ v.perms[c])]
  IN CASE q.kind \in {"stream", "stream-context"} -> Ends(Observe(w, c, q.need), r, "over")
       [] q.kind = "save" ->
            IF q.items \intersect w.items \intersect Locked # {} THEN Ends(w, r, "over")
            ELSE Ends(Changes(w, q.items, c), r, "over")
       [] q.kind = "duplicate" ->
            LET copies == {i \in Item \ w.items : \E j \in q.items : TypeOf(i) = TypeOf(j)}
            IN IF copies = {} THEN Ends(w, r, "over")
               ELSE Ends(Changes(w, {CHOOSE i \in copies : TRUE}, None), r, "over")
       [] q.kind = "delete" -> Ends(w, r, "confirming")
       [] q.kind = "permissions" -> Ends(w, r, "over")

\* A request that is over is kept as long as its dialog is shown, by s.
StillOf(q, s) == {r \in DOMAIN q : q[r].status # "over" \/ s[r] > 0}
Keep(q, s) == [r \in StillOf(q, s) |-> q[r]]

Becomes(w, s) ==
  /\ requests' = Keep(w.requests, s) /\ shown' = s
  /\ streams' = w.streams /\ heard' = w.heard /\ excess' = w.excess
  /\ items' = w.items /\ told' = w.told
  /\ context' = IF context \in w.items THEN context ELSE None

-------------------------------------------------------------------------------
(***************************************************************************)
(* runWithPermissions and promptForPermissions.  A dialog is shown unless  *)
(* one of the same component object waits already.                         *)
(***************************************************************************)
SameComponent(p, q) == p.comp = q.comp /\ p.object = q.object

\* Variant with a bug: batch permissions are taken for granted.
NothingMissing(c, need) == need \ (components[c].perms \union {"Tag"})
Missing(c, need) == need \ components[c].perms

RunWithPermissions(c, kind, S, need) ==
  LET q == [comp |-> c, object |-> components[c].object, kind |-> kind, items |-> S,
            need |-> need, missing |-> Missing(c, need), status |-> "asked"]
      r == MaxRequests - left.requests + 1
      w == [World EXCEPT !.requests = [p \in DOMAIN @ \union {r} |-> IF p = r THEN q ELSE @[p]]]
  IN /\ Spend("requests")
     /\ \/ /\ q.missing = {}
           /\ Becomes(Run(w, r), shown)
           /\ UNCHANGED dialogs
        \/ /\ q.missing # {}
           /\ dialogs' = Append(dialogs, r)
           /\ Becomes(w, IF \E p \in ToSet(dialogs) : SameComponent(requests[p], q)
                         THEN shown ELSE [shown EXCEPT ![r] = 1])

\* Variant with a bug: one permission is enough.
ContainsAny(source, target) == source \intersect target # {}
\* Every permission of target, a list of types taken as one, is one of source.
ContainsObjectSubset(source, target) ==
  /\ Context \in target => Context \in source
  /\ target \ {Context} # {} => target \ {Context} = source \ {Context}

\* The dialogs that the answer to r's dialog removes, and of these the ones it runs.
Answered(r) ==
  {p \in ToSet(dialogs) :
     \/ p = r
     \/ /\ SameComponent(requests[p], requests[r])
        /\ ContainsObjectSubset(requests[r].missing, requests[p].missing)}

\* Variant with a bug first: the next dialog is not presented.
PresentNothing(s, d) == s
PresentNext(s, d) == IF d = <<>> THEN s ELSE [s EXCEPT ![d[1]] = @ + 1]

Closed(r) == [shown EXCEPT ![r] = @ - 1]
Remaining(r) == Where(dialogs, ToSet(dialogs) \ Answered(r))

\* Actions run in order, each on what those before it left.
RunAll(w, run) ==
  LET after[n \in 0..Len(run)] == IF n = 0 THEN w ELSE Run(after[n - 1], run[n])
  IN after[Len(run)]

\* The user approves: the permissions are saved, then the actions run in order.
Approve(r) ==
  LET c == requests[r].comp
      run == Where(dialogs, Answered(r))
  IN /\ shown[r] > 0
     /\ components[c].present
     /\ components' = [components EXCEPT ![c].perms = @ \union requests[r].missing,
                                         ![c].object = @ + 1]
     /\ dialogs' = Remaining(r)
     /\ Becomes(RunAll([World EXCEPT !.perms[c] = components'[c].perms], run),
                PresentNext(Closed(r), Remaining(r)))
     /\ UNCHANGED <<windows, regs, generated, keys, themes, left>>

\* Approving what a component that is gone asked for throws.
ApproveRemoved(r) ==
  /\ shown[r] > 0
  /\ ~components[requests[r].comp].present
  /\ shown' = Closed(r)
  /\ requests' = Keep(requests, Closed(r))
  /\ UNCHANGED <<components, manager, dialogs, data, told, keys, excess, themes, left>>

Deny(r) ==
  LET s == PresentNext(Closed(r), Remaining(r))
  IN /\ shown[r] > 0
     /\ requests' = Keep([p \in DOMAIN requests |->
                            IF p \in Answered(r) THEN [requests[p] EXCEPT !.status = "over"]
                            ELSE requests[p]], s)
     /\ dialogs' = Remaining(r)
     /\ shown' = s
     /\ UNCHANGED <<components, manager, data, told, keys, excess, themes, left>>

Answer(r) == Approve(r) \/ ApproveRemoved(r) \/ Deny(r)

-------------------------------------------------------------------------------
(****************************************************************************)
(* handleMessage: messages of a component whose window has the session key. *)
(****************************************************************************)
IsBridged(c) == keys[c] # 0 /\ keys[c] = windows[c].key /\ components[c].present

Message(c, kind, S, need) ==
  /\ kind \in Kinds
  /\ IsBridged(c)
  /\ kind \in {"save", "delete"} => ~windows[c].readonly
  /\ RunWithPermissions(c, kind, S, need)
  /\ UNCHANGED <<components, windows, regs, generated, keys, themes>>

TypesOf(S) == {TypeOf(i) : i \in S}
Inside(S) == IF context \in S THEN {Context} ELSE {}

HandleStreamItemsMessage(c) == Message(c, "stream", {}, {"Tag"})
HandleStreamContextItemMessage(c) == Message(c, "stream-context", {}, {Context})
HandleSaveItemsMessage(c) ==
  \E S \in (SUBSET Item) \ {{}} :
    Message(c, "save", S, Inside(S) \union TypesOf(S \ {context}))
HandleCreateItemsMessage(c) ==
  \E i \in Item \ items : Message(c, "save", {i}, {TypeOf(i)})
HandleDuplicateItemMessage(c) ==
  \E i \in items : Message(c, "duplicate", {i}, {TypeOf(i)})
HandleDeleteItemsMessage(c) ==
  \E S \in (SUBSET (Tags \intersect items)) \ {{}} : Message(c, "delete", S, {"Tag"})
HandleRequestPermissionsMessage(c) ==
  \E need \in {{Context}, {Context, "Tag"}} : Message(c, "permissions", {}, need)

\* Setting its own data takes no permission, and makes the component a new object.
HandleSetComponentDataMessage(c) ==
  /\ Spend("events")
  /\ IsBridged(c)
  /\ ~windows[c].readonly
  /\ components' = [components EXCEPT ![c].object = @ + 1]
  /\ UNCHANGED <<manager, prompts, data, told, keys, excess, themes>>

\* The user confirms a deletion, or does not.
ConfirmDelete(r) ==
  /\ requests[r].status = "confirming"
  /\ requests' = Keep([requests EXCEPT ![r].status = "over"], shown)
  /\ \/ LET S == requests[r].items \intersect items
            rest == items \ S
        IN /\ items' = rest
           /\ context' = IF context \in rest THEN context ELSE None
           /\ told' = NotifyStreamObservers(told, streams, S, rest, None)
     \/ UNCHANGED <<items, context, told>>
  /\ UNCHANGED <<components, manager, dialogs, shown, keys, excess, themes, left>>

-------------------------------------------------------------------------------
(***************************************************************************)
(* Windows.  The generation of a session key is awaited: meanwhile the     *)
(* window may be destroyed, and another registered.                        *)
(***************************************************************************)

\* A window registers again with the state it has, a new one with a new state.
RegisterComponentWindow(c) ==
  LET n == generated + 1
      id == IF windows[c].id = 0 THEN n ELSE windows[c].id
  IN /\ components[c].present
     /\ n <= MaxWindows
     /\ generated' = n
     /\ windows' = [windows EXCEPT ![c].id = id]
     /\ regs' = Append(regs, [comp |-> c, id |-> id, key |-> n])
     /\ IF windows[c].id = 0
        THEN /\ keys' = [keys EXCEPT ![c] = 0]
             /\ told' = [told EXCEPT ![c] = {}]
             /\ heard' = [heard EXCEPT ![c] = {}]
        ELSE UNCHANGED <<keys, told, heard>>
     /\ UNCHANGED <<components, streams, prompts, data, excess, themes, left>>

\* The key belongs to the state of its registration, and is sent to the window of today.
SessionKeyGenerated ==
  /\ regs # <<>>
  /\ LET g == Head(regs)
     IN /\ windows' = IF windows[g.comp].id = g.id
                      THEN [windows EXCEPT ![g.comp].key = g.key] ELSE windows
        /\ keys' = IF windows[g.comp].id # 0 THEN [keys EXCEPT ![g.comp] = g.key] ELSE keys
  /\ regs' = Tail(regs)
  /\ UNCHANGED <<components, generated, streams, heard, prompts, data, told, excess, themes, left>>

HideComponent(c) ==
  /\ ~windows[c].hidden
  /\ Spend("events")
  /\ windows' = [windows EXCEPT ![c].hidden = TRUE]
  /\ UNCHANGED <<components, regs, generated, streams, heard, prompts, data, told, keys,
                 excess, themes>>

\* Variant with a bug: nothing is sent.
ShowComponent(c) ==
  /\ windows[c].hidden
  /\ windows' = [windows EXCEPT ![c].hidden = FALSE]
  /\ UNCHANGED <<components, regs, generated, streams, heard, prompts, data, told, keys,
                 excess, themes, left>>
\* Hidden components are sent what they stream once they are shown again.
UnhideComponent(c) ==
  /\ windows[c].hidden
  /\ windows' = [windows EXCEPT ![c].hidden = FALSE]
  /\ told' = IF windows[c].id # 0
             THEN [told EXCEPT ![c] = @ \union Streamed(streams[c], items, items)] ELSE told
  /\ UNCHANGED <<components, regs, generated, streams, heard, prompts, data, keys, excess,
                 themes, left>>

SetReadonlyState(c) ==
  /\ Spend("events")
  /\ windows' = [windows EXCEPT ![c].readonly = ~@]
  /\ UNCHANGED <<components, regs, generated, streams, heard, prompts, data, told, keys,
                 excess, themes>>

\* Variant with a bug: the window is forgotten, its state is not.
DeregisterStreams(c) ==
  /\ streams' = [streams EXCEPT ![c] = {}]
  /\ UNCHANGED <<windows, regs, generated, heard, prompts, data, told, excess, themes>>
DeregisterComponent(c) ==
  /\ windows' = [windows EXCEPT ![c] = NoState]
  /\ streams' = [streams EXCEPT ![c] = {}]
  /\ UNCHANGED <<regs, generated, heard, prompts, data, told, excess, themes>>

OnComponentIframeDestroyed(c) ==
  /\ Spend("events")
  /\ windows[c].id # 0
  /\ DeregisterComponent(c)
  /\ keys' = [keys EXCEPT ![c] = 0]
  /\ UNCHANGED components

\* Deactivated here or elsewhere while its window is there.
DeactivateComponent(c) ==
  /\ Spend("events")
  /\ windows[c].id # 0
  /\ DeregisterComponent(c)
  /\ components' = [components EXCEPT ![c].object = @ + 1]
  /\ UNCHANGED keys

\* Deleted, here or elsewhere, and discarded.
RemoveComponent(c) ==
  /\ Spend("events")
  /\ components[c].present
  /\ components' = [components EXCEPT ![c].present = FALSE]
  /\ DeregisterComponent(c)
  /\ keys' = [keys EXCEPT ![c] = 0]

-------------------------------------------------------------------------------
(***************************************************************************)
(* The user and other clients.                                             *)
(***************************************************************************)
ItemChanged(i) ==
  /\ Spend("events")
  /\ \/ items' = items \union {i}
     \/ items' = items \ {i} /\ i \in items
  /\ context' = IF context \in items' THEN context ELSE None
  /\ told' = NotifyStreamObservers(told, streams, {i}, items', None)
  /\ UNCHANGED <<components, manager, prompts, keys, excess, themes>>

\* Another item comes into context: contextItemDidChangeInArea.
ContextItemDidChange(i) ==
  /\ Spend("events")
  /\ i # context
  /\ context' = i
  /\ told' = [c \in Component |->
                 IF Context \in streams[c] /\ Reaches(c) THEN told[c] \union ({i} \ {None})
                 ELSE told[c]]
  /\ UNCHANGED <<components, manager, prompts, items, keys, excess, themes>>

(***************************************************************************)
(* Themes: the toggled theme is activated first, "so as not to flicker".   *)
(***************************************************************************)
\* Variant with a bug: the themes that are to be deactivated are not remembered.
NoOthers(t) == {}
Others(t) == active \ ({t} \union Layerable)

ToggleComponent(t) ==
  /\ Spend("toggles")
  /\ IF t \in active
     THEN active' = active \ {t} /\ UNCHANGED toggles
     ELSE /\ active' = active \union {t}
          /\ IF t \in Layerable THEN UNCHANGED toggles
             ELSE toggles' = Append(toggles, Others(t))
  /\ UNCHANGED <<components, manager, prompts, data, told, keys, excess>>

DeactivateOthers ==
  /\ toggles # <<>>
  /\ active' = active \ Head(toggles)
  /\ toggles' = Tail(toggles)
  /\ UNCHANGED <<components, manager, prompts, data, told, keys, excess, left>>

-------------------------------------------------------------------------------
Messages(c) ==
  \/ HandleStreamItemsMessage(c) \/ HandleStreamContextItemMessage(c)
  \/ HandleSaveItemsMessage(c) \/ HandleCreateItemsMessage(c)
  \/ HandleDuplicateItemMessage(c) \/ HandleDeleteItemsMessage(c)
  \/ HandleRequestPermissionsMessage(c) \/ HandleSetComponentDataMessage(c)

Windows(c) ==
  \/ RegisterComponentWindow(c) \/ OnComponentIframeDestroyed(c)
  \/ DeactivateComponent(c) \/ RemoveComponent(c)
  \/ HideComponent(c) \/ UnhideComponent(c) \/ SetReadonlyState(c)

Next ==
  \/ \E c \in Component : Messages(c) \/ Windows(c)
  \/ \E r \in DOMAIN requests : Answer(r) \/ ConfirmDelete(r)
  \/ SessionKeyGenerated \/ DeactivateOthers
  \/ \E i \in Item : ItemChanged(i)
  \/ \E i \in (items \intersect Notes) \union {None} : ContextItemDidChange(i)
  \/ \E t \in Theme : ToggleComponent(t)

Spec == Init /\ [][Next]_vars

-------------------------------------------------------------------------------
(***************************************************************************)
(* A request is carried out only with all the permissions it needs: those  *)
(* of an answer to another request carry it out only if they cover it.     *)
(***************************************************************************)
RunsWithPermission == excess = {}

(*****************************************************************************)
(* As long as requests wait, a dialog of one of them is on the screen, so    *)
(* that the user's answers get to all of them: what was not shown at once,   *)
(* as "multiple dialogs may be requested at the same time", is shown later   *)
(* or decided by the answer to another.  Components that went away excepted. *)
(*****************************************************************************)
WaitingIsShown ==
  dialogs # <<>> =>
    \E r \in ToSet(dialogs) : shown[r] > 0 \/ ~components[requests[r].comp].present

(****************************************************************************)
(* A component that is not hidden and has asked for a stream has the newest *)
(* state of every item in it, whoever changed it and however often it was   *)
(* hidden before: "when a component is unhidden, we need to send it any     *)
(* items it may have registered streaming for".                             *)
(****************************************************************************)
StreamsAreCurrent ==
  \A c \in Component :
    Reaches(c) =>
      Streamed(streams[c] \intersect heard[c], items, items) \subseteq told[c]

(***************************************************************************)
(* Once no session key is being generated, every registered window has the *)
(* key its messages are recognized by, even if windows of its component    *)
(* were destroyed and registered while keys were generated.                *)
(***************************************************************************)
WindowsAreBridged ==
  regs = <<>> => \A c \in Component : windows[c].id # 0 => keys[c] = windows[c].key

(****************************************************************************)
(* Themes that do not layer exclude each other once every toggle is carried *)
(* out, however the toggles overlap.                                        *)
(****************************************************************************)
OneThemeIsActive == toggles = <<>> => Cardinality(active \ Layerable) <= 1
===============================================================================
