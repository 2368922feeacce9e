--------------------------- MODULE ComponentsProofs ---------------------------
(***************************************************************************)
(* What the component manager keeps while it waits, for any components,    *)
(* themes and bounds: the windows' session keys while keys are generated,  *)
(* one theme while toggles are carried out, and, while the user is asked,  *)
(* the permissions of whatever runs, a dialog of those who wait, and the   *)
(* streams of the windows.                                                 *)
(***************************************************************************)
EXTENDS Components, FiniteSetTheorems, TLAPS

Window == [id : Nat, key : Nat, hidden : BOOLEAN, readonly : BOOLEAN]
Registration == [comp : Component, id : Nat, key : Nat]

\* The registrations of c's window of today, and those of its earlier windows.
Current(c, i) == regs[i].comp = c /\ regs[i].id = windows[c].id
Stale(c, i) == regs[i].comp = c /\ regs[i].id # windows[c].id

\* What becomes of the key of c's window: it has it, or a registration will bring it; a
\* registration of an earlier window, which would send it another, comes before that.
WillBridge(c) ==
  /\ keys[c] = windows[c].key \/ \E i \in 1..Len(regs) : Current(c, i)
  /\ \A i \in 1..Len(regs) :
       Stale(c, i) => /\ \E j \in 1..Len(regs) : i < j /\ Current(c, j)
                      /\ \A j \in 1..Len(regs) : j < i => ~Current(c, j)

BridgeInv ==
  /\ windows \in [Component -> Window]
  /\ regs \in Seq(Registration)
  /\ generated \in Nat
  /\ keys \in [Component -> Nat]
  /\ \A i \in 1..Len(regs) : regs[i].id \in 1..generated
  /\ \A c \in Component :
       windows[c].id <= generated /\ (windows[c].id = 0 => windows[c].key = 0)
  /\ \A c \in Component : windows[c].id # 0 => WillBridge(c)

LEMMA InitBridge == Init => BridgeInv
BY DEF Init, BridgeInv, NoState, Window, WillBridge, Registration

\* A step that registers nothing and generates no key; some windows may go.
LEMMA OthersBridge ==
  ASSUME BridgeInv, UNCHANGED <<regs, generated>>,
         windows' \in [Component -> Window], keys' \in [Component -> Nat],
         \A c \in Component :
           \/ windows'[c].id = 0 /\ windows'[c].key = 0
           \/ /\ windows'[c].id = windows[c].id /\ windows'[c].key = windows[c].key
              /\ keys'[c] = keys[c]
  PROVE  BridgeInv'
<1>1. ASSUME NEW c \in Component, windows'[c].id # 0 PROVE WillBridge(c)'
  BY SMTT(40), <1>1 DEF BridgeInv, WillBridge, Current, Stale
<1>2. \A c \in Component :
        windows'[c].id <= generated' /\ (windows'[c].id = 0 => windows'[c].key = 0)
  <2>1. generated \in Nat /\ 0 <= generated
    BY DEF BridgeInv
  <2> QED BY <2>1 DEF BridgeInv
<1> QED BY <1>1, <1>2 DEF BridgeInv

LEMMA RegisterBridges ==
  ASSUME BridgeInv, NEW c \in Component, RegisterComponentWindow(c)
  PROVE  BridgeInv'
<1> DEFINE n == generated + 1
           id == IF windows[c].id = 0 THEN n ELSE windows[c].id
           g == [comp |-> c, id |-> id, key |-> n]
<1>1. /\ generated' = n /\ windows' = [windows EXCEPT ![c].id = id]
      /\ regs' = Append(regs, g)
      /\ keys' = IF windows[c].id = 0 THEN [keys EXCEPT ![c] = 0] ELSE keys
  BY DEF RegisterComponentWindow
<1>2. /\ n \in Nat /\ id \in Nat /\ id # 0 /\ g \in Registration
  BY DEF BridgeInv, Window, Registration
<1>3. /\ windows' \in [Component -> Window] /\ generated' \in Nat
      /\ keys' \in [Component -> Nat]
      /\ windows'[c].id = id /\ windows'[c].key = windows[c].key
      /\ \A d \in Component \ {c} : windows'[d] = windows[d] /\ keys'[d] = keys[d]
  BY <1>1, <1>2 DEF BridgeInv, Window
<1>4. PICK last \in Nat : last = Len(regs) + 1
  BY DEF BridgeInv
<1>5. /\ regs' \in Seq(Registration) /\ Len(regs') = last /\ regs'[last] = g
      /\ \A i \in 1..Len(regs) : i < last /\ regs'[i] = regs[i]
      /\ \A i \in 1..Len(regs') : i = last \/ i \in 1..Len(regs)
      /\ last \in 1..Len(regs') /\ 1..Len(regs) \subseteq 1..Len(regs')
      /\ Len(regs) \in Nat
  BY <1>1, <1>2, <1>4 DEF BridgeInv
<1>6. \A i \in 1..Len(regs') : regs'[i].id \in 1..generated'
  <2>1. id \in 1..n
    <3>1. windows[c].id \in Nat /\ windows[c].id <= generated /\ generated \in Nat
      BY DEF BridgeInv, Window
    <3> QED BY <1>2, <3>1
  <2>2. ASSUME NEW i \in 1..Len(regs') PROVE regs'[i].id \in 1..generated'
    <3>1. CASE i = last
      BY <1>1, <1>5, <2>1, <3>1
    <3>2. CASE i \in 1..Len(regs)
      BY <1>1, <1>2, <1>5, <3>2 DEF BridgeInv
    <3> QED BY <1>5, <3>1, <3>2
  <2> QED BY <2>2
<1>7. WillBridge(c)'
  <2>1. Current(c, last)' /\ ~Stale(c, last)'
    BY <1>3, <1>5 DEF Current, Stale
  <2>2. CASE windows[c].id = 0
    <3>1. \A i \in 1..Len(regs) : ~Current(c, i)'
      BY <1>1, <1>2, <1>3, <1>5, <2>2 DEF BridgeInv, Current
    <3> QED BY <1>5, <2>1, <3>1 DEF WillBridge
  <2>3. CASE windows[c].id # 0
    <3>1. \A i \in 1..Len(regs) : /\ Current(c, i)' <=> Current(c, i)
                                  /\ Stale(c, i)' <=> Stale(c, i)
      BY <1>3, <1>5, <2>3 DEF Current, Stale
    <3>2. \A i \in 1..Len(regs) :
            Stale(c, i) => \A j \in 1..Len(regs) : j < i => ~Current(c, j)
      BY <2>3 DEF BridgeInv, WillBridge
    <3> QED BY <1>5, <2>1, <3>1, <3>2 DEF WillBridge
  <2> QED BY <2>2, <2>3
<1>8. ASSUME NEW d \in Component, d # c, windows'[d].id # 0 PROVE WillBridge(d)'
  <2>1. \A i \in 1..Len(regs) : /\ Current(d, i)' <=> Current(d, i)
                                /\ Stale(d, i)' <=> Stale(d, i)
    BY <1>3, <1>5, <1>8 DEF Current, Stale
  <2>2. ~Current(d, last)' /\ ~Stale(d, last)'
    BY <1>5, <1>8 DEF Current, Stale
  <2>3. WillBridge(d) /\ windows'[d] = windows[d] /\ keys'[d] = keys[d]
    BY <1>3, <1>8 DEF BridgeInv
  <2>4. keys'[d] = windows'[d].key \/ \E i \in 1..Len(regs') : Current(d, i)'
    BY <1>5, <2>1, <2>3 DEF WillBridge
  <2>5. ASSUME NEW i \in 1..Len(regs'), Stale(d, i)'
        PROVE  /\ \E j \in 1..Len(regs') : i < j /\ Current(d, j)'
               /\ \A j \in 1..Len(regs') : j < i => ~Current(d, j)'
    BY <1>5, <2>1, <2>2, <2>3, <2>5 DEF WillBridge
  <2> QED BY <2>4, <2>5 DEF WillBridge
<1>9. \A d \in Component :
        windows'[d].id <= generated' /\ (windows'[d].id = 0 => windows'[d].key = 0)
  <2>1. \A d \in Component : windows[d].id \in Nat /\ generated \in Nat
    BY DEF BridgeInv, Window
  <2> QED BY <1>1, <1>2, <1>3, <2>1 DEF BridgeInv
<1> QED BY <1>3, <1>5, <1>6, <1>7, <1>8, <1>9 DEF BridgeInv

LEMMA GeneratedBridges ==
  ASSUME BridgeInv, SessionKeyGenerated
  PROVE  BridgeInv'
<1> DEFINE g == Head(regs)
           c == g.comp
<1>1. /\ regs # <<>> /\ regs' = Tail(regs) /\ UNCHANGED generated
      /\ windows' = IF windows[c].id = g.id THEN [windows EXCEPT ![c].key = g.key] ELSE windows
      /\ keys' = IF windows[c].id # 0 THEN [keys EXCEPT ![c] = g.key] ELSE keys
  BY DEF SessionKeyGenerated
<1>2. /\ g \in Registration /\ g = regs[1] /\ 1 \in 1..Len(regs)
      /\ Len(regs) \in Nat /\ Len(regs') = Len(regs) - 1
      /\ regs' \in Seq(Registration)
      /\ \A i \in 1..Len(regs') : i + 1 \in 1..Len(regs) /\ regs'[i] = regs[i + 1]
  BY <1>1 DEF BridgeInv
<1>3. c \in Component /\ g.key \in Nat /\ g.id \in Nat /\ g.id # 0
  BY <1>2 DEF BridgeInv, Registration
<1>4. /\ windows' \in [Component -> Window] /\ keys' \in [Component -> Nat]
      /\ \A d \in Component : windows'[d].id = windows[d].id
      /\ \A d \in Component \ {c} : windows'[d] = windows[d] /\ keys'[d] = keys[d]
      /\ windows[c].id = g.id => windows'[c].key = g.key
      /\ windows[c].id # g.id => windows'[c] = windows[c]
      /\ windows[c].id # 0 => keys'[c] = g.key
  BY <1>1, <1>3 DEF BridgeInv, Window
<1>5. \A i \in 1..Len(regs') : regs'[i].id \in 1..generated'
  BY <1>1, <1>2 DEF BridgeInv
<1>6. \A d \in Component, i \in 1..Len(regs') :
        /\ Current(d, i)' <=> Current(d, i + 1)
        /\ Stale(d, i)' <=> Stale(d, i + 1)
  BY <1>2, <1>4 DEF Current, Stale
<1>7. ASSUME NEW d \in Component, windows'[d].id # 0 PROVE WillBridge(d)'
  <2>1. WillBridge(d)
    BY <1>4, <1>7 DEF BridgeInv
  <2>2. \A i \in 1..Len(regs) : i # 1 => i - 1 \in 1..Len(regs') /\ (i - 1) + 1 = i
    BY <1>2
  <2>3. ASSUME NEW i \in 1..Len(regs'), Stale(d, i)'
        PROVE  /\ \E j \in 1..Len(regs') : i < j /\ Current(d, j)'
               /\ \A j \in 1..Len(regs') : j < i => ~Current(d, j)'
    <3>1. i + 1 \in 1..Len(regs) /\ Stale(d, i + 1)
      BY <1>2, <1>6, <2>3
    <3>2. PICK j \in 1..Len(regs) : i + 1 < j /\ Current(d, j)
      BY <2>1, <3>1 DEF WillBridge
    <3>3. j - 1 \in 1..Len(regs') /\ i < j - 1 /\ (j - 1) + 1 = j
      BY <2>2, <3>2
    <3>4. PICK k \in 1..Len(regs') : k = j - 1 /\ i < k /\ k + 1 = j
      BY <3>3
    <3>5. Current(d, k)'
      BY <1>6, <3>2, <3>4
    <3>6. ASSUME NEW l \in 1..Len(regs'), l < i PROVE ~Current(d, l)'
      <4>1. l + 1 \in 1..Len(regs) /\ l + 1 < i + 1
        BY <1>2, <3>6
      <4>2. ~Current(d, l + 1)
        BY <2>1, <3>1, <4>1 DEF WillBridge
      <4> QED BY <1>6, <4>2
    <3> QED BY <3>4, <3>5, <3>6
  <2>4. keys'[d] = windows'[d].key \/ \E i \in 1..Len(regs') : Current(d, i)'
    <3>1. ASSUME NEW j \in 1..Len(regs), j # 1, Current(d, j)
          PROVE  \E i \in 1..Len(regs') : Current(d, i)'
      <4>1. PICK i \in 1..Len(regs') : i + 1 = j
        BY <2>2, <3>1
      <4> QED BY <1>6, <3>1, <4>1
    <3>2. CASE d # c
      <4>1. ~Current(d, 1)
        BY <1>2, <3>2 DEF Current
      <4> QED BY <1>4, <2>1, <3>1, <3>2, <4>1 DEF WillBridge
    <3>3. CASE d = c /\ windows[c].id = g.id
      BY <1>4, <1>7, <3>3
    <3>4. CASE d = c /\ windows[c].id # g.id
      <4>1. Stale(c, 1)
        BY <1>2, <3>4 DEF Stale
      <4>2. \E j \in 1..Len(regs) : 1 < j /\ Current(c, j)
        BY <1>2, <2>1, <3>4, <4>1 DEF WillBridge
      <4> QED BY <3>1, <3>4, <4>2
    <3> QED BY <3>2, <3>3, <3>4
  <2> QED BY <2>3, <2>4 DEF WillBridge
<1>8. \A d \in Component :
        windows'[d].id <= generated' /\ (windows'[d].id = 0 => windows'[d].key = 0)
  BY <1>1, <1>3, <1>4 DEF BridgeInv
<1> QED BY <1>1, <1>2, <1>4, <1>5, <1>7, <1>8 DEF BridgeInv

LEMMA NextBridge == BridgeInv /\ [Next]_vars => BridgeInv'
<1> SUFFICES ASSUME BridgeInv, [Next]_vars PROVE BridgeInv'
  OBVIOUS
<1>1. ASSUME UNCHANGED <<windows, regs, generated, keys>> PROVE BridgeInv'
  BY <1>1, OthersBridge DEF BridgeInv
<1>2. ASSUME NEW c \in Component, Messages(c) PROVE BridgeInv'
  BY <1>1, <1>2 DEF Messages, HandleStreamItemsMessage, HandleStreamContextItemMessage,
       HandleSaveItemsMessage, HandleCreateItemsMessage, HandleDuplicateItemMessage,
       HandleDeleteItemsMessage, HandleRequestPermissionsMessage,
       HandleSetComponentDataMessage, Message, manager
<1>3. ASSUME NEW c \in Component,
             OnComponentIframeDestroyed(c) \/ DeactivateComponent(c) \/ RemoveComponent(c)
      PROVE  BridgeInv'
  <2>1. /\ windows' = [windows EXCEPT ![c] = NoState]
        /\ keys' = keys \/ keys' = [keys EXCEPT ![c] = 0]
        /\ UNCHANGED <<regs, generated>>
    BY <1>3 DEF OnComponentIframeDestroyed, DeactivateComponent, RemoveComponent,
                DeregisterComponent
  <2>2. NoState \in Window /\ NoState.id = 0 /\ NoState.key = 0
    BY DEF NoState, Window
  <2>3. /\ windows' \in [Component -> Window] /\ keys' \in [Component -> Nat]
        /\ windows'[c] = NoState
        /\ \A d \in Component \ {c} : windows'[d] = windows[d] /\ keys'[d] = keys[d]
    BY <2>1, <2>2 DEF BridgeInv
  <2> QED BY <2>1, <2>2, <2>3, OthersBridge
<1>4. ASSUME NEW c \in Component,
             HideComponent(c) \/ UnhideComponent(c) \/ SetReadonlyState(c)
      PROVE  BridgeInv'
  <2>1. /\ \/ \E hidden \in BOOLEAN : windows' = [windows EXCEPT ![c].hidden = hidden]
           \/ windows' = [windows EXCEPT ![c].readonly = ~@]
        /\ UNCHANGED <<regs, generated, keys>>
    BY <1>4 DEF HideComponent, UnhideComponent, SetReadonlyState
  <2>2. /\ windows' \in [Component -> Window]
        /\ \A d \in Component : /\ windows'[d].id = windows[d].id
                                 /\ windows'[d].key = windows[d].key
    <3>1. CASE \E hidden \in BOOLEAN : windows' = [windows EXCEPT ![c].hidden = hidden]
      <4>1. PICK hidden \in BOOLEAN : windows' = [windows EXCEPT ![c].hidden = hidden]
        BY <3>1
      <4> QED BY <4>1 DEF BridgeInv, Window
    <3>2. CASE windows' = [windows EXCEPT ![c].readonly = ~@]
      <4>1. PICK readonly \in BOOLEAN : windows' = [windows EXCEPT ![c].readonly = readonly]
        BY <3>2, Zenon
      <4> QED BY <4>1 DEF BridgeInv, Window
    <3> QED BY <2>1, <3>1, <3>2
  <2> QED BY <2>1, <2>2, OthersBridge DEF BridgeInv
<1>5. ASSUME NEW r \in DOMAIN requests, Answer(r) \/ ConfirmDelete(r) PROVE BridgeInv'
  BY <1>1, <1>5 DEF Answer, Approve, ApproveRemoved, Deny, ConfirmDelete, manager
<1>6. CASE DeactivateOthers \/ \E t \in Theme : ToggleComponent(t)
  BY <1>1, <1>6 DEF DeactivateOthers, ToggleComponent, manager
<1>7. CASE \/ \E i \in Item : ItemChanged(i)
           \/ \E i \in (items \intersect Notes) \union {None} : ContextItemDidChange(i)
  BY <1>1, <1>7 DEF ItemChanged, ContextItemDidChange, manager
<1>8. CASE UNCHANGED vars
  BY <1>1, <1>8 DEF vars, manager
<1> QED
  BY <1>2, <1>3, <1>4, <1>5, <1>6, <1>7, <1>8, RegisterBridges, GeneratedBridges
     DEF Next, Windows

(***************************************************************************)
(* WindowsAreBridged holds of every behaviour: once no session key is      *)
(* being generated, each window has the key its messages are known by.     *)
(***************************************************************************)
THEOREM EveryWindowIsBridged == Spec => []WindowsAreBridged
<1>1. BridgeInv => WindowsAreBridged
  BY DEF BridgeInv, WillBridge, WindowsAreBridged
<1>2. Spec => []BridgeInv
  BY InitBridge, NextBridge, PTL DEF Spec
<1> QED BY <1>1, <1>2, PTL

-------------------------------------------------------------------------------
(***************************************************************************)
(* Themes that do not layer: besides one, all that are active are going to *)
(* be deactivated by a toggle that is not carried out yet.                 *)
(***************************************************************************)
Going == UNION {toggles[i] : i \in 1..Len(toggles)}

ThemeInv ==
  /\ toggles \in Seq(SUBSET Theme)
  /\ active \subseteq Theme
  /\ \E t : active \ Layerable \subseteq {t} \union Going

LEMMA NextTheme == ThemeInv /\ [Next]_vars => ThemeInv'
<1> SUFFICES ASSUME ThemeInv, [Next]_vars PROVE ThemeInv'
  OBVIOUS
<1>1. ASSUME UNCHANGED themes PROVE ThemeInv'
  BY <1>1 DEF ThemeInv, Going, themes
<1>2. ASSUME NEW t \in Theme, ToggleComponent(t) PROVE ThemeInv'
  <2>1. CASE UNCHANGED toggles /\ (active' \subseteq active \/ (t \in Layerable /\ active' = active \union {t}))
    BY <2>1 DEF ThemeInv, Going
  <2>2. CASE active' = active \union {t} /\ toggles' = Append(toggles, Others(t))
    <3>1. Others(t) \subseteq Going' /\ toggles' \in Seq(SUBSET Theme)
      BY <2>2 DEF ThemeInv, Going, Others
    <3>2. active' \ Layerable \subseteq {t} \union Going'
      BY <2>2, <3>1 DEF Others
    <3> QED BY <1>2, <2>2, <3>1, <3>2 DEF ThemeInv
  <2> QED BY <1>2, <2>1, <2>2 DEF ToggleComponent
<1>3. CASE DeactivateOthers
  <2>1. /\ toggles # <<>> /\ active' = active \ toggles[1] /\ toggles' = Tail(toggles)
        /\ toggles' \in Seq(SUBSET Theme)
    BY <1>3 DEF DeactivateOthers, ThemeInv
  <2>2. PICK t : active \ Layerable \subseteq {t} \union Going
    BY DEF ThemeInv
  <2>3. ASSUME NEW u \in active' \ Layerable, u # t PROVE u \in Going'
    <3>1. PICK i \in 1..Len(toggles) : u \in toggles[i]
      BY <2>1, <2>2, <2>3 DEF Going
    <3>2. i # 1
      BY <2>1, <2>3, <3>1
    <3>3. i - 1 \in 1..Len(toggles') /\ toggles'[i - 1] = toggles[i]
      BY <2>1, <3>1, <3>2 DEF ThemeInv
    <3> QED BY <3>1, <3>3 DEF Going
  <2>4. active' \ Layerable \subseteq {t} \union Going'
    BY <2>3
  <2> QED BY <2>1, <2>4 DEF ThemeInv
<1>4. ASSUME NEW c \in Component, Messages(c) PROVE ThemeInv'
  BY <1>1, <1>4 DEF Messages, HandleStreamItemsMessage, HandleStreamContextItemMessage,
       HandleSaveItemsMessage, HandleCreateItemsMessage, HandleDuplicateItemMessage,
       HandleDeleteItemsMessage, HandleRequestPermissionsMessage,
       HandleSetComponentDataMessage, Message
<1>5. ASSUME NEW c \in Component, Windows(c) PROVE ThemeInv'
  BY <1>1, <1>5 DEF Windows, RegisterComponentWindow, OnComponentIframeDestroyed,
       DeactivateComponent, RemoveComponent, DeregisterComponent, HideComponent,
       UnhideComponent, SetReadonlyState
<1>6. ASSUME NEW r \in DOMAIN requests, Answer(r) \/ ConfirmDelete(r) PROVE ThemeInv'
  BY <1>1, <1>6 DEF Answer, Approve, ApproveRemoved, Deny, ConfirmDelete
<1>7. CASE \/ SessionKeyGenerated \/ \E i \in Item : ItemChanged(i)
           \/ \E i \in (items \intersect Notes) \union {None} : ContextItemDidChange(i)
  BY <1>1, <1>7 DEF SessionKeyGenerated, ItemChanged, ContextItemDidChange
<1>8. CASE UNCHANGED vars
  BY <1>1, <1>8 DEF vars
<1> QED BY <1>2, <1>3, <1>4, <1>5, <1>6, <1>7, <1>8 DEF Next

(***************************************************************************)
(* OneThemeIsActive holds of every behaviour: whatever toggles overlap,    *)
(* once they are carried out one theme of those that do not layer is left. *)
(***************************************************************************)
THEOREM OneThemeIsLeft == Spec => []OneThemeIsActive
<1>1. Init => ThemeInv
  BY DEF Init, ThemeInv, Going
<1>2. ThemeInv => OneThemeIsActive
  <2> SUFFICES ASSUME ThemeInv, toggles = <<>> PROVE Cardinality(active \ Layerable) <= 1
    BY DEF OneThemeIsActive
  <2>1. PICK t : active \ Layerable \subseteq {t} \union Going
    BY DEF ThemeInv
  <2>2. Going = {}
    BY DEF Going
  <2>3. active \ Layerable = {} \/ active \ Layerable = {t}
    BY <2>1, <2>2
  <2>4. Cardinality({}) = 0 /\ Cardinality({t}) = 1
    BY FS_EmptySet, FS_Singleton
  <2>5. 0 <= 1 /\ 1 <= 1
    OBVIOUS
  <2> QED BY <2>3, <2>4, <2>5
<1>3. Spec => []ThemeInv
  BY <1>1, NextTheme, PTL DEF Spec
<1> QED BY <1>2, <1>3, PTL

-------------------------------------------------------------------------------
(***************************************************************************)
(* Induction over data, first-order: a predicate is given as the set of    *)
(* the numbers it holds of, and the least number outside it refuted.       *)
(***************************************************************************)
\* Induction, first-order: a set of numbers has a least one.
LEMMA Least ==
  ASSUME NEW T \in SUBSET Nat, T # {}
  PROVE  \E m \in T : \A n \in T : m <= n
<1> DEFINE R == {p \in Nat \X Nat : p[1] < p[2]}
<1>1. IsWellFoundedOn(R, Nat)
  BY NatLessThanWellFounded DEF OpToRel
<1>2. PICK m \in T : \A n \in T : ~ (<<n, m>> \in R)
  <2> HIDE DEF R
  <2> QED BY <1>1, WFMin
<1>3. ASSUME NEW n \in T, n < m PROVE FALSE
  BY <1>2, <1>3
<1> QED BY <1>3

\* The elements of a sequence that another is appended to.
LEMMA ToSetAppend ==
  ASSUME NEW I, NEW q \in Seq(I), NEW x \in I
  PROVE  ToSet(Append(q, x)) = ToSet(q) \union {x}
<1>1. /\ Append(q, x) \in Seq(I) /\ Len(Append(q, x)) = Len(q) + 1 /\ Len(q) \in Nat
      /\ Append(q, x)[Len(q) + 1] = x /\ \A i \in 1..Len(q) : Append(q, x)[i] = q[i]
  OBVIOUS
<1>2. DOMAIN q = 1..Len(q) /\ DOMAIN Append(q, x) = 1..(Len(q) + 1)
  BY <1>1
<1>3. 1..(Len(q) + 1) = 1..Len(q) \union {Len(q) + 1}
  BY <1>1
<1> QED BY <1>1, <1>2, <1>3 DEF ToSet

\* Induction up to N: T is the set of numbers that the predicate holds of.
LEMMA UpTo ==
  ASSUME NEW N \in Nat, NEW T, 0 \in T, \A n \in 1..N : n - 1 \in T => n \in T
  PROVE  0..N \subseteq T
<1> DEFINE Out == (0..N) \ T
<1> SUFFICES ASSUME Out # {} PROVE FALSE
  OBVIOUS
<1>1. PICK m \in Out : \A n \in Out : m <= n
  <2>1. Out \in SUBSET Nat
    OBVIOUS
  <2> QED BY <2>1, Least
<1>2. m \in 1..N /\ m - 1 \in 0..N /\ m - 1 \notin Out
  BY <1>1
<1> QED BY <1>1, <1>2

\* The functions that f is defined to be by recursion: f[n] is F[n] of f[n - 1].
Iterates(f, N, v, F) == f = [n \in 0..N |-> IF n = 0 THEN v ELSE F[n][f[n - 1]]]

\* Such a function exists, and its values are those that every F[n] stays in.
LEMMA IteratesIs ==
  ASSUME NEW N \in Nat, NEW W, NEW v \in W, NEW F, \A n \in 1..N : F[n] \in [W -> W]
  PROVE  \E f \in [0..N -> W] : Iterates(f, N, v, F)
<1> DEFINE T == {m \in 0..N : \E f \in [0..m -> W] : Iterates(f, m, v, F)}
<1>1. 0 \in T
  <2> DEFINE f == [n \in 0..0 |-> v]
  <2>1. f \in [0..0 -> W] /\ Iterates(f, 0, v, F)
    BY DEF Iterates
  <2> QED BY <2>1
<1>2. ASSUME NEW m \in 1..N, m - 1 \in T PROVE m \in T
  <2>1. PICK f : f \in [0..(m - 1) -> W] /\ Iterates(f, m - 1, v, F)
    BY <1>2
  <2> DEFINE g == [n \in 0..m |-> IF n = m THEN F[m][f[m - 1]] ELSE f[n]]
             Value(h, n) == IF n = 0 THEN v ELSE F[n][h[n - 1]]
  <2>2. m # 0 /\ m \in Nat /\ m - 1 \in 0..(m - 1) /\ F[m][f[m - 1]] \in W
    BY <1>2, <2>1
  <2>3. \A n \in 0..m : n # m => n \in 0..(m - 1)
    BY <2>2
  <2>4. g \in [0..m -> W]
    BY <2>1, <2>2, <2>3
  <2>5. \A n \in 0..(m - 1) : f[n] = Value(f, n)
    <3> HIDE DEF Value
    <3>1. f = [n \in 0..(m - 1) |-> Value(f, n)]
      BY <2>1 DEF Iterates, Value
    <3> QED BY <3>1
  <2>6. ASSUME NEW n \in 0..m PROVE g[n] = Value(g, n)
    <3>1. CASE n = m
      <4>1. g[m] = F[m][f[m - 1]] /\ g[m - 1] = f[m - 1]
        BY <2>2
      <4> QED BY <2>2, <3>1, <4>1
    <3>2. CASE n # m
      <4>1. n \in 0..(m - 1) /\ g[n] = f[n] /\ f[n] = Value(f, n)
        BY <2>3, <2>5, <3>2
      <4>2. n # 0 => n - 1 \in 0..m /\ n - 1 # m
        BY <2>2, <4>1
      <4> QED BY <4>1, <4>2
    <3> QED BY <3>1, <3>2
  <2>7. g = [n \in 0..m |-> Value(g, n)]
    <3>1. g = [n \in 0..m |-> g[n]]
      OBVIOUS
    <3> HIDE DEF g, Value
    <3> QED BY <2>6, <3>1
  <2>8. Iterates(g, m, v, F)
    BY <2>7 DEF Iterates
  <2> HIDE DEF g
  <2> QED BY <2>4, <2>8
<1>3. N \in 0..N
  OBVIOUS
<1> HIDE DEF T
<1>4. N \in T
  BY <1>1, <1>2, <1>3, UpTo
<1> QED BY <1>4 DEF T

\* What every action keeps, all of them together keep.
LEMMA RunAllKeeps ==
  ASSUME NEW R, NEW run \in Seq(R), NEW W, NEW v \in W,
         \A w \in W, i \in 1..Len(run) : Run(w, run[i]) \in W
  PROVE  RunAll(v, run) \in W
<1> PICK N \in Nat : N = Len(run)
  OBVIOUS
<1> DEFINE F == [n \in 1..N |-> [w \in W |-> Run(w, run[n])]]
           Value(g, n) == IF n = 0 THEN v ELSE Run(g[n - 1], run[n])
           Goes(g) == g = [n \in 0..N |-> Value(g, n)]
           after == CHOOSE g : Goes(g)
<1>1. PICK f \in [0..N -> W] : Iterates(f, N, v, F)
  <2>1. \A n \in 1..N : F[n] \in [W -> W]
    OBVIOUS
  <2> HIDE DEF F
  <2> QED BY <2>1, IteratesIs
<1>2. Goes(f)
  <2>1. ASSUME NEW n \in 0..N PROVE f[n] = Value(f, n)
    <3>1. f[n] = IF n = 0 THEN v ELSE F[n][f[n - 1]]
      <4> HIDE DEF F
      <4> QED BY <1>1 DEF Iterates
    <3>2. n # 0 => n \in 1..N /\ n - 1 \in 0..N /\ f[n - 1] \in W
      BY <1>1
    <3> QED BY <3>1, <3>2
  <2> HIDE DEF Value
  <2> QED BY <1>1, <2>1
<1>3. Goes(after)
  <2> HIDE DEF Goes
  <2> QED BY <1>2
<1>4. RunAll(v, run) = after[N]
  BY DEF RunAll
<1> HIDE DEF after
<1>5. \A n \in 0..N : after[n] = Value(after, n)
  <2> HIDE DEF Value
  <2> QED BY <1>3
<1> DEFINE T == {n \in 0..N : after[n] \in W}
<1>6. 0 \in T
  BY <1>5
<1>7. \A n \in 1..N : n - 1 \in T => n \in T
  BY <1>5
<1>8. N \in T
  <2> HIDE DEF T
  <2>1. N \in 0..N
    OBVIOUS
  <2> QED BY <1>6, <1>7, <2>1, UpTo
<1> QED BY <1>4, <1>8

\* What Where leaves: the elements that are in S.
LEMMA WhereElements ==
  ASSUME NEW I, NEW q \in Seq(I), NEW S
  PROVE  Where(q, S) \in Seq(I) /\ ToSet(Where(q, S)) = ToSet(q) \intersect S
<1> PICK N \in Nat : N = Len(q)
  OBVIOUS
<1> DEFINE Next1(s, n) == IF q[n] \in S THEN Append(s, q[n]) ELSE s
           F == [n \in 1..N |-> [s \in Seq(I) |-> Next1(s, n)]]
           Value(g, n) == IF n = 0 THEN <<>>
                          ELSE IF q[n] \in S THEN Append(g[n - 1], q[n]) ELSE g[n - 1]
           Goes(g) == g = [n \in 0..N |-> Value(g, n)]
           kept == CHOOSE g : Goes(g)
<1>1. PICK f \in [0..N -> Seq(I)] : Iterates(f, N, <<>>, F)
  <2>1. \A n \in 1..N : F[n] \in [Seq(I) -> Seq(I)]
    <3> SUFFICES ASSUME NEW n \in 1..N, NEW s \in Seq(I) PROVE Next1(s, n) \in Seq(I)
      OBVIOUS
    <3>1. q[n] \in I
      OBVIOUS
    <3> QED BY <3>1
  <2>2. <<>> \in Seq(I)
    OBVIOUS
  <2> HIDE DEF F
  <2> QED BY <2>1, <2>2, IteratesIs
<1>2. Goes(f)
  <2>1. ASSUME NEW n \in 0..N PROVE f[n] = Value(f, n)
    <3>1. f[n] = IF n = 0 THEN <<>> ELSE F[n][f[n - 1]]
      <4> HIDE DEF F
      <4> QED BY <1>1 DEF Iterates
    <3>2. n # 0 => n \in 1..N /\ n - 1 \in 0..N
      OBVIOUS
    <3>3. n # 0 => f[n - 1] \in Seq(I)
      BY <1>1, <3>2
    <3> HIDE DEF F
    <3>4. n # 0 => F[n] = [s \in Seq(I) |-> Next1(s, n)]
      BY <3>2 DEF F
    <3> QED BY <3>1, <3>3, <3>4
  <2> HIDE DEF Value
  <2> QED BY <1>1, <2>1
<1>3. Goes(kept)
  <2> HIDE DEF Goes
  <2> QED BY <1>2
<1>4. Where(q, S) = kept[N]
  BY DEF Where
<1> HIDE DEF kept
<1>5. \A n \in 0..N : kept[n] = Value(kept, n)
  <2> HIDE DEF Value
  <2> QED BY <1>3
<1> DEFINE Good(n) == /\ kept[n] \in Seq(I)
                      /\ \A x : x \in ToSet(kept[n]) <=> x \in S /\ \E i \in 1..n : x = q[i]
           T == {n \in 0..N : Good(n)}
<1>6. 0 \in T
  <2>1. kept[0] = <<>>
    BY <1>5
  <2>2. \A x : x \notin ToSet(<<>>)
    BY DEF ToSet
  <2>3. <<>> \in Seq(I) /\ 0 \in 0..N /\ ~ \E i \in 1..0 : TRUE
    OBVIOUS
  <2>4. Good(0)
    BY <2>1, <2>2, <2>3
  <2> QED BY <2>3, <2>4
<1>7. ASSUME NEW n \in 1..N, n - 1 \in T PROVE n \in T
  <2>1. q[n] \in I /\ kept[n] = Next1(kept[n - 1], n)
    BY <1>5
  <2>2. \A x : (\E i \in 1..n : x = q[i]) <=> (\E i \in 1..(n - 1) : x = q[i]) \/ x = q[n]
    OBVIOUS
  <2>3. Good(n - 1)
    BY <1>7
  <2>4. CASE q[n] \notin S
    BY SMTT(40), <2>1, <2>2, <2>3, <2>4
  <2>5. CASE q[n] \in S
    <3>1. kept[n] = Append(kept[n - 1], q[n]) /\ kept[n] \in Seq(I)
      BY <2>1, <2>3, <2>5
    <3>2. \A x : x \in ToSet(kept[n]) <=> x \in ToSet(kept[n - 1]) \/ x = q[n]
      BY <2>1, <2>3, <3>1, ToSetAppend
    <3>3. ASSUME NEW x
          PROVE  x \in ToSet(kept[n]) <=> x \in S /\ \E i \in 1..n : x = q[i]
      BY <2>2, <2>3, <2>5, <3>2
    <3>4. Good(n) /\ n \in 0..N
      BY <3>1, <3>3
    <3> HIDE DEF Good
    <3> QED BY <3>4
  <2> QED BY <2>4, <2>5
<1>8. Good(N)
  <2>1. N \in 0..N
    OBVIOUS
  <2>2. N \in T
    <3> HIDE DEF T
    <3> QED BY <1>6, <1>7, <2>1, UpTo
  <2> QED BY <2>2
<1>9. ToSet(q) = {q[i] : i \in 1..N}
  BY DEF ToSet
<1>10. \A x : x \in ToSet(Where(q, S)) <=> x \in ToSet(q) \intersect S
  BY <1>4, <1>8, <1>9
<1> QED BY <1>4, <1>8, <1>10

-------------------------------------------------------------------------------
(***************************************************************************)
(* Answers.  An answer carries out one action after the other: what each   *)
(* of them keeps is a set of states that it stays in, and so do all of     *)
(* them together (RunAllKeeps).                                            *)
(***************************************************************************)
\* States that actions work on, D being the requests.
Worlds(D) ==
  [streams : [Component -> SUBSET Atom], heard : [Component -> SUBSET Atom],
   requests : [D -> Request], items : SUBSET Item, told : [Component -> SUBSET Item],
   perms : [Component -> SUBSET Atom], excess : SUBSET Atom]

\* Windows that are told t have the newest state of what they stream, s, and asked for, h.
UpToDate(t, s, h, exist) ==
  \A c \in Component :
    Reaches(c) => Streamed(s[c] \intersect h[c], exist, exist) \subseteq t[c]

\* The states that actions of requests in S may make of state v.
From(v, D, S) ==
  {w \in Worlds(D) :
     /\ w.perms = v.perms /\ w.excess = v.excess /\ v.items \subseteq w.items
     /\ \A r \in D : /\ w.requests[r].comp = v.requests[r].comp
                     /\ w.requests[r].need = v.requests[r].need
                     /\ r \notin S => w.requests[r] = v.requests[r]
     /\ UpToDate(w.told, w.streams, w.heard, w.items)}

\* Observers are notified of the items in S, and those of F are left.
LEMMA NotifyKeeps ==
  ASSUME NEW t \in [Component -> SUBSET Item], NEW s \in [Component -> SUBSET Atom],
         NEW h \in [Component -> SUBSET Atom], NEW S \in SUBSET Item, NEW E \in SUBSET Item,
         NEW F \in SUBSET Item, F \subseteq E \union S, NEW source, UpToDate(t, s, h, E)
  PROVE  LET n == NotifyStreamObservers(t, s, S, F, source)
         IN n \in [Component -> SUBSET Item] /\ UpToDate(n, s, h, F)
<1> DEFINE n == NotifyStreamObservers(t, s, S, F, source)
<1>1. ASSUME NEW c \in Component
      PROVE  /\ n[c] = IF c = source THEN t[c] \union S
                       ELSE (t[c] \ S) \union (IF Reaches(c) THEN Streamed(s[c], S, F) ELSE {})
             /\ n[c] \subseteq Item
  BY DEF NotifyStreamObservers, Streamed
<1>2. ASSUME NEW c \in Component, Reaches(c), NEW i \in Streamed(s[c] \intersect h[c], F, F)
      PROVE  i \in n[c]
  <2>1. /\ i \in F
        /\ \/ TypeOf(i) \in s[c] \intersect h[c]
           \/ i = context /\ Context \in s[c] \intersect h[c]
    BY <1>2 DEF Streamed
  <2>2. CASE i \in S
    BY <1>1, <1>2, <2>1, <2>2 DEF Streamed
  <2>3. CASE i \notin S
    <3>1. i \in Streamed(s[c] \intersect h[c], E, E)
      BY <2>1, <2>3 DEF Streamed
    <3>2. i \in t[c]
      BY <1>2, <3>1 DEF UpToDate
    <3> QED BY <1>1, <2>3, <3>2
  <2> QED BY <2>2, <2>3
<1>3. n \in [Component -> SUBSET Item]
  BY <1>1 DEF NotifyStreamObservers
<1> QED BY <1>2, <1>3 DEF UpToDate

\* A request is over, or its deletion to be confirmed.
LEMMA EndsKeeps ==
  ASSUME NEW D, NEW v, NEW S, NEW w \in From(v, D, S), NEW r \in S \intersect D,
         NEW status \in {"asked", "confirming", "over"}
  PROVE  Ends(w, r, status) \in From(v, D, S)
<1> DEFINE u == Ends(w, r, status)
<1>1. w \in Worlds(D) /\ w.requests[r] \in Request /\ w.requests \in [D -> Request]
  BY DEF From, Worlds
<1>2. /\ u.streams = w.streams /\ u.heard = w.heard /\ u.items = w.items /\ u.told = w.told
      /\ u.perms = w.perms /\ u.excess = w.excess
      /\ u.requests = [w.requests EXCEPT ![r].status = status]
      /\ u = [streams |-> u.streams, heard |-> u.heard, requests |-> u.requests,
              items |-> u.items, told |-> u.told, perms |-> u.perms, excess |-> u.excess]
  BY <1>1 DEF Ends, Worlds
<1>3. u.requests \in [D -> Request]
  <2>1. [w.requests[r] EXCEPT !.status = status] \in Request
    BY <1>1 DEF Request
  <2> QED BY <1>1, <1>2, <2>1
<1>4. \A p \in D : /\ u.requests[p].comp = w.requests[p].comp
                   /\ u.requests[p].need = w.requests[p].need
                   /\ p # r => u.requests[p] = w.requests[p]
  BY <1>1, <1>2 DEF Request
<1>5. u \in Worlds(D)
  BY <1>1, <1>2, <1>3 DEF Worlds
<1> HIDE DEF u
<1>6. /\ u.perms = v.perms /\ u.excess = v.excess /\ v.items \subseteq u.items
      /\ UpToDate(u.told, u.streams, u.heard, u.items)
  BY <1>2 DEF From
<1>7. \A p \in D : /\ u.requests[p].comp = v.requests[p].comp
                   /\ u.requests[p].need = v.requests[p].need
                   /\ p \notin S => u.requests[p] = v.requests[p]
  BY <1>4 DEF From
<1>8. u \in From(v, D, S)
  BY <1>5, <1>6, <1>7 DEF From
<1> QED BY <1>8 DEF u

\* Everything but what the windows observe and are told.
LEMMA TellingKeeps ==
  ASSUME NEW D, NEW v, NEW S, NEW w \in From(v, D, S), NEW u \in Worlds(D),
         u.requests = w.requests, u.perms = w.perms, u.excess = w.excess,
         w.items \subseteq u.items, UpToDate(u.told, u.streams, u.heard, u.items)
  PROVE  u \in From(v, D, S)
BY DEF From

\* Items are saved, and their observers notified.
LEMMA ChangesKeeps ==
  ASSUME NEW D, NEW v, NEW S, NEW w \in From(v, D, S), NEW T \in SUBSET Item, NEW source
  PROVE  Changes(w, T, source) \in From(v, D, S)
<1> DEFINE u == Changes(w, T, source)
           n == NotifyStreamObservers(w.told, w.streams, T, w.items \union T, source)
<1>1. w \in Worlds(D) /\ UpToDate(w.told, w.streams, w.heard, w.items)
  BY DEF From
<1>2. /\ n \in [Component -> SUBSET Item]
      /\ UpToDate(n, w.streams, w.heard, w.items \union T)
  <2>1. /\ w.told \in [Component -> SUBSET Item] /\ w.streams \in [Component -> SUBSET Atom]
        /\ w.heard \in [Component -> SUBSET Atom] /\ w.items \in SUBSET Item
        /\ w.items \union T \in SUBSET Item
    BY <1>1 DEF Worlds
  <2> QED BY <1>1, <2>1, NotifyKeeps
<1>3. u = [streams |-> w.streams, heard |-> w.heard, requests |-> w.requests,
           items |-> w.items \union T, told |-> n, perms |-> w.perms, excess |-> w.excess]
  <2>1. u = [w EXCEPT !.items = w.items \union T, !.told = n]
    BY <1>1 DEF Changes, Worlds
  <2> HIDE DEF u, n
  <2> QED BY <1>1, <2>1 DEF Worlds
<1> HIDE DEF u, n
<1>4. u \in Worlds(D)
  BY <1>1, <1>2, <1>3 DEF Worlds
<1>5. u \in From(v, D, S)
  BY <1>2, <1>3, <1>4, TellingKeeps
<1> QED BY <1>5 DEF u

\* A window starts to stream, and is sent what is there.
LEMMA ObserveKeeps ==
  ASSUME NEW D, NEW v, NEW S, NEW w \in From(v, D, S), NEW c \in Component,
         NEW s \in SUBSET Atom
  PROVE  Observe(w, c, s) \in From(v, D, S)
<1> DEFINE u == Observe(w, c, s)
           t == IF w.streams[c] \intersect s # {} THEN w.streams[c] ELSE w.streams[c] \union s
<1>1. w \in Worlds(D) /\ UpToDate(w.told, w.streams, w.heard, w.items)
  BY DEF From
<1>2. /\ w.told \in [Component -> SUBSET Item] /\ w.streams \in [Component -> SUBSET Atom]
      /\ w.heard \in [Component -> SUBSET Atom] /\ w.items \in SUBSET Item
  BY <1>1 DEF Worlds
<1>3. /\ u.streams = [w.streams EXCEPT ![c] = t]
      /\ u.heard = [w.heard EXCEPT ![c] = @ \union s]
      /\ u.told = [w.told EXCEPT ![c] = @ \union Pushed(c, s, w.items)]
      /\ u.items = w.items /\ u.requests = w.requests /\ u.perms = w.perms
      /\ u.excess = w.excess
      /\ u = [streams |-> u.streams, heard |-> u.heard, requests |-> u.requests,
              items |-> u.items, told |-> u.told, perms |-> u.perms, excess |-> u.excess]
  <2>1. u = [w EXCEPT !.streams = [w.streams EXCEPT ![c] = t],
                      !.heard = [w.heard EXCEPT ![c] = @ \union s],
                      !.told = [w.told EXCEPT ![c] = @ \union Pushed(c, s, w.items)]]
    BY <1>1 DEF Observe, Worlds
  <2> HIDE DEF u, t
  <2> QED BY <1>1, <2>1 DEF Worlds
<1>4. /\ t \in SUBSET Atom /\ t \subseteq w.streams[c] \union s
      /\ Pushed(c, s, w.items) \subseteq Item
  BY <1>2 DEF Pushed, Streamed
<1> HIDE DEF u, t
<1>5. u \in Worlds(D)
  BY <1>1, <1>2, <1>3, <1>4 DEF Worlds
<1>6. ASSUME NEW d \in Component, Reaches(d),
             NEW i \in Streamed(u.streams[d] \intersect u.heard[d], u.items, u.items)
      PROVE  i \in u.told[d]
  <2>1. CASE d # c
    BY <1>1, <1>2, <1>3, <1>6, <2>1 DEF UpToDate
  <2>2. CASE d = c
    <3>1. u.streams[c] \intersect u.heard[c] \subseteq (w.streams[c] \intersect w.heard[c]) \union s
      BY <1>2, <1>3, <1>4
    <3>2. \/ i \in Streamed(w.streams[c] \intersect w.heard[c], w.items, w.items)
          \/ i \in Streamed(s, w.items, w.items)
      BY <1>3, <1>6, <2>2, <3>1 DEF Streamed
    <3>3. i \in w.told[c] \/ i \in Pushed(c, s, w.items)
      BY <1>1, <1>6, <2>2, <3>2 DEF UpToDate, Pushed
    <3> QED BY <1>2, <1>3, <2>2, <3>3
  <2> QED BY <2>1, <2>2
<1>7. u \in From(v, D, S)
  <2>1. UpToDate(u.told, u.streams, u.heard, u.items)
    BY <1>6 DEF UpToDate
  <2> QED BY <1>3, <1>5, <2>1, TellingKeeps
<1> QED BY <1>7 DEF u

\* An action that is carried out with the permissions it needs.
LEMMA RunKeeps ==
  ASSUME NEW D, NEW v, NEW S, NEW w \in From(v, D, S), NEW r \in S \intersect D,
         v.requests[r].need \subseteq v.perms[v.requests[r].comp]
  PROVE  Run(w, r) \in From(v, D, S)
<1> DEFINE q == w.requests[r]
           c == q.comp
           u == [w EXCEPT !.excess = @ \union (q.need \ w.perms[c])]
<1>1. /\ w \in Worlds(D) /\ q \in Request /\ q.need \subseteq w.perms[c]
      /\ c \in Component /\ q.need \in SUBSET Atom /\ q.items \in SUBSET Item
  <2>1. w \in Worlds(D) /\ q \in Request
    BY DEF From, Worlds
  <2>2. q.comp = v.requests[r].comp /\ q.need = v.requests[r].need /\ w.perms = v.perms
    BY DEF From
  <2> QED BY <2>1, <2>2 DEF Request
<1>2. u = w
  <2>1. q.need \ w.perms[c] = {}
    BY <1>1
  <2>2. w.excess \union {} = w.excess
    OBVIOUS
  <2>3. w = [w EXCEPT !.excess = w.excess]
    BY <1>1 DEF Worlds
  <2> QED BY <2>1, <2>2, <2>3
<1>3. /\ Observe(w, c, q.need) \in From(v, D, S) /\ Changes(w, q.items, c) \in From(v, D, S)
      /\ \A i \in Item : Changes(w, {i}, None) \in From(v, D, S)
  BY <1>1, ObserveKeeps, ChangesKeeps
<1>4. /\ Ends(Observe(w, c, q.need), r, "over") \in From(v, D, S)
      /\ Ends(Changes(w, q.items, c), r, "over") \in From(v, D, S)
      /\ \A i \in Item : Ends(Changes(w, {i}, None), r, "over") \in From(v, D, S)
      /\ Ends(w, r, "over") \in From(v, D, S) /\ Ends(w, r, "confirming") \in From(v, D, S)
  BY <1>3, EndsKeeps
<1> DEFINE copies == {i \in Item \ w.items : \E j \in q.items : TypeOf(i) = TypeOf(j)}
<1>5. copies # {} => (CHOOSE i \in copies : TRUE) \in Item
  OBVIOUS
<1>6. Run(w, r) \in {Ends(Observe(w, c, q.need), r, "over"), Ends(w, r, "over"),
                     Ends(Changes(w, q.items, c), r, "over"), Ends(w, r, "confirming"),
                     IF copies = {} THEN Ends(w, r, "over")
                     ELSE Ends(Changes(w, {CHOOSE i \in copies : TRUE}, None), r, "over")}
  <2>1. q.kind \in {"stream", "stream-context", "save", "duplicate", "delete", "permissions"}
    BY <1>1, KindAssumption DEF Request
  <2> QED BY Zenon, <1>2, <2>1 DEF Run
<1> QED BY <1>4, <1>5, <1>6

-------------------------------------------------------------------------------
(***************************************************************************)
(* Requests and dialogs.  PromptInv is what every step keeps: whoever      *)
(* waits was asked about all it lacks, the dialogs are on the screen in    *)
(* turn, and the windows have been told what they stream.                  *)
(***************************************************************************)
\* The permissions components have.
Perms == [c \in Component |-> components[c].perms]

\* Types; requests are numbered as long as the bound lasts.
PromptTypes ==
  /\ components \in [Component -> [present : BOOLEAN, perms : SUBSET Atom, object : Nat]]
  /\ windows \in [Component -> Window]
  /\ streams \in [Component -> SUBSET Atom] /\ heard \in [Component -> SUBSET Atom]
  /\ told \in [Component -> SUBSET Item]
  /\ left \in [{"requests", "events", "toggles"} -> Nat] /\ left.requests <= MaxRequests
  /\ requests \in [DOMAIN requests -> Request]
  /\ DOMAIN requests \subseteq 1..(MaxRequests - left.requests)
  /\ dialogs \in Seq(DOMAIN requests)
  /\ shown \in [1..MaxRequests -> Nat]
  /\ items \in SUBSET Item /\ context \in items \union {None}

\* Whoever waits has what it asked for but for what it waits for.
Waiting ==
  \A p \in ToSet(dialogs) :
    /\ requests[p].status = "asked"
    /\ requests[p].need \subseteq requests[p].missing \union Perms[requests[p].comp]

\* The inductive invariant.
PromptInv ==
  PromptTypes /\ Waiting /\ RunsWithPermission /\ WaitingIsShown /\ StreamsAreCurrent

\* Nothing is asked, shown or streamed yet.
LEMMA InitPrompts == Init => PromptInv
<1> SUFFICES ASSUME Init PROVE PromptInv
  OBVIOUS
<1>1. ToSet(dialogs) = {} /\ dialogs = <<>>
  BY DEF Init, ToSet
<1>2. DOMAIN requests = {}
  BY DEF Init
<1>3. NoState \in Window /\ NoState.id = 0
  BY DEF NoState, Window
<1>4. left \in [{"requests", "events", "toggles"} -> Nat] /\ left.requests = MaxRequests
  BY BoundAssumption DEF Init
<1>5. items \in SUBSET Item /\ context \in items \union {None}
  BY DEF Init, Item
<1>6. components \in [Component -> [present : BOOLEAN, perms : SUBSET Atom, object : Nat]]
  BY DEF Init
<1>7. PromptTypes
  BY <1>1, <1>2, <1>3, <1>4, <1>5, <1>6, BoundAssumption DEF Init, PromptTypes
<1>8. StreamsAreCurrent
  BY <1>3 DEF Init, StreamsAreCurrent, Reaches
<1> QED BY <1>1, <1>7, <1>8 DEF PromptInv, Waiting, RunsWithPermission, WaitingIsShown, Init

\* What a step keeps that neither asks nor answers.
LEMMA OthersPrompt ==
  ASSUME PromptInv, UNCHANGED <<requests, dialogs, shown, excess>>,
         PromptTypes', StreamsAreCurrent',
         \A c \in Component : /\ components'[c].perms = components[c].perms
                              /\ components'[c].present => components[c].present
  PROVE  PromptInv'
<1>1. \A p \in ToSet(dialogs) : requests[p].comp \in Component
  BY DEF PromptInv, PromptTypes, ToSet, Request
<1>2. ToSet(dialogs)' = ToSet(dialogs)
  BY DEF ToSet
<1>3. Waiting'
  BY <1>1, <1>2 DEF PromptInv, Waiting, Perms
<1>4. WaitingIsShown'
  BY <1>1, <1>2 DEF PromptInv, WaitingIsShown
<1> QED BY <1>3, <1>4 DEF PromptInv, RunsWithPermission

\* What becomes of the state the actions leave.
LEMMA BecomesKeeps ==
  ASSUME PromptTypes, NEW D, NEW w \in Worlds(D), NEW s, Becomes(w, s), UNCHANGED windows,
         items \subseteq w.items, UpToDate(w.told, w.streams, w.heard, w.items)
  PROVE  /\ requests' \in [DOMAIN requests' -> Request] /\ DOMAIN requests' \subseteq D
         /\ \A p \in D : w.requests[p].status # "over" =>
                           p \in DOMAIN requests' /\ requests'[p] = w.requests[p]
         /\ streams' \in [Component -> SUBSET Atom] /\ heard' \in [Component -> SUBSET Atom]
         /\ told' \in [Component -> SUBSET Item]
         /\ items' \in SUBSET Item /\ context' \in items' \union {None}
         /\ excess' = w.excess /\ shown' = s
         /\ StreamsAreCurrent'
<1>1. /\ requests' = Keep(w.requests, s) /\ shown' = s /\ streams' = w.streams
      /\ heard' = w.heard /\ excess' = w.excess /\ items' = w.items /\ told' = w.told
      /\ context' = IF context \in w.items THEN context ELSE None
  BY DEF Becomes
<1>2. /\ w.requests \in [D -> Request] /\ w.items \in SUBSET Item
      /\ w.streams \in [Component -> SUBSET Atom] /\ w.heard \in [Component -> SUBSET Atom]
      /\ w.told \in [Component -> SUBSET Item]
  BY DEF Worlds
<1>3. /\ requests' \in [DOMAIN requests' -> Request] /\ DOMAIN requests' \subseteq D
      /\ \A p \in D : w.requests[p].status # "over" =>
                        p \in DOMAIN requests' /\ requests'[p] = w.requests[p]
  BY <1>1, <1>2 DEF Keep, StillOf
<1>4. context' = context /\ context \in w.items \union {None}
  BY <1>1, <1>2, SortAssumption DEF PromptTypes
<1>5. StreamsAreCurrent'
  BY <1>1, <1>4 DEF StreamsAreCurrent, UpToDate, Reaches, Streamed
<1> QED BY <1>1, <1>2, <1>3, <1>4, <1>5

\* World, while requests are being made.
LEMMA WorldIs ==
  ASSUME PromptInv
  PROVE  /\ World \in Worlds(DOMAIN requests) /\ World.requests = requests
         /\ World.items = items /\ World.excess = {} /\ World.perms = Perms
         /\ UpToDate(World.told, World.streams, World.heard, World.items)
<1>1. /\ World.streams = streams /\ World.heard = heard /\ World.requests = requests
      /\ World.items = items /\ World.told = told /\ World.excess = excess /\ World.perms = Perms
  BY DEF World, Perms
<1>2. Perms \in [Component -> SUBSET Atom] /\ excess = {}
  BY DEF PromptInv, PromptTypes, Perms, RunsWithPermission
<1>3. World \in Worlds(DOMAIN requests)
  BY <1>2 DEF World, Worlds, PromptInv, PromptTypes, Perms
<1>4. UpToDate(told, streams, heard, items)
  BY DEF PromptInv, StreamsAreCurrent, UpToDate
<1> QED BY <1>1, <1>2, <1>3, <1>4

\* The bounds that a step leaves.
LEMMA SpendIs ==
  ASSUME PromptTypes, NEW kind \in {"requests", "events", "toggles"},
         Spend(kind) \/ UNCHANGED left
  PROVE  /\ left' \in [{"requests", "events", "toggles"} -> Nat]
         /\ left'.requests <= left.requests /\ left.requests \in Nat
         /\ kind # "requests" => left'.requests = left.requests
         /\ Spend("requests") =>
              left'.requests = left.requests - 1 /\ left.requests # 0
<1>1. left \in [{"requests", "events", "toggles"} -> Nat]
  BY Zenon DEF PromptTypes
<1>2. ASSUME Spend("requests")
      PROVE  left'.requests = left.requests - 1 /\ left.requests # 0
  <2>1. /\ left' = [left EXCEPT !["requests"] = left["requests"] - 1]
        /\ left["requests"] \in Nat /\ left["requests"] > 0
    BY <1>1, <1>2 DEF Spend
  <2> QED BY <1>1, <2>1
<1>3. CASE Spend(kind)
  <2>1. left[kind] \in Nat /\ left[kind] > 0 /\ left' = [left EXCEPT ![kind] = left[kind] - 1]
    BY <1>1, <1>3 DEF Spend
  <2>2. left[kind] - 1 \in Nat
    BY <2>1
  <2>3. left' \in [{"requests", "events", "toggles"} -> Nat]
    BY <1>1, <2>1, <2>2
  <2>4. CASE kind = "requests"
    BY <1>1, <1>2, <2>1, <2>3, <2>4
  <2>5. CASE kind # "requests"
    BY <1>1, <1>2, <2>1, <2>3, <2>5
  <2> QED BY <1>1, <2>3, <2>4, <2>5
<1>4. CASE UNCHANGED left
  BY <1>1, <1>2, <1>4
<1> QED BY <1>3, <1>4

\* A message asks: it is carried out at once, or waits, with a dialog or behind one.
LEMMA AskingPrompts ==
  ASSUME PromptInv, NEW c \in Component, NEW kind \in Kinds, NEW S \in SUBSET Item,
         NEW need \in SUBSET Atom, RunWithPermissions(c, kind, S, need),
         UNCHANGED <<components, windows>>
  PROVE  PromptInv'
<1> DEFINE q == [comp |-> c, object |-> components[c].object, kind |-> kind, items |-> S,
                 need |-> need, missing |-> Missing(c, need), status |-> "asked"]
           all == [p \in DOMAIN requests \union {MaxRequests - left.requests + 1} |->
                     IF p = MaxRequests - left.requests + 1 THEN q ELSE requests[p]]
           w == [World EXCEPT !.requests = all]
<1> PICK r : r = MaxRequests - left.requests + 1
  OBVIOUS
<1> PICK D : D = DOMAIN requests \union {r}
  OBVIOUS
<1>1. /\ Spend("requests")
      /\ \/ q.missing = {} /\ Becomes(Run(w, r), shown) /\ UNCHANGED dialogs
         \/ /\ q.missing # {} /\ dialogs' = Append(dialogs, r)
            /\ Becomes(w, IF \E p \in ToSet(dialogs) : SameComponent(requests[p], q)
                          THEN shown ELSE [shown EXCEPT ![r] = 1])
  BY Zenon DEF RunWithPermissions, World
<1>2. /\ left' \in [{"requests", "events", "toggles"} -> Nat]
      /\ left'.requests = left.requests - 1 /\ left.requests \in Nat /\ left.requests # 0
      /\ left.requests <= MaxRequests /\ MaxRequests \in Nat
  <2>1. PromptTypes /\ left.requests <= MaxRequests /\ MaxRequests \in Nat
    BY BoundAssumption DEF PromptInv, PromptTypes
  <2> QED BY Zenon, <1>1, <2>1, SpendIs
<1>3. /\ r \in 1..MaxRequests /\ r \notin DOMAIN requests
      /\ D \subseteq 1..(MaxRequests - left'.requests) /\ left'.requests <= MaxRequests
  BY SMTT(40), <1>2 DEF PromptInv, PromptTypes
<1>4. q \in Request /\ q.need \subseteq q.missing \union Perms[c]
  BY DEF PromptInv, PromptTypes, Request, Missing, Perms
<1>5. /\ all \in [D -> Request] /\ all[r] = q
      /\ \A p \in DOMAIN requests : all[p] = requests[p]
  <2> HIDE DEF q
  <2> QED BY <1>3, <1>4 DEF PromptInv, PromptTypes
<1> HIDE DEF all
<1>6. /\ w \in Worlds(D) /\ w.requests = all /\ w.items = items /\ w.excess = {}
      /\ w.perms = Perms /\ UpToDate(w.told, w.streams, w.heard, w.items)
  <2>1. World \in Worlds(DOMAIN requests)
    BY WorldIs
  <2>2. /\ w.streams = World.streams /\ w.heard = World.heard /\ w.requests = all
        /\ w.items = World.items /\ w.told = World.told /\ w.excess = World.excess
        /\ w.perms = World.perms
        /\ w = [streams |-> World.streams, heard |-> World.heard, requests |-> all,
                items |-> World.items, told |-> World.told, perms |-> World.perms,
                excess |-> World.excess]
    BY <2>1 DEF Worlds
  <2>3. w \in Worlds(D)
    BY <1>5, <2>1, <2>2 DEF Worlds
  <2> QED BY <2>2, <2>3, WorldIs
<1> HIDE DEF w
<1>7. ASSUME NEW u \in From(w, D, {r}), NEW s, Becomes(u, s)
      PROVE  /\ requests' \in [DOMAIN requests' -> Request] /\ DOMAIN requests' \subseteq D
             /\ \A p \in ToSet(dialogs) : p \in DOMAIN requests' /\ requests'[p] = requests[p]
             /\ u.requests[r].status # "over" =>
                  r \in DOMAIN requests' /\ requests'[r] = u.requests[r]
             /\ streams' \in [Component -> SUBSET Atom] /\ heard' \in [Component -> SUBSET Atom]
             /\ told' \in [Component -> SUBSET Item]
             /\ items' \in SUBSET Item /\ context' \in items' \union {None}
             /\ excess' = {} /\ shown' = s
             /\ StreamsAreCurrent'
  <2>1. /\ u \in Worlds(D) /\ items \subseteq u.items /\ u.excess = {}
        /\ UpToDate(u.told, u.streams, u.heard, u.items)
        /\ \A p \in DOMAIN requests : u.requests[p] = requests[p]
    BY <1>3, <1>5, <1>6 DEF From
  <2>2. \A p \in ToSet(dialogs) : p \in DOMAIN requests /\ requests[p].status # "over"
    BY SMTT(40) DEF PromptInv, PromptTypes, Waiting, ToSet
  <2>3. PromptTypes
    BY DEF PromptInv
  <2> QED BY <1>7, <2>1, <2>2, <2>3, BecomesKeeps
<1>8. w \in From(w, D, {r})
  BY <1>6 DEF From
<1>9. CASE q.missing = {} /\ Becomes(Run(w, r), shown) /\ UNCHANGED dialogs
  <2>1. w.requests[r].need \subseteq w.perms[w.requests[r].comp]
    BY <1>4, <1>5, <1>6, <1>9
  <2>2. Run(w, r) \in From(w, D, {r})
    BY <1>8, <2>1, RunKeeps
  <2>3. /\ dialogs' \in Seq(DOMAIN requests') /\ shown' = shown
        /\ ToSet(dialogs)' = ToSet(dialogs)
    BY <1>7, <1>9, <2>2 DEF PromptInv, PromptTypes, ToSet
  <2>4. PromptTypes'
    BY <1>2, <1>3, <1>7, <1>9, <2>2, <2>3 DEF PromptInv, PromptTypes
  <2>5. Waiting'
    <3>1. Perms' = Perms
      BY DEF Perms
    <3>2. \A p \in ToSet(dialogs) : requests'[p] = requests[p]
      BY <1>7, <1>9, <2>2
    <3> QED BY <2>3, <3>1, <3>2 DEF PromptInv, Waiting
  <2>6. WaitingIsShown'
    BY <1>7, <1>9, <2>2, <2>3 DEF PromptInv, WaitingIsShown
  <2> QED BY <1>7, <1>9, <2>2, <2>4, <2>5, <2>6 DEF PromptInv, RunsWithPermission
<1>10. ASSUME NEW s, q.missing # {}, dialogs' = Append(dialogs, r), Becomes(w, s),
              s = IF \E p \in ToSet(dialogs) : SameComponent(requests[p], q)
                  THEN shown ELSE [shown EXCEPT ![r] = 1]
       PROVE  PromptInv'
  <2>1. requests'[r] = q /\ r \in DOMAIN requests'
    <3>1. w.requests[r] = q /\ q.status # "over"
      BY <1>5, <1>6
    <3> HIDE DEF q
    <3> QED BY <1>7, <1>8, <1>10, <3>1
  <2>2. ToSet(dialogs)' = ToSet(dialogs) \union {r} /\ dialogs' \in Seq(DOMAIN requests')
    <3>1. dialogs \in Seq(D) /\ dialogs \in Seq(ToSet(dialogs)) /\ r \in D
      BY DEF PromptInv, PromptTypes, ToSet
    <3>2. ToSet(dialogs') = ToSet(dialogs) \union {r}
      BY <1>10, <3>1, ToSetAppend
    <3>3. dialogs \in Seq(DOMAIN requests')
      BY <1>7, <1>8, <1>10, <3>1
    <3> QED BY <1>10, <2>1, <3>2, <3>3 DEF ToSet
  <2>3. shown' \in [1..MaxRequests -> Nat] /\ shown' = s
    <3>1. shown \in [1..MaxRequests -> Nat] /\ shown' = s
      BY <1>7, <1>8, <1>10 DEF PromptInv, PromptTypes
    <3>2. s = shown \/ s = [shown EXCEPT ![r] = 1]
      BY <1>10
    <3> QED BY <1>3, <3>1, <3>2
  <2>4. PromptTypes'
    BY <1>2, <1>3, <1>7, <1>8, <1>10, <2>2, <2>3 DEF PromptInv, PromptTypes
  <2>5. Waiting'
    <3>1. /\ q.status = "asked" /\ q.comp = c /\ q.need \subseteq q.missing \union Perms[c]
          /\ Perms' = Perms
      BY <1>4 DEF Perms
    <3> HIDE DEF q
    <3>2. \A p \in ToSet(dialogs) : requests'[p] = requests[p]
      BY <1>7, <1>8, <1>10
    <3> QED BY <2>1, <2>2, <3>1, <3>2 DEF PromptInv, Waiting
  <2>6. WaitingIsShown'
    <3>1. CASE \E p \in ToSet(dialogs) : SameComponent(requests[p], q)
      <4>1. shown' = shown
        BY <1>10, <2>3, <3>1
      <4>2. dialogs # <<>>
        BY <3>1 DEF ToSet
      <4>3. PICK p \in ToSet(dialogs) : shown[p] > 0 \/ ~components[requests[p].comp].present
        BY <4>2 DEF PromptInv, WaitingIsShown
      <4> QED BY <1>7, <1>8, <1>10, <2>2, <4>1, <4>3 DEF WaitingIsShown
    <3>2. CASE ~ \E p \in ToSet(dialogs) : SameComponent(requests[p], q)
      <4>1. shown'[r] = 1
        BY <1>3, <1>10, <2>3, <3>2 DEF PromptInv, PromptTypes
      <4>2. 1 > 0 /\ r \in ToSet(dialogs)'
        BY <2>2
      <4> QED BY <4>1, <4>2 DEF WaitingIsShown
    <3> QED BY <3>1, <3>2
  <2> QED BY <1>7, <1>8, <1>10, <2>4, <2>5, <2>6 DEF PromptInv, RunsWithPermission
<1> QED BY <1>1, <1>9, <1>10

\* The dialogs that an answer leaves.
LEMMA RemainingIs ==
  ASSUME PromptTypes, NEW r
  PROVE  /\ Remaining(r) \in Seq(DOMAIN requests)
         /\ ToSet(Remaining(r)) = ToSet(dialogs) \ Answered(r)
<1>1. /\ Remaining(r) \in Seq(DOMAIN requests)
      /\ ToSet(Remaining(r)) = ToSet(dialogs) \intersect (ToSet(dialogs) \ Answered(r))
  BY WhereElements DEF PromptTypes, Remaining
<1> QED BY <1>1

\* The next dialog is on the screen.
LEMMA PresentNextIs ==
  ASSUME PromptTypes, NEW r \in DOMAIN requests, shown[r] > 0, NEW d \in Seq(DOMAIN requests)
  PROVE  LET s == PresentNext(Closed(r), d)
         IN s \in [1..MaxRequests -> Nat] /\ (d # <<>> => d[1] \in ToSet(d) /\ s[d[1]] > 0)
<1>1. Closed(r) \in [1..MaxRequests -> Nat]
  <2>1. shown \in [1..MaxRequests -> Nat] /\ shown[r] - 1 \in Nat
    BY BoundAssumption DEF PromptTypes
  <2> QED BY <2>1 DEF Closed
<1>2. CASE d = <<>>
  BY <1>1, <1>2 DEF PresentNext
<1>3. CASE d # <<>>
  <2>1. d[1] \in DOMAIN requests /\ 1 \in DOMAIN d
    BY <1>3
  <2>2. d[1] \in 1..MaxRequests
    BY <2>1, BoundAssumption DEF PromptTypes
  <2>3. PresentNext(Closed(r), d) = [Closed(r) EXCEPT ![d[1]] = @ + 1]
    BY <1>3 DEF PresentNext
  <2>4. Closed(r)[d[1]] + 1 \in Nat /\ Closed(r)[d[1]] + 1 > 0
    BY <1>1, <2>2
  <2> QED BY <1>1, <1>3, <2>1, <2>2, <2>3, <2>4 DEF ToSet
<1> QED BY <1>2, <1>3

\* The user approves: those it answers have what they asked for, and run.
LEMMA ApprovingPrompts ==
  ASSUME PromptInv, NEW r \in DOMAIN requests, Approve(r)
  PROVE  PromptInv'
<1> DEFINE c == requests[r].comp
           run == Where(dialogs, Answered(r))
           D == DOMAIN requests
           v == [World EXCEPT !.perms[c] = components'[c].perms]
           s == PresentNext(Closed(r), Remaining(r))
<1>1. /\ shown[r] > 0
      /\ components' = [components EXCEPT ![c].perms = @ \union requests[r].missing,
                                          ![c].object = @ + 1]
      /\ dialogs' = Remaining(r)
      /\ Becomes(RunAll(v, run), s)
      /\ UNCHANGED <<windows, left>>
  BY DEF Approve
<1>2. /\ PromptTypes /\ requests[r] \in Request /\ c \in Component
      /\ requests[r].missing \subseteq Atom
  BY DEF PromptInv, PromptTypes, Request
<1>3. /\ components' \in [Component -> [present : BOOLEAN, perms : SUBSET Atom, object : Nat]]
      /\ components'[c].perms = components[c].perms \union requests[r].missing
      /\ components'[c].present = components[c].present
      /\ \A d \in Component \ {c} : components'[d] = components[d]
  <2> DEFINE C == [present : BOOLEAN, perms : SUBSET Atom, object : Nat]
             new == [components[c] EXCEPT !.perms = @ \union requests[r].missing,
                                          !.object = @ + 1]
  <2>1. components[c] \in C /\ components \in [Component -> C]
    BY <1>2 DEF PromptTypes
  <2>2. new \in C /\ new.perms = components[c].perms \union requests[r].missing
        /\ new.present = components[c].present
    <3>1. /\ components[c].perms \union requests[r].missing \in SUBSET Atom
          /\ components[c].object + 1 \in Nat
      BY <1>2, <2>1
    <3> QED BY <2>1, <3>1
  <2>3. components' = [components EXCEPT ![c] = new]
    BY <1>1, <1>2, <2>1
  <2> HIDE DEF C, new
  <2>4. components' \in [Component -> C] /\ components'[c] = new
        /\ \A d \in Component \ {c} : components'[d] = components[d]
    BY <1>2, <2>1, <2>2, <2>3
  <2> QED BY <2>2, <2>4 DEF C
<1>4. /\ Perms' \in [Component -> SUBSET Atom]
      /\ Perms'[c] = Perms[c] \union requests[r].missing
      /\ \A d \in Component : Perms[d] \subseteq Perms'[d]
      /\ Perms' = [Perms EXCEPT ![c] = components'[c].perms]
  BY <1>2, <1>3 DEF Perms
<1>5. /\ v \in Worlds(D) /\ v.requests = requests /\ v.items = items /\ v.excess = {}
      /\ v.perms = Perms' /\ UpToDate(v.told, v.streams, v.heard, v.items)
  <2>1. World \in Worlds(D) /\ World.perms = Perms
    BY WorldIs
  <2>2. /\ v.streams = World.streams /\ v.heard = World.heard /\ v.requests = World.requests
        /\ v.items = World.items /\ v.told = World.told /\ v.excess = World.excess
        /\ v.perms = Perms'
        /\ v = [streams |-> World.streams, heard |-> World.heard, requests |-> World.requests,
                items |-> World.items, told |-> World.told, perms |-> Perms',
                excess |-> World.excess]
    BY <1>4, <2>1 DEF Worlds
  <2> HIDE DEF v, D
  <2>3. v \in Worlds(D)
    BY <1>4, <2>1, <2>2 DEF Worlds
  <2> QED BY <2>2, <2>3, WorldIs
<1> HIDE DEF v
<1>6. run \in Seq(D) /\ ToSet(run) = ToSet(dialogs) \intersect Answered(r)
  BY <1>2, WhereElements DEF PromptTypes
<1>7. ASSUME NEW p \in ToSet(run)
      PROVE  p \in D /\ p \in Answered(r) /\ requests[p].need \subseteq Perms'[requests[p].comp]
  <2>1. p \in ToSet(dialogs) /\ p \in Answered(r) /\ p \in D /\ requests[p].comp \in Component
    BY SMTT(40), <1>2, <1>6, <1>7 DEF PromptTypes, ToSet, Request
  <2>2. requests[p].need \subseteq requests[p].missing \union Perms[requests[p].comp]
    BY <2>1 DEF PromptInv, Waiting
  <2>3. requests[p].comp = c /\ requests[p].missing \subseteq requests[r].missing
    <3>1. CASE p = r
      BY <3>1
    <3>2. CASE p # r
      <4>1. /\ SameComponent(requests[p], requests[r])
            /\ ContainsObjectSubset(requests[r].missing, requests[p].missing)
        BY <2>1, <3>2 DEF Answered
      <4> QED BY <4>1 DEF SameComponent, ContainsObjectSubset
    <3> QED BY <3>1, <3>2
  <2> QED BY <1>4, <2>1, <2>2, <2>3
<1>8. PICK w \in From(v, D, Answered(r)) : w = RunAll(v, run)
  <2>1. v \in From(v, D, Answered(r))
    BY <1>5 DEF From
  <2>2. ASSUME NEW w \in From(v, D, Answered(r)), NEW i \in 1..Len(run)
        PROVE  Run(w, run[i]) \in From(v, D, Answered(r))
    <3>1. run[i] \in ToSet(run)
      BY <1>6 DEF ToSet
    <3>2. /\ run[i] \in Answered(r) \intersect D
          /\ v.requests[run[i]].need \subseteq v.perms[v.requests[run[i]].comp]
      BY <1>5, <1>7, <3>1
    <3> QED BY <3>2, RunKeeps
  <2> HIDE DEF run
  <2> QED BY <1>6, <2>1, <2>2, RunAllKeeps
<1>9. /\ w \in Worlds(D) /\ items \subseteq w.items /\ w.excess = {}
      /\ UpToDate(w.told, w.streams, w.heard, w.items)
      /\ \A p \in D \ Answered(r) : w.requests[p] = requests[p]
  BY <1>5, <1>8 DEF From
<1>10. /\ requests' \in [DOMAIN requests' -> Request] /\ DOMAIN requests' \subseteq D
       /\ \A p \in D : w.requests[p].status # "over" =>
                         p \in DOMAIN requests' /\ requests'[p] = w.requests[p]
       /\ streams' \in [Component -> SUBSET Atom] /\ heard' \in [Component -> SUBSET Atom]
       /\ told' \in [Component -> SUBSET Item]
       /\ items' \in SUBSET Item /\ context' \in items' \union {None}
       /\ excess' = {} /\ shown' = s
       /\ StreamsAreCurrent'
  BY <1>1, <1>2, <1>8, <1>9, BecomesKeeps
<1>11. /\ dialogs' \in Seq(D) /\ ToSet(dialogs)' = ToSet(dialogs) \ Answered(r)
       /\ ToSet(dialogs) \subseteq D
  <2>1. ToSet(dialogs)' = ToSet(Remaining(r))
    BY <1>1 DEF ToSet
  <2>2. ToSet(dialogs) \subseteq D
    BY <1>2 DEF ToSet, PromptTypes
  <2> QED BY <1>1, <1>2, <2>1, <2>2, RemainingIs
<1>12. ASSUME NEW p \in ToSet(dialogs)'
       PROVE  /\ p \in DOMAIN requests' /\ requests'[p] = requests[p]
              /\ p \in ToSet(dialogs) /\ requests[p].comp \in Component
  <2>1. p \in ToSet(dialogs) /\ p \in D \ Answered(r)
    BY <1>11, <1>12
  <2>2. requests[p].status = "asked" /\ requests[p] \in Request
    BY <1>2, <2>1 DEF PromptInv, Waiting, PromptTypes
  <2> QED BY <1>9, <1>10, <2>1, <2>2 DEF Request
<1>13. /\ dialogs' \in Seq(DOMAIN requests') /\ shown' \in [1..MaxRequests -> Nat]
       /\ dialogs' # <<>> => \E p \in ToSet(dialogs)' : shown'[p] > 0
  <2>1. dialogs' \in Seq(ToSet(dialogs)')
    BY <1>11 DEF ToSet
  <2>2. dialogs' \in Seq(DOMAIN requests')
    BY <1>12, <2>1
  <2> QED BY <1>1, <1>2, <1>10, <1>11, <2>2, PresentNextIs DEF ToSet
<1>14. PromptTypes'
  BY <1>1, <1>2, <1>3, <1>10, <1>13 DEF PromptTypes
<1>15. Waiting'
  BY <1>4, <1>12 DEF PromptInv, Waiting
<1>16. WaitingIsShown'
  BY <1>13 DEF WaitingIsShown
<1> QED BY <1>10, <1>14, <1>15, <1>16 DEF PromptInv, RunsWithPermission

\* Answers and confirmations that carry nothing out: what waits stays as it is.
LEMMA ClosingPrompts ==
  ASSUME PromptInv, UNCHANGED <<components, windows, streams, heard, excess, left>>,
         NEW q \in [DOMAIN requests -> Request], NEW s \in [1..MaxRequests -> Nat],
         requests' = Keep(q, s), shown' = s,
         dialogs' \in Seq(DOMAIN requests), ToSet(dialogs)' \subseteq ToSet(dialogs),
         \A p \in ToSet(dialogs)' : q[p] = requests[p],
         dialogs' # <<>> =>
           \E p \in ToSet(dialogs)' : s[p] > 0 \/ ~components[requests[p].comp].present,
         told' \in [Component -> SUBSET Item], items' \in SUBSET Item,
         context' \in items' \union {None}, StreamsAreCurrent'
  PROVE  PromptInv'
<1>1. ASSUME NEW p \in ToSet(dialogs)'
      PROVE  /\ p \in DOMAIN requests' /\ requests'[p] = requests[p] /\ p \in ToSet(dialogs)
  <2>1. p \in ToSet(dialogs) /\ p \in DOMAIN requests /\ q[p] = requests[p]
    <3>1. ToSet(dialogs) \subseteq DOMAIN requests
      BY DEF PromptInv, PromptTypes, ToSet
    <3> QED BY <1>1, <3>1
  <2>2. q[p].status # "over"
    BY <2>1 DEF PromptInv, Waiting
  <2> QED BY <2>1, <2>2 DEF Keep, StillOf
<1>2. requests' \in [DOMAIN requests' -> Request] /\ DOMAIN requests' \subseteq DOMAIN requests
  BY DEF Keep, StillOf
<1>3. dialogs' \in Seq(DOMAIN requests')
  <2>1. dialogs' \in Seq(ToSet(dialogs)')
    BY DEF ToSet
  <2> QED BY <1>1, <2>1
<1>4. PromptTypes'
  BY <1>2, <1>3 DEF PromptInv, PromptTypes
<1>5. Waiting'
  <2>1. Perms' = Perms
    BY DEF Perms
  <2> QED BY <1>1, <2>1 DEF PromptInv, Waiting
<1>6. WaitingIsShown'
  BY <1>1 DEF PromptInv, WaitingIsShown
<1> QED BY <1>4, <1>5, <1>6 DEF PromptInv, RunsWithPermission

\* The user denies, or approves of what a component that is gone asked for.
LEMMA DenyingPrompts ==
  ASSUME PromptInv, NEW r \in DOMAIN requests, Deny(r) \/ ApproveRemoved(r)
  PROVE  PromptInv'
<1>1. PromptTypes /\ ToSet(dialogs) \subseteq DOMAIN requests
  BY DEF PromptInv, PromptTypes, ToSet
<1>2. /\ UNCHANGED <<components, windows, streams, heard, excess, left, told, items, context>>
      /\ StreamsAreCurrent'
  BY DEF Deny, ApproveRemoved, PromptInv, StreamsAreCurrent, Reaches, Streamed, manager, data
<1>3. CASE Deny(r)
  <2> DEFINE s == PresentNext(Closed(r), Remaining(r))
             q == [p \in DOMAIN requests |->
                     IF p \in Answered(r) THEN [requests[p] EXCEPT !.status = "over"]
                     ELSE requests[p]]
  <2>1. shown[r] > 0 /\ requests' = Keep(q, s) /\ dialogs' = Remaining(r) /\ shown' = s
    BY <1>3 DEF Deny
  <2>2. q \in [DOMAIN requests -> Request]
    <3>1. \A p \in DOMAIN requests : requests[p] \in Request
      BY <1>1 DEF PromptTypes
    <3>2. \A p \in DOMAIN requests : [requests[p] EXCEPT !.status = "over"] \in Request
      BY <3>1 DEF Request
    <3> QED BY <3>1, <3>2
  <2>3. /\ s \in [1..MaxRequests -> Nat]
        /\ Remaining(r) # <<>> => \E p \in ToSet(Remaining(r)) : s[p] > 0
    BY <1>1, <2>1, PresentNextIs, RemainingIs
  <2>4. /\ dialogs' \in Seq(DOMAIN requests) /\ ToSet(dialogs)' = ToSet(dialogs) \ Answered(r)
        /\ ToSet(dialogs)' = ToSet(Remaining(r))
    BY <1>1, <2>1, RemainingIs DEF ToSet
  <2>5. \A p \in ToSet(dialogs)' : q[p] = requests[p]
    BY <1>1, <2>4
  <2> HIDE DEF s, q
  <2> QED BY <1>1, <1>2, <2>1, <2>2, <2>3, <2>4, <2>5, ClosingPrompts DEF PromptTypes
<1>4. CASE ApproveRemoved(r)
  <2>1. /\ shown[r] > 0 /\ ~components[requests[r].comp].present
        /\ shown' = Closed(r) /\ requests' = Keep(requests, Closed(r)) /\ UNCHANGED dialogs
    BY <1>4 DEF ApproveRemoved
  <2>2. /\ Closed(r) \in [1..MaxRequests -> Nat]
        /\ \A p \in DOMAIN requests : p # r => Closed(r)[p] = shown[p]
    <3>1. shown \in [1..MaxRequests -> Nat] /\ shown[r] - 1 \in Nat
      BY <1>1, <2>1, BoundAssumption DEF PromptTypes
    <3>2. DOMAIN requests \subseteq 1..MaxRequests
      BY <1>1, BoundAssumption DEF PromptTypes
    <3> QED BY <3>1, <3>2 DEF Closed
  <2>3. dialogs # <<>> =>
          \E p \in ToSet(dialogs) : Closed(r)[p] > 0 \/ ~components[requests[p].comp].present
    BY <1>1, <2>1, <2>2 DEF PromptInv, WaitingIsShown
  <2>4. ToSet(dialogs)' = ToSet(dialogs)
    BY <2>1 DEF ToSet
  <2> QED BY <1>1, <1>2, <2>1, <2>2, <2>3, <2>4, ClosingPrompts DEF PromptTypes
<1> QED BY <1>3, <1>4

\* Items change, and their observers are notified.
LEMMA ChangeKeeps ==
  ASSUME PromptInv, NEW S \in SUBSET Item, items' \in SUBSET Item,
         items' \subseteq items \union S,
         context' = IF context \in items' THEN context ELSE None,
         told' = NotifyStreamObservers(told, streams, S, items', None),
         UNCHANGED <<windows, streams, heard>>
  PROVE  /\ told' \in [Component -> SUBSET Item] /\ context' \in items' \union {None}
         /\ StreamsAreCurrent'
<1>1. PromptTypes /\ UpToDate(told, streams, heard, items)
  BY DEF PromptInv, StreamsAreCurrent, UpToDate
<1>2. told' \in [Component -> SUBSET Item] /\ UpToDate(told', streams, heard, items')
  BY <1>1, NotifyKeeps DEF PromptTypes
<1>3. context' = context \/ context' = None
  OBVIOUS
<1>4. ASSUME NEW c \in Component, Reaches(c)',
             NEW i \in Streamed(streams[c] \intersect heard[c], items, items)'
      PROVE  i \in told'[c]
  <2>1. Reaches(c)
    BY <1>4 DEF Reaches
  <2>2. i \in items' /\ i # None
    BY <1>4, SortAssumption DEF Streamed
  <2>3. i \in Streamed(streams[c] \intersect heard[c], items', items')
    BY <1>3, <1>4, <2>2 DEF Streamed
  <2> QED BY <1>2, <2>1, <2>3 DEF UpToDate
<1>5. StreamsAreCurrent'
  BY <1>4 DEF StreamsAreCurrent
<1> QED BY <1>2, <1>5

\* The user is asked again before items are deleted.
LEMMA ConfirmingPrompts ==
  ASSUME PromptInv, NEW r \in DOMAIN requests, ConfirmDelete(r)
  PROVE  PromptInv'
<1> DEFINE q == [requests EXCEPT ![r].status = "over"]
<1>1. PromptTypes /\ ToSet(dialogs) \subseteq DOMAIN requests
  BY DEF PromptInv, PromptTypes, ToSet
<1>2. /\ requests[r].status = "confirming" /\ requests' = Keep(q, shown)
      /\ UNCHANGED <<components, windows, streams, heard, excess, left, dialogs, shown>>
  BY DEF ConfirmDelete, manager
<1>3. /\ told' \in [Component -> SUBSET Item] /\ items' \in SUBSET Item
      /\ context' \in items' \union {None} /\ StreamsAreCurrent'
  <2>1. CASE UNCHANGED <<items, context, told>>
    BY <1>1, <1>2, <2>1 DEF PromptInv, PromptTypes, StreamsAreCurrent, Reaches, Streamed
  <2>2. CASE LET S == requests[r].items \intersect items
                 rest == items \ S
             IN /\ items' = rest
                /\ context' = IF context \in rest THEN context ELSE None
                /\ told' = NotifyStreamObservers(told, streams, S, rest, None)
    <3> DEFINE S == requests[r].items \intersect items
    <3>1. S \in SUBSET Item /\ items' \in SUBSET Item /\ items' \subseteq items \union S
      BY <1>1, <2>2 DEF PromptTypes
    <3> QED BY <1>2, <2>2, <3>1, ChangeKeeps
  <2> QED BY <2>1, <2>2 DEF ConfirmDelete
<1>4. q \in [DOMAIN requests -> Request] /\ \A p \in DOMAIN requests : p # r => q[p] = requests[p]
  <2> DEFINE over == [requests[r] EXCEPT !.status = "over"]
  <2>1. requests \in [DOMAIN requests -> Request] /\ requests[r] \in Request
    BY Zenon, <1>1 DEF PromptTypes
  <2>2. over \in Request
    BY <2>1 DEF Request
  <2>3. q = [requests EXCEPT ![r] = over]
    BY <2>1
  <2> HIDE DEF over, q
  <2> QED BY <2>1, <2>2, <2>3
<1>5. ToSet(dialogs)' = ToSet(dialogs) /\ \A p \in ToSet(dialogs) : q[p] = requests[p]
  BY <1>1, <1>2, <1>4 DEF PromptInv, Waiting, ToSet
<1> HIDE DEF q
<1>6. dialogs # <<>> =>
        \E p \in ToSet(dialogs) : shown[p] > 0 \/ ~components[requests[p].comp].present
  BY DEF PromptInv, WaitingIsShown
<1> QED BY <1>1, <1>2, <1>3, <1>4, <1>5, <1>6, ClosingPrompts DEF PromptTypes

\* A component is saved anew.
LEMMA SavedComponent ==
  ASSUME PromptTypes, NEW c \in Component, components' = [components EXCEPT ![c].object = @ + 1]
  PROVE  /\ components' \in
              [Component -> [present : BOOLEAN, perms : SUBSET Atom, object : Nat]]
         /\ \A d \in Component : /\ components'[d].perms = components[d].perms
                                 /\ components'[d].present = components[d].present
<1> DEFINE C == [present : BOOLEAN, perms : SUBSET Atom, object : Nat]
           new == [components[c] EXCEPT !.object = @ + 1]
<1>1. components \in [Component -> C]
  BY Zenon DEF PromptTypes
<1>2. components[c] \in C /\ components[c].object + 1 \in Nat
  BY <1>1
<1>3. /\ new \in C /\ new.perms = components[c].perms /\ new.present = components[c].present
      /\ components' = [components EXCEPT ![c] = new]
  BY <1>1, <1>2
<1> HIDE DEF C, new
<1>4. /\ components' \in [Component -> C] /\ components'[c] = new
      /\ \A d \in Component : d # c => components'[d] = components[d]
  BY <1>1, <1>3
<1> QED BY <1>3, <1>4 DEF C

\* A window sends a message.
LEMMA MessagingPrompts ==
  ASSUME PromptInv, NEW c \in Component, Messages(c)
  PROVE  PromptInv'
<1>1. ASSUME NEW kind, NEW S \in SUBSET Item, NEW need \in SUBSET Atom,
             Message(c, kind, S, need)
      PROVE  PromptInv'
  <2>1. /\ kind \in Kinds /\ RunWithPermissions(c, kind, S, need)
        /\ UNCHANGED <<components, windows>>
    BY <1>1 DEF Message
  <2> QED BY <2>1, AskingPrompts
<1>2. /\ "Tag" \in Atom /\ Context \in Atom /\ Tags \subseteq Item /\ items \subseteq Item
      /\ \A i \in Item : TypeOf(i) \in Atom
  BY Zenon DEF TypeOf, Atom, Item, PromptInv, PromptTypes
<1>3. CASE HandleStreamItemsMessage(c)
  BY <1>1, <1>2, <1>3 DEF HandleStreamItemsMessage
<1>4. CASE HandleStreamContextItemMessage(c)
  BY <1>1, <1>2, <1>4 DEF HandleStreamContextItemMessage
<1>5. CASE HandleSaveItemsMessage(c)
  <2>1. PICK S \in (SUBSET Item) \ {{}} :
          Message(c, "save", S, Inside(S) \union TypesOf(S \ {context}))
    BY <1>5 DEF HandleSaveItemsMessage
  <2>2. Inside(S) \subseteq Atom /\ TypesOf(S \ {context}) \subseteq Atom
    BY <1>2 DEF Inside, TypesOf
  <2> QED BY <1>1, <2>1, <2>2
<1>6. CASE HandleCreateItemsMessage(c) \/ HandleDuplicateItemMessage(c)
  <2>1. PICK i \in Item : \/ Message(c, "save", {i}, {TypeOf(i)})
                          \/ Message(c, "duplicate", {i}, {TypeOf(i)})
    BY <1>2, <1>6 DEF HandleCreateItemsMessage, HandleDuplicateItemMessage
  <2>2. {i} \in SUBSET Item /\ {TypeOf(i)} \in SUBSET Atom
    BY <1>2
  <2> QED BY <1>1, <2>1, <2>2
<1>7. CASE HandleDeleteItemsMessage(c)
  <2>1. PICK S \in SUBSET Tags : Message(c, "delete", S, {"Tag"})
    BY <1>7 DEF HandleDeleteItemsMessage
  <2>2. S \in SUBSET Item /\ {"Tag"} \in SUBSET Atom
    BY <1>2
  <2> QED BY <1>1, <2>1, <2>2
<1>8. CASE HandleRequestPermissionsMessage(c)
  <2>1. \/ Message(c, "permissions", {}, {Context})
        \/ Message(c, "permissions", {}, {Context, "Tag"})
    BY <1>8 DEF HandleRequestPermissionsMessage
  <2>2. {} \in SUBSET Item /\ {Context} \in SUBSET Atom /\ {Context, "Tag"} \in SUBSET Atom
    BY <1>2
  <2> QED BY <1>1, <2>1, <2>2
<1>9. CASE HandleSetComponentDataMessage(c)
  <2>1. /\ PromptTypes /\ Spend("events")
        /\ components' = [components EXCEPT ![c].object = @ + 1]
        /\ UNCHANGED <<windows, streams, heard, requests, dialogs, shown, items, context,
                       told, excess>>
    BY <1>9 DEF HandleSetComponentDataMessage, manager, prompts, data, PromptInv
  <2>2. /\ components' \in [Component -> [present : BOOLEAN, perms : SUBSET Atom, object : Nat]]
        /\ \A d \in Component : /\ components'[d].perms = components[d].perms
                                /\ components'[d].present = components[d].present
    BY <2>1, SavedComponent
  <2>3. PromptTypes'
    BY <2>1, <2>2, SpendIs DEF PromptTypes
  <2>4. StreamsAreCurrent'
    BY <2>1 DEF PromptInv, StreamsAreCurrent, Reaches, Streamed
  <2> QED BY <2>1, <2>2, <2>3, <2>4, OthersPrompt
<1> QED BY <1>3, <1>4, <1>5, <1>6, <1>7, <1>8, <1>9 DEF Messages

\* A window comes, goes, or is hidden or shown; another step concerns another component.
LEMMA WindowKeeps ==
  ASSUME PromptInv, NEW c \in Component, windows' \in [Component -> Window],
         streams' \in [Component -> SUBSET Atom], heard' \in [Component -> SUBSET Atom],
         told' \in [Component -> SUBSET Item], UNCHANGED <<items, context>>,
         \A d \in Component \ {c} :
           /\ windows'[d].id = windows[d].id /\ windows'[d].hidden = windows[d].hidden
           /\ streams'[d] = streams[d] /\ heard'[d] = heard[d] /\ told'[d] = told[d],
         Reaches(c)' =>
           Streamed(streams'[c] \intersect heard'[c], items, items) \subseteq told'[c]
  PROVE  StreamsAreCurrent'
<1>1. ASSUME NEW d \in Component, Reaches(d)'
      PROVE  Streamed(streams[d] \intersect heard[d], items, items)' \subseteq told'[d]
  <2>1. CASE d = c
    BY <1>1, <2>1 DEF Streamed
  <2>2. CASE d # c
    BY <1>1, <2>2 DEF PromptInv, StreamsAreCurrent, Reaches, Streamed
  <2> QED BY <2>1, <2>2
<1> QED BY <1>1 DEF StreamsAreCurrent

\* A window registers, goes, is hidden, shown or made read-only.
LEMMA WindowPrompts ==
  ASSUME PromptInv, BridgeInv, BridgeInv', NEW c \in Component, Windows(c)
  PROVE  PromptInv'
<1> USE DEF PromptTypes
<1>1. PromptTypes /\ windows' \in [Component -> Window]
  BY DEF PromptInv, BridgeInv
<1>2. UNCHANGED <<requests, dialogs, shown, excess, items, context>>
  BY DEF Windows, RegisterComponentWindow, OnComponentIframeDestroyed, DeactivateComponent,
         RemoveComponent, HideComponent, UnhideComponent, SetReadonlyState,
         DeregisterComponent, prompts, data
<1>3. left' \in [{"requests", "events", "toggles"} -> Nat] /\ left'.requests = left.requests
  <2>1. Spend("events") \/ UNCHANGED left
    BY DEF Windows, RegisterComponentWindow, OnComponentIframeDestroyed, DeactivateComponent,
           RemoveComponent, HideComponent, UnhideComponent, SetReadonlyState
  <2> QED BY <1>1, <2>1, SpendIs
<1>4. /\ components' \in [Component -> [present : BOOLEAN, perms : SUBSET Atom, object : Nat]]
      /\ \A d \in Component : /\ components'[d].perms = components[d].perms
                              /\ components'[d].present => components[d].present
  <2>1. \/ UNCHANGED components
        \/ components' = [components EXCEPT ![c].object = @ + 1]
        \/ \E b \in BOOLEAN : b = FALSE /\ components' = [components EXCEPT ![c].present = b]
    BY DEF Windows, RegisterComponentWindow, OnComponentIframeDestroyed, DeactivateComponent,
           RemoveComponent, HideComponent, UnhideComponent, SetReadonlyState
  <2>2. CASE UNCHANGED components
    BY <1>1, <2>2
  <2>3. CASE components' = [components EXCEPT ![c].object = @ + 1]
    BY <1>1, <2>3, SavedComponent
  <2>4. ASSUME NEW b \in BOOLEAN, b = FALSE, components' = [components EXCEPT ![c].present = b]
        PROVE  /\ components' \in
                   [Component -> [present : BOOLEAN, perms : SUBSET Atom, object : Nat]]
               /\ \A d \in Component : /\ components'[d].perms = components[d].perms
                                       /\ components'[d].present => components[d].present
    <3> DEFINE C == [present : BOOLEAN, perms : SUBSET Atom, object : Nat]
               new == [components[c] EXCEPT !.present = b]
    <3>1. components \in [Component -> C]
      BY Zenon, <1>1
    <3>2. /\ new \in C /\ new.perms = components[c].perms /\ ~new.present
          /\ components' = [components EXCEPT ![c] = new]
      BY <2>4, <3>1
    <3> HIDE DEF C, new
    <3>3. /\ components' \in [Component -> C] /\ components'[c] = new
          /\ \A d \in Component : d # c => components'[d] = components[d]
      BY <3>1, <3>2
    <3> QED BY <3>2, <3>3 DEF C
  <2> QED BY <2>1, <2>2, <2>3, <2>4
<1>5. /\ streams' \in [Component -> SUBSET Atom] /\ heard' \in [Component -> SUBSET Atom]
      /\ told' \in [Component -> SUBSET Item] /\ StreamsAreCurrent'
  <2>1. CASE RegisterComponentWindow(c)
    <3>1. /\ windows' = [windows EXCEPT ![c].id = windows'[c].id] /\ UNCHANGED streams
          /\ IF windows[c].id = 0
             THEN told' = [told EXCEPT ![c] = {}] /\ heard' = [heard EXCEPT ![c] = {}]
             ELSE UNCHANGED <<told, heard>>
      BY <1>1, <2>1 DEF RegisterComponentWindow, Window
    <3>2. told' \in [Component -> SUBSET Item] /\ heard' \in [Component -> SUBSET Atom]
      BY <1>1, <3>1
    <3>3. \A d \in Component \ {c} :
            /\ windows'[d].id = windows[d].id /\ windows'[d].hidden = windows[d].hidden
            /\ streams'[d] = streams[d] /\ heard'[d] = heard[d] /\ told'[d] = told[d]
      BY <1>1, <3>1
    <3>4. Reaches(c)' =>
            Streamed(streams'[c] \intersect heard'[c], items, items) \subseteq told'[c]
      <4>1. CASE windows[c].id = 0
        <5>1. heard'[c] = {}
          BY <1>1, <3>1, <4>1
        <5> QED BY <5>1 DEF Streamed
      <4>2. CASE windows[c].id # 0
        <5>1. windows'[c].hidden = windows[c].hidden
          BY <1>1, <3>1 DEF Window
        <5>2. UNCHANGED <<told, heard, streams>>
          BY <3>1, <4>2
        <5> QED BY <4>2, <5>1, <5>2 DEF PromptInv, StreamsAreCurrent, Reaches
      <4> QED BY <4>1, <4>2
    <3> QED BY <1>1, <1>2, <3>1, <3>2, <3>3, <3>4, WindowKeeps
  <2>2. CASE OnComponentIframeDestroyed(c) \/ DeactivateComponent(c) \/ RemoveComponent(c)
    <3>1. /\ windows' = [windows EXCEPT ![c] = NoState]
          /\ streams' = [streams EXCEPT ![c] = {}] /\ UNCHANGED <<heard, told>>
      BY <2>2 DEF OnComponentIframeDestroyed, DeactivateComponent, RemoveComponent,
                  DeregisterComponent
    <3>2. streams' \in [Component -> SUBSET Atom] /\ windows'[c] = NoState
      BY <1>1, <3>1
    <3>3. \A d \in Component \ {c} :
            /\ windows'[d].id = windows[d].id /\ windows'[d].hidden = windows[d].hidden
            /\ streams'[d] = streams[d] /\ heard'[d] = heard[d] /\ told'[d] = told[d]
      BY <1>1, <3>1
    <3>4. ~Reaches(c)'
      BY <3>2 DEF Reaches, NoState
    <3> QED BY <1>1, <1>2, <3>1, <3>2, <3>3, <3>4, WindowKeeps
  <2>3. CASE HideComponent(c)
    <3>1. windows' = [windows EXCEPT ![c].hidden = TRUE] /\ UNCHANGED <<streams, heard, told>>
      BY <2>3 DEF HideComponent
    <3>2. /\ windows'[c].hidden = TRUE
          /\ \A d \in Component \ {c} :
               windows'[d].id = windows[d].id /\ windows'[d].hidden = windows[d].hidden
      BY <1>1, <3>1 DEF Window
    <3>3. ~Reaches(c)'
      BY <3>2 DEF Reaches
    <3> QED BY <1>1, <1>2, <3>1, <3>2, <3>3, WindowKeeps
  <2>4. CASE UnhideComponent(c)
    <3> DEFINE more == IF windows[c].id # 0 THEN Streamed(streams[c], items, items) ELSE {}
    <3>1. /\ windows' = [windows EXCEPT ![c].hidden = FALSE] /\ UNCHANGED <<streams, heard>>
          /\ told' = [told EXCEPT ![c] = @ \union more]
      <4>1. windows[c].id = 0 => told = [told EXCEPT ![c] = @ \union {}]
        BY <1>1
      <4> QED BY <2>4, <4>1 DEF UnhideComponent
    <3>2. /\ windows'[c].id = windows[c].id
          /\ \A d \in Component \ {c} :
               windows'[d].id = windows[d].id /\ windows'[d].hidden = windows[d].hidden
      BY <1>1, <3>1 DEF Window
    <3>3. more \subseteq Item
      BY <1>1 DEF Streamed
    <3>4. Reaches(c)' => Streamed(streams[c] \intersect heard[c], items, items) \subseteq more
      BY <3>2 DEF Reaches, Streamed
    <3> HIDE DEF more
    <3>5. /\ told' \in [Component -> SUBSET Item] /\ more \subseteq told'[c]
          /\ \A d \in Component \ {c} : told'[d] = told[d]
      BY <1>1, <3>1, <3>3
    <3>6. Reaches(c)' =>
            Streamed(streams'[c] \intersect heard'[c], items, items) \subseteq told'[c]
      BY <3>1, <3>4, <3>5
    <3> QED BY <1>1, <1>2, <3>1, <3>2, <3>5, <3>6, WindowKeeps
  <2>5. CASE SetReadonlyState(c)
    <3>1. UNCHANGED <<streams, heard, told>>
      BY <2>5 DEF SetReadonlyState
    <3>2. \A d \in Component :
            windows'[d].id = windows[d].id /\ windows'[d].hidden = windows[d].hidden
      <4>1. PICK b : windows' = [windows EXCEPT ![c].readonly = b]
        BY <2>5, Zenon DEF SetReadonlyState
      <4> QED BY <1>1, <4>1 DEF Window
    <3> QED BY <1>1, <1>2, <3>1, <3>2 DEF PromptInv, StreamsAreCurrent, Reaches, Streamed
  <2> QED BY <2>1, <2>2, <2>3, <2>4, <2>5 DEF Windows
<1>6. PromptTypes'
  BY <1>1, <1>2, <1>3, <1>4, <1>5
<1> QED BY <1>2, <1>4, <1>5, <1>6, OthersPrompt

\* Items, and the one in the context, change.
LEMMA ItemPrompts ==
  ASSUME PromptInv, \/ \E i \in Item : ItemChanged(i)
                    \/ \E i \in (items \intersect Notes) \union {None} : ContextItemDidChange(i)
  PROVE  PromptInv'
<1>1. /\ UNCHANGED <<components, windows, streams, heard, requests, dialogs, shown, excess>>
      /\ PromptTypes
  BY DEF PromptInv, ItemChanged, ContextItemDidChange, manager, prompts
<1>2. left' \in [{"requests", "events", "toggles"} -> Nat] /\ left'.requests = left.requests
  <2>1. Spend("events")
    BY DEF ItemChanged, ContextItemDidChange
  <2> QED BY <1>1, <2>1, SpendIs
<1>3. /\ told' \in [Component -> SUBSET Item] /\ items' \in SUBSET Item
      /\ context' \in items' \union {None} /\ StreamsAreCurrent'
  <2>1. ASSUME NEW i \in Item, ItemChanged(i)
        PROVE  /\ told' \in [Component -> SUBSET Item] /\ items' \in SUBSET Item
               /\ context' \in items' \union {None} /\ StreamsAreCurrent'
    <3>1. /\ {i} \in SUBSET Item /\ items' \in SUBSET Item /\ items' \subseteq items \union {i}
          /\ context' = IF context \in items' THEN context ELSE None
          /\ told' = NotifyStreamObservers(told, streams, {i}, items', None)
      BY <1>1, <2>1 DEF ItemChanged, PromptTypes
    <3> QED BY <1>1, <3>1, ChangeKeeps
  <2>2. ASSUME NEW i \in (items \intersect Notes) \union {None}, ContextItemDidChange(i)
        PROVE  /\ told' \in [Component -> SUBSET Item] /\ items' \in SUBSET Item
               /\ context' \in items' \union {None} /\ StreamsAreCurrent'
    <3>1. /\ context' = i /\ UNCHANGED items
          /\ told' = [c \in Component |->
                        IF Context \in streams[c] /\ Reaches(c) THEN told[c] \union ({i} \ {None})
                        ELSE told[c]]
      BY <2>2 DEF ContextItemDidChange
    <3>2. told' \in [Component -> SUBSET Item] /\ items \subseteq Item
      BY <1>1, <2>2, <3>1 DEF PromptTypes
    <3>3. ASSUME NEW c \in Component, Reaches(c)',
                 NEW j \in Streamed(streams[c] \intersect heard[c], items, items)'
          PROVE  j \in told'[c]
      <4>1. Reaches(c) /\ j \in items /\ j # None
        BY <1>1, <3>1, <3>2, <3>3, SortAssumption DEF Reaches, Streamed
      <4>2. CASE TypeOf(j) \in streams[c] \intersect heard[c]
        <5>1. j \in Streamed(streams[c] \intersect heard[c], items, items)
          BY <4>1, <4>2 DEF Streamed
        <5> QED BY <3>1, <4>1, <5>1 DEF PromptInv, StreamsAreCurrent
      <4>3. CASE j = i /\ Context \in streams[c]
        BY <3>1, <4>1, <4>3
      <4> QED BY <1>1, <3>1, <3>3, <4>2, <4>3 DEF Streamed
    <3> QED BY <1>1, <2>2, <3>1, <3>2, <3>3 DEF StreamsAreCurrent
  <2> QED BY <2>1, <2>2
<1>4. PromptTypes'
  BY <1>1, <1>2, <1>3 DEF PromptTypes
<1> QED BY <1>1, <1>3, <1>4, OthersPrompt

\* Every step keeps PromptInv.
LEMMA NextPrompts == PromptInv /\ BridgeInv /\ BridgeInv' /\ [Next]_vars => PromptInv'
<1> SUFFICES ASSUME PromptInv, BridgeInv, BridgeInv', [Next]_vars PROVE PromptInv'
  OBVIOUS
<1>1. ASSUME UNCHANGED <<components, streams, heard, prompts, data, told, excess>>,
             Spend("toggles") \/ UNCHANGED left,
             \A c \in Component : /\ windows'[c].id = windows[c].id
                                  /\ windows'[c].hidden = windows[c].hidden
      PROVE  PromptInv'
  <2>1. PromptTypes /\ windows' \in [Component -> Window]
    BY DEF PromptInv, BridgeInv
  <2>2. left' \in [{"requests", "events", "toggles"} -> Nat] /\ left'.requests = left.requests
    BY <1>1, <2>1, SpendIs
  <2>3. PromptTypes'
    BY <1>1, <2>1, <2>2 DEF PromptTypes, prompts, data
  <2>4. StreamsAreCurrent'
    BY <1>1 DEF PromptInv, StreamsAreCurrent, Reaches, Streamed, data
  <2> QED BY <1>1, <2>3, <2>4, OthersPrompt DEF prompts
<1>2. CASE DeactivateOthers \/ \E t \in Theme : ToggleComponent(t)
  BY <1>1, <1>2 DEF DeactivateOthers, ToggleComponent, manager
<1>3. CASE SessionKeyGenerated
  <2> DEFINE g == Head(regs)
  <2>1. /\ windows' = IF windows[g.comp].id = g.id
                      THEN [windows EXCEPT ![g.comp].key = g.key] ELSE windows
        /\ UNCHANGED <<components, streams, heard, prompts, data, told, excess, left>>
    BY <1>3 DEF SessionKeyGenerated
  <2>2. \A c \in Component : /\ windows'[c].id = windows[c].id
                             /\ windows'[c].hidden = windows[c].hidden
    BY <2>1 DEF BridgeInv, Window
  <2> QED BY <1>1, <2>1, <2>2
<1>4. CASE UNCHANGED vars
  BY <1>1, <1>4 DEF vars, manager
<1>5. ASSUME NEW r \in DOMAIN requests, Answer(r) \/ ConfirmDelete(r) PROVE PromptInv'
  BY <1>5, ApprovingPrompts, DenyingPrompts, ConfirmingPrompts DEF Answer
<1> QED
  BY <1>2, <1>3, <1>4, <1>5, MessagingPrompts, WindowPrompts, ItemPrompts DEF Next

\* PromptInv holds of every behaviour; the windows' types are those of BridgeInv.
LEMMA PromptsHold == Spec => []PromptInv
<1>1. Spec => []BridgeInv
  BY InitBridge, NextBridge, PTL DEF Spec
<1>2. PromptInv /\ BridgeInv /\ BridgeInv' /\ [Next]_vars => PromptInv'
  BY NextPrompts
<1> QED BY <1>1, <1>2, InitPrompts, PTL DEF Spec

(***************************************************************************)
(* RunsWithPermission holds of every behaviour: nothing a component asked  *)
(* for is carried out before it has all the permissions that takes, nor by *)
(* the answer to another request of its, which may have asked for less.    *)
(***************************************************************************)
THEOREM NothingRunsUnpermitted == Spec => []RunsWithPermission
<1>1. PromptInv => RunsWithPermission
  BY DEF PromptInv
<1> QED BY <1>1, PromptsHold, PTL

(***************************************************************************)
(* WaitingIsShown holds of every behaviour: requests that were not shown   *)
(* because another dialog of their component was are never forgotten.      *)
(***************************************************************************)
THEOREM WaitingIsAnswerable == Spec => []WaitingIsShown
<1>1. PromptInv => WaitingIsShown
  BY DEF PromptInv
<1> QED BY <1>1, PromptsHold, PTL

(***************************************************************************)
(* StreamsAreCurrent holds of every behaviour: whatever changes, whoever   *)
(* changes it, and whichever windows are hidden meanwhile, a window that   *)
(* is not has been sent what it streams.                                   *)
(***************************************************************************)
THEOREM StreamsStayCurrent == Spec => []StreamsAreCurrent
<1>1. PromptInv => StreamsAreCurrent
  BY DEF PromptInv
<1> QED BY <1>1, PromptsHold, PTL

===============================================================================
