--------------------------- MODULE RootKeysProofs ---------------------------
(***************************************************************************)
(* That the keys fit together wherever the application may end, for any    *)
(* keys and bounds, whatever else is written in the meantime.              *)
(***************************************************************************)
EXTENDS RootKeys, SequenceTheorems, TLAPS

(***************************************************************************)
(* Type correctness.                                                       *)
(***************************************************************************)
LEMMA SavedStored ==
  ASSUME NEW s \in Stored, NEW ks \in SUBSET ItemsKey, NEW note \in ItemsKey \union {None, Absent},
         NEW by \in Key, NEW flags \in KeyState, NEW dirtied \in Marks
  PROVE  Saved(s, ks, note, by, flags, dirtied) \in Stored
  BY DEF Saved, Stored, KeyState, Marks, Encrypted

LEMMA DiscardedStored ==
  ASSUME NEW s \in Stored, NEW ks \in SUBSET ItemsKey
  PROVE  Discarded(s, ks) \in Stored
  BY DEF Discarded, Stored, Encrypted

LEMMA ErasedStored == Erased \in Stored
  BY DEF Erased, Stored, Encrypted

LEMMA DefaultType == TypeOK => DefaultKeys \subseteq ItemsKey \union {None}
  BY DEF TypeOK, DefaultKeys, KeyState

LEMMA InitType == Init => TypeOK
<1> SUFFICES ASSUME Init PROVE TypeOK
  OBVIOUS
<1> USE DEF Init, Key, RootKey
<1>1. values \in Values /\ disk \in Disk /\ keychain \in Key /\ rootKey \in Key
  BY DEF Values, Disk, Wrapped, Unwrapped
<1>2. keys \in KeyState /\ dirty \in Marks
  BY DEF KeyState, Marks
<1>3. stored \in Stored
  BY DEF Stored, Encrypted
<1>4. server \in Server /\ used \subseteq ItemsKey \union RootKey
  BY DEF Server, Encrypted
<1>5. /\ op \in Operation /\ op.pc = "idle" /\ op.back = FALSE
  BY DEF Operation, Idle, Operations, PC
<1>6. sync \in SyncState
  BY DEF SyncState, Marks
<1>7. left \in Bounds
  BY BoundAssumption DEF Bounds
<1>8. /\ running \in BOOLEAN /\ locked \in BOOLEAN /\ interrupted \in BOOLEAN /\ undone = {}
      /\ keyMode = "none" /\ writes = <<>>
  OBVIOUS
<1>9. writes \in Seq(Write)
  BY <1>8
<1> HIDE DEF Init
<1> QED BY <1>1, <1>2, <1>3, <1>4, <1>5, <1>6, <1>7, <1>8, <1>9 DEF TypeOK

\* Each part of the state, of an operation that it is a step of.
LEMMA SpentBounds == ASSUME TypeOK, NEW kind \in {"operations", "ends", "writes", "failures"}, Spend(kind)
  PROVE left' \in Bounds
  BY DEF TypeOK, Spend, Bounds

LEMMA AppendedWrites ==
  ASSUME TypeOK, NEW by \in Key, NEW owner \in {"operation", "other"}, PersistValues(by, owner)
  PROVE  writes' \in Seq(Write)
  BY DEF TypeOK, PersistValues, Write

LEMMA UserType == TypeOK /\ User => TypeOK'
<1> SUFFICES ASSUME TypeOK, User PROVE TypeOK'
  OBVIOUS
<1> USE DEF memory, device, items, history
<1>1. ASSUME NEW p \in PasscodeKey, AddPasscode(p) PROVE TypeOK'
  <2>1. left' \in Bounds
    BY <1>1, SpentBounds DEF AddPasscode, Begin
  <2>2. op' \in Operation /\ op'.pc = "wrap" /\ op'.back = FALSE
    BY <1>1 DEF AddPasscode, SetWrapper, Operation, Idle, PC, Operations, Key, RootKey
  <2>3. keyMode' \in {"none", "wrapper", "root", "both"} /\ keychain' \in Key /\ used' \subseteq ItemsKey \union RootKey
    BY <1>1 DEF AddPasscode, SetWrapper, Key, RootKey, TypeOK
  <2> QED BY <1>1, <2>1, <2>2, <2>3 DEF AddPasscode, TypeOK
<1>2. ASSUME NEW kind \in {"remove", "change"}, RemoveWrapper(kind) PROVE TypeOK'
  <2>1. left' \in Bounds
    BY <1>2, SpentBounds DEF RemoveWrapper, Begin
  <2>2. op' \in Operation /\ op'.pc = "unparams" /\ op'.back = FALSE
    BY <1>2 DEF RemoveWrapper, Operation, Idle, PC, Operations, Key, RootKey
  <2>3. keyMode' \in {"none", "wrapper", "root", "both"} /\ rootKey' \in Key
    BY <1>2 DEF RemoveWrapper, Key, TypeOK
  <2>4. values' \in Values /\ writes' \in Seq(Write)
    BY <1>2, <2>3, AppendedWrites DEF RemoveWrapper, RemoveValue, SetValue, TypeOK, Values, Wrapped, Unwrapped, Key
  <2> QED BY <1>2, <2>1, <2>2, <2>3, <2>4 DEF RemoveWrapper, TypeOK
<1>3. ASSUME NEW kind \in {"register", "signin"}, NEW a \in AccountKey, Authenticate(kind, a) PROVE TypeOK'
  <2>1. left' \in Bounds
    BY <1>3, SpentBounds DEF Authenticate, Begin
  <2>2. op' \in Operation /\ op'.pc = "request" /\ op'.back = FALSE
    BY <1>3 DEF Authenticate, Operation, Idle, PC, Operations, Key, RootKey, TypeOK, Values
  <2> QED BY <1>3, <2>1, <2>2 DEF Authenticate, TypeOK, RootKey
<1>4. ASSUME NEW a \in AccountKey, ChangePassword(a) PROVE TypeOK'
  <2>1. left' \in Bounds
    BY <1>4, SpentBounds DEF ChangePassword, Begin
  <2>2. op' \in Operation /\ op'.pc = "request" /\ op'.back = FALSE
    BY <1>4 DEF ChangePassword, Operation, Idle, PC, Operations, Key, RootKey, TypeOK, Values
  <2> QED BY <1>4, <2>1, <2>2 DEF ChangePassword, TypeOK, RootKey
<1>5. ASSUME SignOut PROVE TypeOK'
  <2>1. left' \in Bounds
    BY <1>5, SpentBounds DEF SignOut, Begin
  <2>2. op' \in Operation /\ op'.pc = "clear" /\ op'.back = FALSE
    BY <1>5 DEF SignOut, Operation, Idle, PC, Operations, Key, RootKey
  <2>3. values' \in Values /\ rootKey' \in Key /\ keychain' \in Key
    BY <1>5 DEF SignOut, Values, Wrapped, Unwrapped, Key
  <2>4. writes' \in Seq(Write)
    BY <1>5, AppendedWrites DEF SignOut, TypeOK
  <2> QED BY <1>5, <2>1, <2>2, <2>3, <2>4 DEF SignOut, TypeOK
<1>6. ASSUME Edit PROVE TypeOK'
  <2>1. dirty' \in Marks
    BY <1>6 DEF Edit, TypeOK, Marks
  <2> QED BY <1>6, <2>1 DEF Edit, TypeOK
<1> QED BY <1>1, <1>2, <1>3, <1>4, <1>5, <1>6 DEF User, RemovePasscode

LEMMA PasscodeType ==
  /\ TypeOK /\ Wrap => TypeOK'
  /\ TypeOK /\ SetWrapperParams => TypeOK'
  /\ TypeOK /\ RemoveWrapperParams => TypeOK'
  /\ TypeOK /\ SaveRootKeyToKeychain => TypeOK'
  /\ TypeOK /\ DeleteItemsKeys => TypeOK'
  /\ \A p \in PasscodeKey : TypeOK /\ RewriteItemsKeys(p) => TypeOK'
<1> USE DEF memory, device, items, history
<1>1. ASSUME TypeOK, Wrap PROVE TypeOK'
  <2>1. op' \in Operation /\ op'.pc = "params" /\ op'.back = op.back /\ op'.itemsKey = op.itemsKey
    BY <1>1 DEF Wrap, Goto, TypeOK, Operation, PC
  <2>2. op.key \in Key /\ rootKey \in Key
    BY <1>1 DEF TypeOK, Operation
  <2>3. CASE keyMode = "wrapper" /\ rootKey' = op.key
    <3>1. keyMode # "both"
      BY <2>3
    <3>2. dirty' \in Marks /\ sync' \in SyncState /\ values' = values /\ writes' = writes
      BY <1>1, <2>3, <3>1 DEF Wrap, TypeOK, Marks, SyncState, KeyState
    <3> QED BY <1>1, <2>1, <2>2, <2>3, <3>2 DEF Wrap, TypeOK
  <2>4. CASE keyMode = "both"
    <3>1. PersistValues(rootKey, "operation") /\ UNCHANGED <<rootKey, dirty, sync>>
      BY <1>1, <2>4 DEF Wrap
    <3>2. writes' \in Seq(Write)
      BY <1>1, <2>2, <3>1, AppendedWrites
    <3>3. values' \in Values
      BY <1>1, <2>2, <2>4 DEF Wrap, SetValue, TypeOK, Values, Wrapped
    <3> QED BY <1>1, <2>1, <3>1, <3>2, <3>3 DEF Wrap, TypeOK
  <2> QED BY <1>1, <2>3, <2>4 DEF Wrap
<1>2. ASSUME TypeOK, SetWrapperParams PROVE TypeOK'
  <2>1. op' \in Operation /\ op'.pc = "delete" /\ op'.back = op.back /\ op'.itemsKey = op.itemsKey
    BY <1>2 DEF SetWrapperParams, Goto, TypeOK, Operation, PC
  <2>2. op.key \in Key /\ rootKey \in Key
    BY <1>2 DEF TypeOK, Operation
  <2>3. writes' \in Seq(Write)
    BY <1>2, <2>2, AppendedWrites DEF SetWrapperParams
  <2>4. values' \in Values
    BY <1>2, <2>2 DEF SetWrapperParams, SetValue, TypeOK, Values
  <2> QED BY <1>2, <2>1, <2>3, <2>4 DEF SetWrapperParams, TypeOK
<1>3. ASSUME TypeOK, RemoveWrapperParams PROVE TypeOK'
  <2>1. op' \in Operation /\ op'.pc = "keychain" /\ op'.back = op.back /\ op'.itemsKey = op.itemsKey
    BY <1>3 DEF RemoveWrapperParams, Goto, TypeOK, Operation, PC
  <2>2. values' \in Values /\ writes' \in Seq(Write)
    BY <1>3, AppendedWrites DEF RemoveWrapperParams, RemoveValue, SetValue, TypeOK, Values, Key
  <2> QED BY <1>3, <2>1, <2>2 DEF RemoveWrapperParams, TypeOK
<1>4. ASSUME TypeOK, SaveRootKeyToKeychain PROVE TypeOK'
  <2>1. op' \in Operation /\ op'.pc = "delete" /\ op'.back = op.back /\ op'.itemsKey = op.itemsKey
    BY <1>4 DEF SaveRootKeyToKeychain, Goto, TypeOK, Operation, PC
  <2> QED BY <1>4, <2>1 DEF SaveRootKeyToKeychain, TypeOK
<1>5. ASSUME TypeOK, DeleteItemsKeys PROVE TypeOK'
  <2>1. /\ op' \in Operation /\ op'.pc = "rewrite" /\ op'.back = op.back
        /\ op'.itemsKey = op.itemsKey /\ op'.payloads # <<>>
    <3>1. <<keys, dirty, stored.keys>> \in KeyState \X Marks \X Encrypted
      BY <1>5 DEF TypeOK, Stored
    <3>2. <<keys, dirty, stored.keys>> # <<>>
      OBVIOUS
    <3> DEFINE pay == <<keys, dirty, stored.keys>>
    <3>3. op' = [op EXCEPT !.pc = "rewrite", !.payloads = pay]
      BY <1>5 DEF DeleteItemsKeys
    <3> HIDE DEF pay
    <3>4. pay \in KeyState \X Marks \X Encrypted /\ pay # <<>>
      BY <3>1, <3>2 DEF pay
    <3> QED BY <1>5, <3>3, <3>4 DEF TypeOK, Operation, PC
  <2>2. stored' \in Stored
    BY <1>5, DiscardedStored DEF DeleteItemsKeys, TypeOK, KeyState
  <2> QED BY <1>5, <2>1, <2>2 DEF DeleteItemsKeys, TypeOK
<1>6. ASSUME TypeOK, NEW p \in PasscodeKey, RewriteItemsKeys(p) PROVE TypeOK'
  <2> DEFINE flags == op.payloads[1]
             s == Saved(stored, flags.known, stored.note, rootKey, flags, op.payloads[2])
             was == op.payloads[3]
  <2>1. op.payloads \in KeyState \X Marks \X Encrypted
    BY <1>6 DEF RewriteItemsKeys, At, TypeOK, Operation
  <2>2. flags \in KeyState /\ op.payloads[2] \in Marks /\ was \in Encrypted
    BY <2>1
  <2>3. s \in Stored
    BY <1>6, <2>2, SavedStored DEF TypeOK, KeyState, Stored
  <2>4. stored' = [s EXCEPT !.keys = [k \in ItemsKey |->
                     IF k \in flags.known \intersect flags.unreadable THEN was[k] ELSE @[k]]]
    BY <1>6 DEF RewriteItemsKeys
  <2>5. stored' \in Stored
    <3> HIDE DEF flags, s, was
    <3> QED BY <2>2, <2>3, <2>4 DEF Stored, Encrypted
  <2>6. /\ op' \in Operation /\ op'.pc # "rewrite" /\ op'.pc \notin {"sync", "syncing", "synced"}
        /\ op'.back \in {FALSE, op.back} /\ op'.itemsKey \in {None, op.itemsKey}
        /\ op'.back => op'.itemsKey = op.itemsKey
    <3>1. op' = [op EXCEPT !.pc = "wrap", !.key = p] \/ op' = Idle
      BY <1>6 DEF RewriteItemsKeys, SetWrapper
    <3>2. CASE op' = [op EXCEPT !.pc = "wrap", !.key = p]
      BY <1>6, <3>2 DEF TypeOK, Operation, PC, Key, RootKey
    <3>3. CASE op' = Idle
      BY <3>3 DEF Idle, Operation, PC, Operations, Key
    <3> QED BY <3>1, <3>2, <3>3
  <2>7. /\ keyMode' \in {"none", "wrapper", "root", "both"} /\ keychain' \in Key
        /\ used' \subseteq ItemsKey \union RootKey
    BY <1>6 DEF RewriteItemsKeys, SetWrapper, Key, RootKey, TypeOK
  <2>8. UNCHANGED <<running, rootKey, values, writes, disk, keys, dirty, server, locked, sync, left,
                    undone, interrupted>>
    BY <1>6 DEF RewriteItemsKeys, SetWrapper
  <2> HIDE DEF flags, s, was
  <2> QED BY <1>6, <2>5, <2>6, <2>7, <2>8 DEF TypeOK
<1> QED BY <1>1, <1>2, <1>3, <1>4, <1>5, <1>6

LEMMA AuthenticationType ==
  /\ TypeOK /\ Request => TypeOK'
  /\ TypeOK /\ SetRootKey => TypeOK'
  /\ TypeOK /\ StoreRootKey => TypeOK'
  /\ TypeOK /\ MarkAllItems => TypeOK'
  /\ TypeOK /\ PasswordChanged => TypeOK'
<1> USE DEF memory, device, items, history
<1>1. ASSUME TypeOK, Request PROVE TypeOK'
  <2>1. server' \in Server
    BY <1>1 DEF Request, TypeOK, Server, Operation
  <2>2. CASE Fails
    <3>1. op' = [op EXCEPT !.pc = "itemskey"] \/ op' = Idle
      BY <2>2 DEF Fails
    <3>2. /\ op' \in Operation /\ op'.pc \in {"itemskey", "idle"}
          /\ op'.back => op.back /\ op'.itemsKey = op.itemsKey
      <4>1. CASE op' = [op EXCEPT !.pc = "itemskey"]
        BY <1>1, <4>1 DEF TypeOK, Operation, PC
      <4>2. CASE op' = Idle
        BY <4>2 DEF Idle, Operation, PC, Operations, Key
      <4> QED BY <3>1, <4>1, <4>2
    <3>3. dirty' \in Marks /\ sync' \in SyncState /\ locked' = FALSE
      BY <1>1, <2>2 DEF Fails, TypeOK, Marks, KeyState, SyncState
    <3>4. left' \in Bounds
      BY <1>1, SpentBounds DEF Request, TypeOK
    <3> QED BY <1>1, <2>1, <3>2, <3>3, <3>4 DEF Request, TypeOK
  <2>3. CASE Goto("root") /\ UNCHANGED <<dirty, sync, locked, left>>
    <3>1. op' \in Operation /\ op'.pc = "root" /\ op'.back = op.back /\ op'.itemsKey = op.itemsKey
      BY <1>1, <2>3 DEF Goto, TypeOK, Operation, PC
    <3> QED BY <1>1, <2>1, <2>3, <3>1 DEF Request, TypeOK
  <2> QED BY <1>1, <2>2, <2>3 DEF Request
<1>2. ASSUME TypeOK, SetRootKey PROVE TypeOK'
  <2>1. op' \in Operation /\ op'.pc = "store" /\ op'.back = op.back /\ op'.itemsKey = op.itemsKey
    BY <1>2 DEF SetRootKey, Goto, TypeOK, Operation, PC
  <2>2. op.key \in Key
    BY <1>2 DEF TypeOK, Operation
  <2>3. writes' \in Seq(Write)
    BY <1>2, <2>2, AppendedWrites DEF SetRootKey
  <2>4. values' \in Values
    BY <1>2, <2>2 DEF SetRootKey, SetValue, TypeOK, Values
  <2> QED BY <1>2, <2>1, <2>2, <2>3, <2>4 DEF SetRootKey, TypeOK
<1>3. ASSUME TypeOK, StoreRootKey PROVE TypeOK'
  <2>1. op' \in Operation /\ op'.pc = "mark" /\ op'.back = op.back /\ op'.itemsKey = op.itemsKey
    BY <1>3 DEF StoreRootKey, Goto, TypeOK, Operation, PC
  <2>2. op.by \in Key /\ rootKey \in Key
    BY <1>3 DEF TypeOK, Operation
  <2>3. writes' \in Seq(Write)
    BY <1>3, <2>2, AppendedWrites DEF StoreRootKey, TypeOK
  <2>4. values' \in Values
    BY <1>3, <2>2 DEF StoreRootKey, SetValue, TypeOK, Values, Wrapped
  <2> QED BY <1>3, <2>1, <2>2, <2>3, <2>4 DEF StoreRootKey, TypeOK
<1>4. ASSUME TypeOK, MarkAllItems PROVE TypeOK'
  <2>1. op' \in Operation /\ op'.pc = "idle" /\ op'.back = FALSE
    BY <1>4 DEF MarkAllItems, Idle, Operation, PC, Operations, Key
  <2>2. writes' \in Seq(Write)
    BY <1>4, AppendedWrites DEF MarkAllItems, TypeOK
  <2>3. sync' \in SyncState
    BY <1>4 DEF MarkAllItems, TypeOK, SyncState, Marks
  <2>4. keys' \in KeyState /\ dirty' \in Marks
    BY <1>4 DEF MarkAllItems, TypeOK, KeyState, Marks
  <2>5. stored' \in Stored
    <3>1. CASE stored' = Erased
      BY <3>1, ErasedStored
    <3>2. CASE \E d \in DefaultKeys :
             stored' = Saved(stored, keys.known, d, rootKey, keys, keys.known)
      <4>1. PICK d \in DefaultKeys :
              stored' = Saved(stored, keys.known, d, rootKey, keys, keys.known)
        BY <3>2
      <4>2. d \in ItemsKey \union {None, Absent}
        BY <1>4, DefaultType
      <4>3. keys.known \in SUBSET ItemsKey /\ keys.known \in Marks
        BY <1>4 DEF TypeOK, KeyState, Marks
      <4> QED BY <1>4, <4>1, <4>2, <4>3, SavedStored DEF TypeOK
    <3> QED BY <1>4, <3>1, <3>2 DEF MarkAllItems
  <2> QED BY <1>4, <2>1, <2>2, <2>3, <2>4, <2>5 DEF MarkAllItems, TypeOK
<1>5. ASSUME TypeOK, PasswordChanged PROVE TypeOK'
  <2>1. op' \in Operation /\ op'.pc = "itemskey" /\ op'.back = op.back /\ op'.itemsKey = op.itemsKey
    BY <1>5 DEF PasswordChanged, Goto, TypeOK, Operation, PC
  <2>2. writes' \in Seq(Write)
    BY <1>5, AppendedWrites DEF PasswordChanged, TypeOK
  <2> QED BY <1>5, <2>1, <2>2 DEF PasswordChanged, TypeOK
<1> QED BY <1>1, <1>2, <1>3, <1>4, <1>5

LEMMA PasswordType ==
  /\ \A k \in ItemsKey : TypeOK /\ NewItemsKey(k) => TypeOK'
  /\ TypeOK /\ AwaitedSync => TypeOK'
  /\ TypeOK /\ Rollback => TypeOK'
  /\ TypeOK /\ ClearAllData => TypeOK'
<1> USE DEF memory, device, items, history
<1>1. ASSUME TypeOK, NEW k \in ItemsKey, NewItemsKey(k) PROVE TypeOK'
  <2>1. PICK d \in DefaultKeys : op' = [op EXCEPT !.pc = "sync", !.itemsKey = k, !.was = d]
    BY <1>1 DEF NewItemsKey
  <2>2. op' \in Operation /\ op'.pc = "sync" /\ op'.itemsKey \in ItemsKey
    BY <1>1, <2>1, DefaultType DEF TypeOK, Operation, PC
  <2>3. keys' \in KeyState /\ used' \subseteq ItemsKey \union RootKey
    BY <1>1 DEF NewItemsKey, Created, TypeOK, KeyState
  <2>4. dirty' \in Marks /\ sync' \in SyncState
    BY <1>1 DEF NewItemsKey, TypeOK, KeyState, Marks, SyncState
  <2> QED BY <1>1, <2>2, <2>3, <2>4 DEF NewItemsKey, TypeOK
<1>2. ASSUME TypeOK, AwaitedSync PROVE TypeOK'
  <2>1. op.pc = "synced" /\ op.itemsKey \in ItemsKey
    BY <1>2 DEF AwaitedSync, At, TypeOK
  <2>2. op' = Idle \/ op' = [op EXCEPT !.pc = "request", !.key = op.old, !.back = TRUE]
    BY <1>2 DEF AwaitedSync
  <2>3. op' \in Operation /\ op'.pc \in {"idle", "request"} /\ (op'.back => op'.itemsKey \in ItemsKey)
    <3>1. CASE op' = Idle
      BY <3>1 DEF Idle, Operation, PC, Operations, Key
    <3>2. CASE op' = [op EXCEPT !.pc = "request", !.key = op.old, !.back = TRUE]
      BY <1>2, <2>1, <3>2 DEF TypeOK, Operation, PC
    <3> QED BY <2>2, <3>1, <3>2
  <2> QED BY <1>2, <2>3 DEF AwaitedSync, TypeOK
<1>3. ASSUME TypeOK, Rollback PROVE TypeOK'
  <2>1. op.itemsKey \in ItemsKey /\ op.back
    BY <1>3 DEF Rollback, TypeOK
  <2>2. op' \in Operation /\ op'.pc = "sync" /\ op'.back = op.back /\ op'.itemsKey = op.itemsKey
    BY <1>3 DEF Rollback, Goto, TypeOK, Operation, PC
  <2>3. keys' \in KeyState /\ undone' \subseteq ItemsKey
    BY <1>3, <2>1 DEF Rollback, TypeOK, KeyState
  <2>4. dirty' \in Marks /\ sync' \in SyncState
    BY <1>3 DEF Rollback, TypeOK, KeyState, Marks, SyncState
  <2> QED BY <1>3, <2>1, <2>2, <2>3, <2>4 DEF Rollback, TypeOK
<1>4. ASSUME TypeOK, ClearAllData PROVE TypeOK'
  <2>1. disk' \in Disk
    BY <1>4 DEF ClearAllData, Disk, Wrapped, Unwrapped, Key
  <2>2. writes' \in Seq(Write)
    BY <1>4 DEF ClearAllData
  <2> QED BY <1>4, <2>1, <2>2, ErasedStored DEF ClearAllData, TypeOK
<1> QED BY <1>1, <1>2, <1>3, <1>4

LEMMA SyncEndsType ==
  ASSUME TypeOK, SyncEnds
  PROVE  /\ op' \in Operation /\ op'.pc = IF op.pc = "syncing" THEN "synced" ELSE op.pc
         /\ op'.back = op.back /\ op'.itemsKey = op.itemsKey /\ op'.payloads = op.payloads
  BY DEF SyncEnds, Goto, TypeOK, Operation, PC

LEMMA SyncType ==
  /\ TypeOK /\ Save => TypeOK'
  /\ TypeOK /\ DownloadFirst => TypeOK'
  /\ \A fresh \in ItemsKey \union {None} : TypeOK /\ Uploaded(fresh) => TypeOK'
  /\ TypeOK /\ SyncFails => TypeOK'
  /\ TypeOK /\ RecoverKeys => TypeOK'
<1> USE DEF memory, device, items, history
<1>1. ASSUME TypeOK, Save PROVE TypeOK'
  <2> DEFINE deleted == keys.deleted \intersect keys.synced
             saved == DirtyItems \intersect keys.known
             note(d) == IF Note \in dirty THEN d ELSE stored.note
             s(d) == Saved(stored, saved, note(d), rootKey, keys, dirty)
  <2>1. /\ op' \in Operation /\ op'.pc = IF op.pc = "sync" THEN "syncing" ELSE op.pc
        /\ op'.back = op.back /\ op'.itemsKey = op.itemsKey /\ op'.payloads = op.payloads
    BY <1>1 DEF Save, Goto, TypeOK, Operation, PC
  <2>2. deleted \in SUBSET ItemsKey /\ saved \in SUBSET ItemsKey /\ DirtyItems \in Marks
    BY <1>1 DEF TypeOK, KeyState, Marks, DirtyItems
  <2>3. sync' \in SyncState
    <3>1. sync' = [sync EXCEPT !.pc = "saved", !.sent = DirtyItems, !.gone = keys.deleted,
                               !.by = rootKey, !.online = hasAccount]
      BY <1>1 DEF Save
    <3>2. keys.deleted \in SUBSET ItemsKey /\ hasAccount \in BOOLEAN
      BY <1>1 DEF TypeOK, KeyState, hasAccount
    <3> QED BY <1>1, <2>2, <3>1, <3>2 DEF TypeOK, SyncState
  <2>4. stored' \in Stored
    <3>1. PICK d \in DefaultKeys : stored' = [Discarded(s(d), deleted) EXCEPT !.deleted = @ \union deleted]
      BY <1>1 DEF Save
    <3>2. d \in ItemsKey \union {None, Absent}
      BY <1>1, DefaultType
    <3>3. note(d) \in ItemsKey \union {None, Absent}
      BY <1>1, <3>2 DEF TypeOK, Stored
    <3>4. s(d) \in Stored
      <4> HIDE DEF note, saved
      <4> QED BY <1>1, <2>2, <3>3, SavedStored DEF TypeOK
    <3>5. Discarded(s(d), deleted) \in Stored
      <4> HIDE DEF s, deleted
      <4> QED BY <2>2, <3>4, DiscardedStored
    <3> HIDE DEF s, deleted
    <3> QED BY <2>2, <3>1, <3>5 DEF Stored
  <2> HIDE DEF deleted, saved, note, s
  <2>5. UNCHANGED <<memory, disk, keychain, keys, dirty, server, locked, used, left, history>>
    BY <1>1 DEF Save
  <2> QED BY <1>1, <2>1, <2>3, <2>4, <2>5 DEF TypeOK
<1>2. ASSUME TypeOK, DownloadFirst PROVE TypeOK'
  <2> DEFINE known == keys.known \union Mapped
             synced == keys.synced \union Retrieved
             default == (keys.default \ Mapped) \union (server.default \intersect Mapped)
             unreadable == (keys.unreadable \ Mapped) \union {k \in Mapped : server.keys[k] # rootKey}
             kept == KeptKeys(known, synced, default \ unreadable)
             discarded == sync.gone \ keys.synced
             after == [known |-> kept, deleted |-> (keys.deleted \ discarded) \union (known \ kept),
                       default |-> default, synced |-> synced, unreadable |-> unreadable]
             s == Saved(stored, Mapped, stored.note, rootKey, after, {})
  <2>1. Mapped \subseteq ItemsKey /\ Retrieved \subseteq ItemsKey
    BY DEF Mapped, Retrieved
  <2>2. /\ known \in SUBSET ItemsKey /\ synced \in SUBSET ItemsKey
        /\ default \in SUBSET ItemsKey /\ unreadable \in SUBSET ItemsKey
    BY <1>2, <2>1 DEF TypeOK, KeyState, Server
  <2>3. kept \in SUBSET ItemsKey
    <3> HIDE DEF known, synced, default, unreadable
    <3> QED BY <2>2 DEF KeptKeys
  <2>4. after \in KeyState
    <3> HIDE DEF known, synced, default, unreadable, kept
    <3> QED BY <1>2, <2>2, <2>3 DEF TypeOK, KeyState
  <2>5. s \in Stored
    <3> HIDE DEF after
    <3> QED BY <1>2, <2>1, <2>4, SavedStored DEF TypeOK, Stored, Marks
  <2>6. keys' = after /\ dirty' = dirty \ (Mapped \union (known \ kept))
    BY <1>2 DEF DownloadFirst
  <2>7. stored' = [s EXCEPT !.keys = [k \in ItemsKey |->
                     IF k \in discarded THEN Absent
                     ELSE IF k \in Mapped \intersect unreadable THEN server.keys[k] ELSE @[k]]]
    BY <1>2 DEF DownloadFirst
  <2>8. stored' \in Stored
    <3> HIDE DEF s, discarded, unreadable
    <3> QED BY <1>2, <2>5, <2>7 DEF TypeOK, Stored, Encrypted, Server
  <2>9. sync' \in SyncState
    BY <1>2 DEF DownloadFirst, SyncState, Marks, Key
  <2>10. UNCHANGED <<memory, disk, keychain, server, op, locked, used, left, history>>
    BY <1>2 DEF DownloadFirst
  <2> HIDE DEF known, synced, default, unreadable, kept, discarded, after, s
  <2>11. keys' \in KeyState /\ dirty' \in Marks
    BY <1>2, <2>4, <2>6 DEF TypeOK, Marks
  <2> QED BY <1>2, <2>8, <2>9, <2>10, <2>11 DEF TypeOK
<1>3. ASSUME TypeOK, NEW fresh \in ItemsKey \union {None}, Uploaded(fresh) PROVE TypeOK'
  <2> DEFINE sent == sync.sent \intersect ItemsKey
             now == IF sync.online THEN [keys EXCEPT !.synced = @ \union sent, !.deleted = @ \ sync.gone]
                    ELSE [keys EXCEPT !.deleted = @ \ sync.gone]
             s0 == Saved(stored, sent \intersect keys.known, stored.note, rootKey, now, {})
             s1 == Discarded(s0, sync.gone)
             s == [s1 EXCEPT !.deleted = @ \ sync.gone]
             note == IF s.note = Absent THEN Absent ELSE fresh
             s2 == Saved(s, keys'.known, note, rootKey, keys', dirty')
  <2>1. sent \in SUBSET ItemsKey /\ now \in KeyState /\ sync.gone \in SUBSET ItemsKey
    BY <1>3 DEF TypeOK, KeyState, SyncState
  <2>2. server' \in Server
    <3>1. CASE ~sync.online
      BY <1>3, <3>1 DEF Uploaded, TypeOK
    <3>2. CASE sync.online
      <4>1. server' = [server EXCEPT !.keys = [k \in ItemsKey |-> IF k \in sent THEN sync.by
                                                  ELSE IF k \in sync.gone \intersect keys.synced
                                                       THEN Absent ELSE @[k]],
                                     !.default = (@ \ sent) \union (now.default \intersect sent)]
        BY <1>3, <3>2 DEF Uploaded
      <4>2. sync.by \in Key
        BY <1>3 DEF TypeOK, SyncState
      <4> HIDE DEF sent, now
      <4> QED BY <1>3, <2>1, <4>1, <4>2 DEF TypeOK, Server, Encrypted, KeyState
    <3> QED BY <3>1, <3>2
  <2>3. /\ keys' \in KeyState /\ dirty' \in Marks /\ used' \subseteq ItemsKey \union RootKey
    <3>1. \/ keys' = now /\ dirty' = dirty \ sync.sent /\ used' = used
          \/ /\ fresh \in ItemsKey
             /\ keys' = [now EXCEPT !.known = @ \union {fresh}, !.default = {fresh}]
             /\ dirty' = (dirty \ sync.sent) \union {fresh}
             /\ used' = used \union {fresh}
      BY <1>3 DEF Uploaded
    <3> HIDE DEF now
    <3>2. keys' \in KeyState
      <4>1. ASSUME NEW n \in KeyState, NEW f \in ItemsKey
            PROVE  [n EXCEPT !.known = @ \union {f}, !.default = {f}] \in KeyState
        BY <4>1 DEF KeyState
      <4> QED BY <2>1, <3>1, <4>1
    <3>3. dirty' \in Marks /\ used' \subseteq ItemsKey \union RootKey
      BY <1>3, <3>1 DEF TypeOK, Marks
    <3> QED BY <3>2, <3>3
  <2>4. s0 \in Stored
    <3> HIDE DEF now, sent
    <3> QED BY <1>3, <2>1, SavedStored DEF TypeOK, Stored, Marks
  <2>5. s1 \in Stored
    <3> HIDE DEF s0
    <3> QED BY <2>1, <2>4, DiscardedStored
  <2>6. s \in Stored
    <3> HIDE DEF s1
    <3> QED BY <2>5 DEF Stored
  <2>7. s2 \in Stored
    <3>1. note \in ItemsKey \union {None, Absent}
      OBVIOUS
    <3> HIDE DEF s, note
    <3> QED BY <1>3, <2>3, <2>6, <3>1, SavedStored DEF TypeOK, KeyState
  <2>8. stored' = s \/ stored' = s2
    BY <1>3 DEF Uploaded
  <2>9. sync' \in SyncState
    BY <1>3 DEF Uploaded, TypeOK, SyncState, Marks
  <2>10. SyncEnds /\ UNCHANGED <<memory, disk, keychain, locked, left, history>>
    BY <1>3 DEF Uploaded
  <2> HIDE DEF sent, now, s0, s1, s, note, s2
  <2> QED BY <1>3, <2>2, <2>3, <2>6, <2>7, <2>8, <2>9, <2>10, SyncEndsType DEF TypeOK
<1>4. ASSUME TypeOK, SyncFails PROVE TypeOK'
  <2>1. sync' \in SyncState /\ left' \in Bounds
    BY <1>4, SpentBounds DEF SyncFails, TypeOK, SyncState, Marks
  <2> QED BY <1>4, <2>1, SyncEndsType DEF SyncFails, TypeOK
<1>5. ASSUME TypeOK, RecoverKeys PROVE TypeOK'
  <2>1. keys.unreadable \in SUBSET ItemsKey /\ [keys EXCEPT !.unreadable = {}] \in KeyState
    BY <1>5 DEF TypeOK, KeyState
  <2>2. stored' \in Stored
    BY <1>5, <2>1, SavedStored DEF RecoverKeys, TypeOK, Stored, Marks
  <2>3. keys' \in KeyState /\ dirty' \in Marks
    BY <1>5, <2>1 DEF RecoverKeys, TypeOK, Marks
  <2> QED BY <1>5, <2>2, <2>3 DEF RecoverKeys, TypeOK
<1> QED BY <1>1, <1>2, <1>3, <1>4, <1>5

LEMMA LaunchType ==
  /\ TypeOK /\ SetRawStorageValue => TypeOK'
  /\ TypeOK /\ SetOtherValue => TypeOK'
  /\ TypeOK /\ End => TypeOK'
  /\ TypeOK /\ Launch => TypeOK'
<1> USE DEF memory, device, items, history
<1>1. ASSUME TypeOK, SetRawStorageValue PROVE TypeOK'
  <2>1. Head(writes) \in Write /\ Tail(writes) \in Seq(Write)
    BY <1>1, HeadTailProperties DEF SetRawStorageValue, TypeOK
  <2>2. disk' \in Disk
    BY <1>1, <2>1 DEF SetRawStorageValue, TypeOK, Disk, Values, Write
  <2> QED BY <1>1, <2>1, <2>2 DEF SetRawStorageValue, TypeOK
<1>2. ASSUME TypeOK, SetOtherValue PROVE TypeOK'
  <2>1. writes' \in Seq(Write) /\ left' \in Bounds
    BY <1>2, AppendedWrites, SpentBounds DEF SetOtherValue, TypeOK
  <2> QED BY <1>2, <2>1 DEF SetOtherValue, TypeOK
<1>3. ASSUME TypeOK, End PROVE TypeOK'
  <2>1. left' \in Bounds
    BY <1>3, SpentBounds DEF End
  <2>2. writes' \in Seq(Write)
    BY <1>3 DEF End
  <2> QED BY <1>3, <2>1, <2>2 DEF End, TypeOK
<1>4. ASSUME TypeOK, Launch PROVE TypeOK'
  <2>1. OpenedKey \in Key /\ StoredMode \in {"none", "wrapper", "root", "both"}
    BY <1>4 DEF OpenedKey, StoredMode, TypeOK, Disk, Wrapped, Key
  <2>2. values' \in Values /\ keychain' \in Key
    BY <1>4 DEF Launch, TypeOK, Disk, Values
  <2>3. keys' \in KeyState
    BY <1>4 DEF Launch, TypeOK, Stored, KeyState
  <2>4. dirty' \in Marks
    BY <1>4 DEF Launch, Marks
  <2>5. op' \in Operation /\ op'.pc = "idle" /\ op'.back = FALSE
    BY <1>4 DEF Launch, Idle, Operation, PC, Operations, Key
  <2>6. sync' \in SyncState
    BY <1>4 DEF Launch, SyncState, Marks, Key
  <2>7. writes' \in Seq(Write)
    BY <1>4 DEF Launch
  <2> QED BY <1>4, <2>1, <2>2, <2>3, <2>4, <2>5, <2>6, <2>7 DEF Launch, TypeOK
<1> QED BY <1>1, <1>2, <1>3, <1>4

(****************************************************************************)
(* Everything keeps its type: an operation of the credential service always *)
(* has what it has yet to write or, failing, to take back.                  *)
(****************************************************************************)
THEOREM TypeCorrect == Spec => []TypeOK
<1>1. TypeOK /\ [Next]_vars => TypeOK'
  <2>1. TypeOK /\ UNCHANGED vars => TypeOK'
    BY DEF TypeOK, vars, memory, device, items
  <2> QED BY <2>1, UserType, PasscodeType, AuthenticationType, PasswordType, SyncType, LaunchType
          DEF Next, Credentials, Sync
<1> QED BY <1>1, InitType, PTL DEF Spec

-----------------------------------------------------------------------------
(***************************************************************************)
(* The chain: what is in the keychain and what the values hold, for a mode *)
(* and a root key.  v is what is in memory, or on the device.              *)
(***************************************************************************)
Bare(v) == v.wrapper = None /\ v.wrapped = Unwrapped
NoAccount(root, v) == root = None /\ v.params = None
Account(root, v) == root \in AccountKey /\ v.params = root

Chain(mode, root, kc, v) ==
  /\ mode \in {"none", "wrapper", "root", "both"}
  /\ mode = "none" => Bare(v) /\ NoAccount(root, v) /\ kc = None
  /\ mode = "wrapper" =>
       /\ root \in PasscodeKey /\ v.wrapper = root
       /\ v.wrapped = Unwrapped /\ v.params = None /\ kc = None
  /\ mode = "root" => Bare(v) /\ Account(root, v) /\ kc = root
  /\ mode = "both" =>
       /\ v.wrapper \in PasscodeKey /\ v.wrapped = [key |-> root, by |-> v.wrapper]
       /\ Account(root, v) /\ kc = None

\* The steps at which the chain is whole and written.
Quiet == {"idle", "request", "root", "rewrite", "itemskey", "sync", "syncing", "synced"}
Passcode == {"wrap", "params"}

\* Where a key operation is, and what of the chain it has made.
Links ==
  /\ op.pc \in Quiet \union {"delete", "mark", "clear"} => Chain(keyMode, rootKey, keychain, values)
  /\ op.pc \in Passcode =>
       /\ op.key \in PasscodeKey /\ keychain = None /\ values.wrapper = None
       /\ \/ /\ keyMode = "wrapper"
             /\ values.params = None /\ values.wrapped = Unwrapped
             /\ rootKey = IF op.pc = "wrap" THEN None ELSE op.key
          \/ /\ keyMode = "both"
             /\ Account(rootKey, values)
             /\ values.wrapped = IF op.pc = "wrap" THEN Unwrapped
                                 ELSE [key |-> rootKey, by |-> op.key]
  /\ op.pc \in {"unparams", "keychain"} =>
       /\ IF op.pc = "unparams" THEN values.wrapper \in PasscodeKey ELSE values.wrapper = None
       /\ values.wrapped = Unwrapped /\ keychain = None
       /\ \/ keyMode = "none" /\ NoAccount(rootKey, values)
          \/ keyMode = "root" /\ Account(rootKey, values)
  /\ op.pc = "store" =>
       /\ Account(rootKey, values)
       /\ \/ keyMode = "root" /\ Bare(values)
          \/ keyMode = "both" /\ values.wrapper \in PasscodeKey /\ keychain = None
  /\ op.pc = "clear" => keyMode = "none"

\* What an operation on the account keeps until it is over.
Authenticating == (Quiet \ {"idle", "rewrite"}) \union {"store", "mark"}
Bound ==
  /\ op.pc = "idle" => op = Idle
  /\ op.pc \in Authenticating =>
       /\ op.by = values.wrapper /\ op.key \in AccountKey
       /\ op.kind = "password" => op.old \in AccountKey
       /\ op.back \/ op.pc \in {"itemskey", "sync", "syncing", "synced"} => op.kind = "password"

\* What is written are the values, or an operation waits for that.
Written(v) == disk.wrapper = v.wrapper /\ disk.wrapped = v.wrapped /\ disk.params = v.params
Waits == op.pc \notin Quiet \union {"wrap"}

\* The last write of an operation and what follows it are made with the current root key.
Lags ==
  \/ op.pc = "params" /\ keyMode = "wrapper"
  \/ op.pc = "unparams" /\ keyMode = "none"
  \/ op.pc = "clear"
Current ==
  /\ \A n \in 1 .. Len(writes) : writes[n].owner = "operation" =>
       \A m \in n .. Len(writes) : writes[m].by = rootKey
  /\ ~Own => disk.by = rootKey /\ \A n \in 1 .. Len(writes) : writes[n].by = rootKey

Opened == Chain(StoredMode, OpenedKey, keychain, disk) /\ disk.by = OpenedKey

RunInv ==
  /\ Links /\ Bound
  /\ Own \/ Written(values)
  /\ Own => Waits
  /\ Lags \/ Current
ChainInv ==
  /\ running => RunInv
  /\ ~running => Opened

-----------------------------------------------------------------------------
(***************************************************************************)
(* The writes of the values.                                               *)
(***************************************************************************)
LEMMA OwnIs == TypeOK => (Own <=> \E n \in 1 .. Len(writes) : writes[n].owner = "operation")
  BY DEF TypeOK, Own

LEMMA Appended ==
  ASSUME TypeOK, NEW by \in Key, NEW owner \in {"operation", "other"}, PersistValues(by, owner)
  PROVE  /\ writes' \in Seq(Write) /\ Len(writes) \in Nat /\ Len(writes') = Len(writes) + 1
         /\ \A n \in 1 .. Len(writes) : writes'[n] = writes[n]
         /\ writes'[Len(writes) + 1] = [by |-> by, owner |-> owner]
  BY AppendProperties DEF TypeOK, PersistValues, Write

\* An operation's write with the root key that it leaves.
LEMMA OwnWrite ==
  ASSUME TypeOK, ~Own, rootKey' \in Key, PersistValues(rootKey', "operation")
  PROVE  Own' /\ Current'
<1>1. /\ writes' \in Seq(Write) /\ Len(writes) \in Nat /\ Len(writes') = Len(writes) + 1
      /\ \A n \in 1 .. Len(writes) : writes'[n] = writes[n]
      /\ writes'[Len(writes) + 1] = [by |-> rootKey', owner |-> "operation"]
  BY Appended
<1>2. Own'
  BY <1>1 DEF Own
<1>3. \A n \in 1 .. Len(writes) : writes[n].owner # "operation"
  BY OwnIs
<1> QED BY <1>1, <1>2, <1>3 DEF Current

LEMMA OtherWrite ==
  ASSUME TypeOK, rootKey' = rootKey, disk' = disk, PersistValues(rootKey, "other")
  PROVE  /\ Own' <=> Own
         /\ Current => Current'
<1>1. /\ writes' \in Seq(Write) /\ Len(writes) \in Nat /\ Len(writes') = Len(writes) + 1
      /\ \A n \in 1 .. Len(writes) : writes'[n] = writes[n]
      /\ writes'[Len(writes) + 1] = [by |-> rootKey, owner |-> "other"]
  BY Appended DEF TypeOK
<1>2. Own' <=> Own
  BY <1>1, OwnIs DEF Own
<1> QED BY <1>1, <1>2 DEF Current

LEMMA PoppedWrite ==
  ASSUME TypeOK, SetRawStorageValue
  PROVE  /\ Written(values)'
         /\ Own' => Own
         /\ Current => Current'
<1>1. /\ writes \in Seq(Write) /\ writes # <<>> /\ Len(writes) \in Nat /\ Len(writes) > 0
      /\ Tail(writes) \in Seq(Write) /\ Len(Tail(writes)) = Len(writes) - 1
      /\ Head(writes) = writes[1]
      /\ \A n \in 1 .. Len(writes) - 1 : Tail(writes)[n] = writes[n + 1]
  BY HeadTailProperties DEF SetRawStorageValue, TypeOK
<1>2. /\ writes' = Tail(writes) /\ UNCHANGED <<rootKey, values>>
      /\ disk' = [by |-> Head(writes).by, wrapper |-> values.wrapper, wrapped |-> values.wrapped,
                  params |-> values.params]
  BY DEF SetRawStorageValue
<1>3. /\ Own' => Own
      /\ Own' <=> \E n \in 1 .. Len(writes') : writes'[n].owner = "operation"
  <2>1. DOMAIN writes' = 1 .. Len(writes') /\ DOMAIN writes = 1 .. Len(writes)
    BY <1>1, <1>2
  <2>2. Own' <=> \E n \in 1 .. Len(writes') : writes'[n].owner = "operation"
    BY <2>1 DEF Own
  <2>3. \A n \in 1 .. Len(writes') : n + 1 \in 1 .. Len(writes) /\ writes'[n] = writes[n + 1]
    BY <1>1, <1>2
  <2> QED BY <2>1, <2>2, <2>3 DEF Own
<1>4. ASSUME Current PROVE Current'
  <2>1. ASSUME NEW n \in 1 .. Len(writes'), writes'[n].owner = "operation", NEW m \in n .. Len(writes')
        PROVE  writes'[m].by = rootKey
    BY <1>1, <1>2, <1>4, <2>1 DEF Current
  <2>2. ASSUME ~Own' PROVE disk'.by = rootKey /\ \A n \in 1 .. Len(writes') : writes'[n].by = rootKey
    <3>1. \A n \in 1 .. Len(writes) : writes[n].by = rootKey
      <4>1. CASE Own
        <5>1. PICK n \in 1 .. Len(writes) : writes[n].owner = "operation"
          BY <4>1, OwnIs
        <5>2. n = 1
          <6> SUFFICES ASSUME n # 1 PROVE FALSE
            OBVIOUS
          <6>1. n - 1 \in 1 .. Len(writes') /\ writes'[n - 1].owner = "operation"
            BY <1>1, <1>2, <5>1
          <6> QED BY <1>3, <2>2, <6>1
        <5> QED BY <1>1, <1>4, <5>1, <5>2 DEF Current
      <4>2. CASE ~Own
        BY <1>4, <4>2 DEF Current
      <4> QED BY <4>1, <4>2
    <3> QED BY <1>1, <1>2, <3>1
  <2> QED BY <1>2, <2>1, <2>2 DEF Current
<1> QED BY <1>2, <1>3, <1>4 DEF Written

(***************************************************************************)
(* What is opened is what was stored, if the chain was whole.              *)
(***************************************************************************)
LEMMA ChainOpens ==
  ASSUME NEW mode, NEW root, NEW v, Chain(mode, root, keychain, v), Written(v)
  PROVE  /\ StoredMode = mode /\ OpenedKey = root /\ ~NeedsKeychainRepair
         /\ Chain(StoredMode, OpenedKey, keychain, disk)
<1>1. None \notin AccountKey /\ None \notin PasscodeKey
  BY KeyAssumption DEF RootKey
<1> USE DEF Chain, Bare, NoAccount, Account, Written, StoredMode, HasRootKey, OpenedKey,
            NeedsKeychainRepair, Unwrapped
<1>2. CASE mode = "none"
  BY <1>1, <1>2
<1>3. CASE mode = "wrapper"
  BY <1>1, <1>3
<1>4. CASE mode = "root"
  BY <1>1, <1>4
<1>5. CASE mode = "both"
  BY <1>1, <1>5
<1> QED BY <1>2, <1>3, <1>4, <1>5

(***************************************************************************)
(* Each operation keeps the invariant.                                     *)
(***************************************************************************)
\* What is known when an operation goes on: its writes have been made.
LEMMA AtIs ==
  ASSUME RunInv, NEW pc, At(pc)
  PROVE  /\ op.pc = pc /\ running /\ ~Own /\ Written(values)
         /\ Links /\ Bound
         /\ Lags \/ Current
  BY DEF RunInv, At

LEMMA BeginIs ==
  ASSUME RunInv, NEW kind, Begin(kind)
  PROVE  /\ op = Idle /\ op.pc = "idle" /\ running /\ ~Own /\ Written(values)
         /\ Chain(keyMode, rootKey, keychain, values) /\ Current
<1>1. op = Idle /\ op.pc = "idle" /\ running
  BY DEF Begin, Idle
<1>2. ~Own
  BY <1>1 DEF RunInv, Waits, Quiet
<1>3. ~Lags
  BY <1>1 DEF Lags
<1> QED BY <1>1, <1>2, <1>3 DEF RunInv, Links, Quiet

LEMMA KeysDiffer ==
  /\ None \notin AccountKey /\ None \notin PasscodeKey
  /\ \A k \in AccountKey : k \notin PasscodeKey
  BY KeyAssumption DEF RootKey

\* The values, and what was written of them, stay.
LEMMA SameWrites ==
  ASSUME Own \/ Written(values), Current,
         UNCHANGED <<rootKey, values, disk, writes>>
  PROVE  /\ Own' <=> Own
         /\ Own' \/ Written(values)'
         /\ Current'
  BY DEF Own, Written, Current

LEMMA UserKeeps == ASSUME TypeOK, RunInv, User PROVE RunInv'
<1> USE DEF memory, device, items, history
<1>1. ASSUME NEW p \in PasscodeKey, AddPasscode(p) PROVE RunInv'
  <2>1. /\ op = Idle /\ op.pc = "idle" /\ running /\ ~Own /\ Written(values)
        /\ Chain(keyMode, rootKey, keychain, values) /\ Current
    BY <1>1, BeginIs DEF AddPasscode
  <2>2. /\ op'.pc = "wrap" /\ op'.key = p /\ keychain' = None
        /\ keyMode' = IF keyMode \in {"none", "wrapper"} THEN "wrapper" ELSE "both"
        /\ UNCHANGED <<rootKey, values, disk, writes>>
        /\ keyMode \in {"none", "root"}
    BY <1>1, <2>1 DEF AddPasscode, SetWrapper, Idle, hasPasscode, Chain
  <2>3. Links'
    BY <2>1, <2>2 DEF Links, Chain, Bare, NoAccount, Account, Quiet, Passcode
  <2>4. Bound'
    BY <2>2 DEF Bound, Authenticating, Quiet
  <2>5. ~Own' /\ Written(values)' /\ Current'
    BY <2>1, <2>2, SameWrites
  <2> QED BY <2>1, <2>3, <2>4, <2>5 DEF RunInv
<1>2. ASSUME NEW kind \in {"remove", "change"}, RemoveWrapper(kind) PROVE RunInv'
  <2>1. /\ op = Idle /\ op.pc = "idle" /\ running /\ ~Own /\ Written(values)
        /\ Chain(keyMode, rootKey, keychain, values) /\ Current
    BY <1>2, BeginIs DEF RemoveWrapper
  <2>2. /\ op'.pc = "unparams" /\ keyMode \in {"wrapper", "both"}
        /\ keyMode' = IF keyMode = "wrapper" THEN "none" ELSE "root"
        /\ rootKey' = IF keyMode = "wrapper" THEN None ELSE rootKey
        /\ UNCHANGED <<disk, keychain>>
    BY <1>2 DEF RemoveWrapper, hasPasscode, Idle
  <2>3. Bound'
    BY <2>2 DEF Bound, Authenticating, Quiet
  <2>4. CASE keyMode = "wrapper"
    <3>1. UNCHANGED <<values, writes>>
      BY <1>2, <2>1, <2>4 DEF RemoveWrapper, RemoveValue, Chain
    <3>2. Links'
      BY <2>1, <2>2, <2>4, <3>1 DEF Links, Chain, NoAccount, Account, Quiet, Passcode
    <3>3. Written(values)' /\ ~Own'
      BY <2>1, <2>2, <3>1 DEF Written, Own
    <3>4. Lags'
      BY <2>2, <2>4 DEF Lags
    <3> QED BY <2>3, <3>2, <3>3, <3>4 DEF RunInv
  <2>5. CASE keyMode = "both"
    <3>1. values.wrapped # Unwrapped
      BY <2>1, <2>5, KeysDiffer DEF Chain, Account, Unwrapped
    <3>2. values' = [values EXCEPT !.wrapped = Unwrapped] /\ PersistValues(rootKey', "operation")
      BY <1>2, <2>2, <2>5, <3>1 DEF RemoveWrapper, RemoveValue, SetValue
    <3>3. Own' /\ Current'
      BY <2>1, <2>2, <2>5, <3>2, OwnWrite DEF TypeOK
    <3>4. values'.wrapped = Unwrapped /\ values'.wrapper = values.wrapper /\ values'.params = values.params
      BY <3>2 DEF TypeOK, Values
    <3>5. Links'
      BY <2>1, <2>2, <2>5, <3>4 DEF Links, Chain, NoAccount, Account, Quiet, Passcode
    <3>6. Waits'
      BY <2>2 DEF Waits, Quiet
    <3> QED BY <2>3, <3>3, <3>5, <3>6 DEF RunInv
  <2> QED BY <2>2, <2>4, <2>5
<1>3. ASSUME NEW kind \in {"register", "signin"}, NEW a \in AccountKey, Authenticate(kind, a) PROVE RunInv'
  <2>1. /\ op = Idle /\ op.pc = "idle" /\ running /\ ~Own /\ Written(values)
        /\ Chain(keyMode, rootKey, keychain, values) /\ Current
    BY <1>3, BeginIs DEF Authenticate
  <2>2. /\ op'.pc = "request" /\ op'.key = a /\ op'.by = values.wrapper /\ op'.kind = kind
        /\ op'.back = FALSE
        /\ UNCHANGED <<keyMode, rootKey, values, disk, keychain, writes>>
    BY <1>3 DEF Authenticate, Idle
  <2>3. Links'
    BY <2>1, <2>2 DEF Links, Chain, Bare, NoAccount, Account, Quiet, Passcode
  <2>4. Bound'
    BY <2>2 DEF Bound, Authenticating, Quiet
  <2>5. ~Own' /\ Written(values)' /\ Current'
    BY <2>1, <2>2, SameWrites
  <2> QED BY <2>1, <2>3, <2>4, <2>5 DEF RunInv
<1>4. ASSUME NEW a \in AccountKey, ChangePassword(a) PROVE RunInv'
  <2>1. /\ op = Idle /\ op.pc = "idle" /\ running /\ ~Own /\ Written(values)
        /\ Chain(keyMode, rootKey, keychain, values) /\ Current
    BY <1>4, BeginIs DEF ChangePassword
  <2>2. /\ op'.pc = "request" /\ op'.key = a /\ op'.by = values.wrapper /\ op'.kind = "password"
        /\ op'.back = FALSE /\ op'.old = rootKey /\ rootKey \in AccountKey
        /\ UNCHANGED <<keyMode, rootKey, values, disk, keychain, writes>>
    BY <1>4, <2>1 DEF ChangePassword, Idle, hasAccount, Chain, Account
  <2>3. Links'
    BY <2>1, <2>2 DEF Links, Chain, Bare, NoAccount, Account, Quiet, Passcode
  <2>4. Bound'
    BY <2>2 DEF Bound, Authenticating, Quiet
  <2>5. ~Own' /\ Written(values)' /\ Current'
    BY <2>1, <2>2, SameWrites
  <2> QED BY <2>1, <2>3, <2>4, <2>5 DEF RunInv
<1>5. ASSUME SignOut PROVE RunInv'
  <2>1. ~Own /\ rootKey \in Key
    BY <1>5, BeginIs DEF SignOut, TypeOK
  <2>2. /\ op'.pc = "clear" /\ keychain' = None /\ keyMode' = "none" /\ rootKey' = None
        /\ values' = [wrapper |-> None, wrapped |-> Unwrapped, params |-> None]
        /\ PersistValues(rootKey, "operation")
    BY <1>5 DEF SignOut, Idle
  <2>3. Links'
    BY <2>2 DEF Links, Chain, Bare, NoAccount, Quiet, Passcode
  <2>4. Bound'
    BY <2>2 DEF Bound, Authenticating, Quiet
  <2>5. Own'
    <3>1. /\ writes' \in Seq(Write) /\ Len(writes) \in Nat /\ Len(writes') = Len(writes) + 1
          /\ writes'[Len(writes) + 1] = [by |-> rootKey, owner |-> "operation"]
      BY <2>1, <2>2, Appended
    <3> QED BY <3>1 DEF Own
  <2> QED BY <2>2, <2>3, <2>4, <2>5 DEF RunInv, Lags, Waits, Quiet
<1>6. ASSUME Edit PROVE RunInv'
  BY <1>6 DEF Edit, RunInv, Links, Bound, Own, Written, Waits, Lags, Current
<1> QED BY <1>1, <1>2, <1>3, <1>4, <1>5, <1>6 DEF User, RemovePasscode

LEMMA PasscodeKeeps ==
  ASSUME TypeOK, RunInv,
         \/ Wrap \/ SetWrapperParams \/ RemoveWrapperParams \/ SaveRootKeyToKeychain
         \/ DeleteItemsKeys \/ \E p \in PasscodeKey : RewriteItemsKeys(p)
  PROVE  RunInv'
<1> USE DEF memory, device, items, history
<1>0. op \in Operation /\ values \in Values /\ rootKey \in Key
  BY DEF TypeOK
<1>1. ASSUME Wrap PROVE RunInv'
  <2>1. op.pc = "wrap" /\ ~Own /\ Written(values) /\ Links /\ Current
    BY <1>1, AtIs DEF Wrap, Lags
  <2>2. op'.pc = "params" /\ op'.key = op.key /\ UNCHANGED <<keyMode, disk, keychain>>
    BY <1>0, <1>1 DEF Wrap, Goto, Operation
  <2>3. /\ op.key \in PasscodeKey /\ keychain = None /\ values.wrapper = None
        /\ values.wrapped = Unwrapped
        /\ \/ keyMode = "wrapper" /\ values.params = None
           \/ keyMode = "both" /\ Account(rootKey, values)
    BY <2>1 DEF Links, Passcode
  <2>4. Bound'
    BY <2>2 DEF Bound, Authenticating, Quiet
  <2>5. CASE keyMode = "wrapper"
    <3>1. rootKey' = op.key /\ UNCHANGED <<values, writes>>
      BY <1>1, <2>5 DEF Wrap
    <3>2. Links'
      BY <2>2, <2>3, <2>5, <3>1 DEF Links, Quiet, Passcode
    <3>3. Written(values)' /\ ~Own' /\ Lags'
      BY <2>1, <2>2, <2>5, <3>1 DEF Written, Own, Lags
    <3> QED BY <2>4, <3>2, <3>3 DEF RunInv
  <2>6. CASE keyMode = "both"
    <3>1. /\ rootKey' = rootKey /\ PersistValues(rootKey, "operation")
          /\ values' = [values EXCEPT !.wrapped = [key |-> rootKey, by |-> op.key]]
      BY <1>1, <2>6 DEF Wrap, SetValue
    <3>2. Own' /\ Current'
      BY <1>0, <2>1, <3>1, OwnWrite
    <3>3. /\ values'.wrapped = [key |-> rootKey, by |-> op.key]
          /\ values'.wrapper = values.wrapper /\ values'.params = values.params
      BY <1>0, <3>1 DEF Values
    <3>4. Links'
      BY <2>2, <2>3, <2>6, <3>1, <3>3 DEF Links, Quiet, Passcode, Account
    <3> QED BY <2>2, <2>4, <3>2, <3>4 DEF RunInv, Waits, Quiet
  <2> QED BY <2>3, <2>5, <2>6
<1>2. ASSUME SetWrapperParams PROVE RunInv'
  <2>1. op.pc = "params" /\ ~Own /\ Links
    BY <1>2, AtIs DEF SetWrapperParams
  <2>2. /\ op'.pc = "delete" /\ UNCHANGED <<keyMode, rootKey, disk, keychain>>
        /\ PersistValues(rootKey, "operation") /\ values' = [values EXCEPT !.wrapper = op.key]
    BY <1>0, <1>2 DEF SetWrapperParams, Goto, SetValue, Operation
  <2>3. Own' /\ Current'
    BY <1>0, <2>1, <2>2, OwnWrite
  <2>4. values'.wrapper = op.key /\ values'.wrapped = values.wrapped /\ values'.params = values.params
    BY <1>0, <2>2 DEF Values
  <2>5. Links'
    BY <2>1, <2>2, <2>4 DEF Links, Chain, Quiet, Passcode, Account
  <2>6. Bound'
    BY <2>2 DEF Bound, Authenticating, Quiet
  <2> QED BY <2>2, <2>3, <2>5, <2>6 DEF RunInv, Waits, Quiet
<1>3. ASSUME RemoveWrapperParams PROVE RunInv'
  <2>1. op.pc = "unparams" /\ ~Own /\ Links
    BY <1>3, AtIs DEF RemoveWrapperParams
  <2>2. values.wrapper # None
    BY <2>1, KeysDiffer DEF Links
  <2>3. /\ op'.pc = "keychain" /\ UNCHANGED <<keyMode, rootKey, disk, keychain>>
        /\ PersistValues(rootKey, "operation") /\ values' = [values EXCEPT !.wrapper = None]
    BY <1>0, <1>3, <2>2 DEF RemoveWrapperParams, RemoveValue, Goto, SetValue, Operation
  <2>4. Own' /\ Current'
    BY <1>0, <2>1, <2>3, OwnWrite
  <2>5. values'.wrapper = None /\ values'.wrapped = values.wrapped /\ values'.params = values.params
    BY <1>0, <2>3 DEF Values
  <2>6. Links'
    BY <2>1, <2>3, <2>5 DEF Links, Quiet, Passcode, Account, NoAccount
  <2>7. Bound'
    BY <2>3 DEF Bound, Authenticating, Quiet
  <2> QED BY <2>3, <2>4, <2>6, <2>7 DEF RunInv, Waits, Quiet
<1>4. ASSUME SaveRootKeyToKeychain PROVE RunInv'
  <2>1. op.pc = "keychain" /\ ~Own /\ Written(values) /\ Links /\ Current
    BY <1>4, AtIs DEF SaveRootKeyToKeychain, Lags
  <2>2. /\ op'.pc = "delete" /\ UNCHANGED <<keyMode, rootKey, values, writes, disk>>
        /\ keychain' = IF keyMode = "root" THEN rootKey ELSE keychain
    BY <1>0, <1>4 DEF SaveRootKeyToKeychain, Goto, Operation
  <2>3. ~Own' /\ Written(values)' /\ Current'
    BY <2>1, <2>2, SameWrites
  <2>4. Links'
    BY <2>1, <2>2 DEF Links, Chain, Bare, Quiet, Passcode, Account, NoAccount
  <2>5. Bound'
    BY <2>2 DEF Bound, Authenticating, Quiet
  <2> QED BY <2>3, <2>4, <2>5 DEF RunInv
<1>5. ASSUME DeleteItemsKeys PROVE RunInv'
  <2>1. op.pc = "delete" /\ ~Own /\ Written(values) /\ Links /\ Current
    BY <1>5, AtIs DEF DeleteItemsKeys, Lags
  <2>2. op'.pc = "rewrite" /\ UNCHANGED <<keyMode, rootKey, values, writes, disk, keychain>>
    BY <1>0, <1>5 DEF DeleteItemsKeys, Goto, Operation
  <2>3. ~Own' /\ Written(values)' /\ Current'
    BY <2>1, <2>2, SameWrites
  <2>4. Links'
    BY <2>1, <2>2 DEF Links, Chain, Bare, Quiet, Passcode, Account, NoAccount
  <2>5. Bound'
    BY <2>2 DEF Bound, Authenticating, Quiet
  <2> QED BY <2>3, <2>4, <2>5 DEF RunInv
<1>6. ASSUME NEW p \in PasscodeKey, RewriteItemsKeys(p) PROVE RunInv'
  <2>1. /\ op.pc = "rewrite" /\ ~Own /\ Written(values) /\ Current
        /\ Chain(keyMode, rootKey, keychain, values)
    BY <1>6, AtIs DEF RewriteItemsKeys, Lags, Links, Quiet
  <2>2. UNCHANGED <<rootKey, values, writes, disk>>
    BY <1>6 DEF RewriteItemsKeys, SetWrapper
  <2>3. ~Own' /\ Written(values)' /\ Current'
    BY <2>1, <2>2, SameWrites
  <2>4. CASE op' = Idle /\ UNCHANGED <<keyMode, keychain>>
    <3>1. op'.pc = "idle"
      BY <2>4 DEF Idle
    <3>2. Links'
      BY <2>1, <2>2, <2>4, <3>1 DEF Links, Chain, Bare, Quiet, Passcode, Account, NoAccount
    <3>3. Bound'
      BY <2>4, <3>1 DEF Bound, Authenticating, Quiet, Idle
    <3> QED BY <2>3, <3>2, <3>3 DEF RunInv
  <2>5. CASE ~hasPasscode /\ SetWrapper(p, op)
    <3>1. /\ op'.pc = "wrap" /\ op'.key = p /\ keychain' = None
          /\ keyMode' = IF keyMode \in {"none", "wrapper"} THEN "wrapper" ELSE "both"
          /\ keyMode \in {"none", "root"}
      BY <1>0, <2>1, <2>5 DEF SetWrapper, Operation, hasPasscode, Chain
    <3>2. Links'
      BY <2>1, <2>2, <3>1 DEF Links, Chain, Bare, NoAccount, Account, Quiet, Passcode
    <3>3. Bound'
      BY <3>1 DEF Bound, Authenticating, Quiet
    <3> QED BY <2>3, <3>2, <3>3 DEF RunInv
  <2> QED BY <1>6, <2>4, <2>5 DEF RewriteItemsKeys
<1> QED BY <1>1, <1>2, <1>3, <1>4, <1>5, <1>6

LEMMA AuthenticationKeeps ==
  ASSUME TypeOK, RunInv, Request \/ SetRootKey \/ StoreRootKey \/ MarkAllItems \/ PasswordChanged
  PROVE  RunInv'
<1> USE DEF memory, device, items, history
<1>0. op \in Operation /\ values \in Values /\ rootKey \in Key
  BY DEF TypeOK
<1>1. ASSUME Request PROVE RunInv'
  <2>1. /\ op.pc = "request" /\ ~Own /\ Written(values) /\ Current /\ Bound
        /\ Chain(keyMode, rootKey, keychain, values)
    BY <1>1, AtIs DEF Request, Lags, Links, Quiet
  <2>2. UNCHANGED <<keyMode, rootKey, values, writes, disk, keychain>>
    BY <1>1 DEF Request
  <2>3. ~Own' /\ Written(values)' /\ Current'
    BY <2>1, <2>2, SameWrites
  <2>4. \/ op' = [op EXCEPT !.pc = "root"]
        \/ op' = [op EXCEPT !.pc = "itemskey"] /\ op.back
        \/ op' = Idle
    BY <1>1 DEF Request, Goto, Fails
  <2>5. op'.pc \in {"root", "itemskey", "idle"} /\ (op'.pc = "idle" => op' = Idle)
    BY <1>0, <2>4 DEF Operation, Idle
  <2>6. Links'
    BY <2>1, <2>2, <2>5 DEF Links, Chain, Bare, Quiet, Passcode, Account, NoAccount
  <2>7. Bound'
    <3>1. CASE op' = Idle
      BY <3>1 DEF Bound, Authenticating, Quiet, Idle
    <3>2. CASE op' # Idle
      <4>1. /\ op'.pc \in {"root", "itemskey"} /\ op'.kind = op.kind /\ op'.key = op.key
            /\ op'.old = op.old /\ op'.by = op.by /\ op'.back = op.back
            /\ op'.pc = "itemskey" => op.back
        BY <1>0, <2>4, <3>2 DEF Operation
      <4> QED BY <2>1, <2>2, <4>1 DEF Bound, Authenticating, Quiet
    <3> QED BY <3>1, <3>2
  <2> QED BY <2>3, <2>6, <2>7 DEF RunInv
<1>2. ASSUME SetRootKey PROVE RunInv'
  <2>1. /\ op.pc = "root" /\ ~Own /\ Bound /\ op.key \in AccountKey
        /\ Chain(keyMode, rootKey, keychain, values)
    BY <1>2, AtIs DEF SetRootKey, Links, Bound, Authenticating, Quiet
  <2>2. /\ op'.pc = "store" /\ op'.kind = op.kind /\ op'.key = op.key
        /\ op'.old = op.old /\ op'.by = op.by /\ op'.back = op.back
        /\ keyMode' = IF keyMode \in {"wrapper", "both"} THEN "both" ELSE "root"
        /\ rootKey' = op.key /\ PersistValues(op.key, "operation")
        /\ values' = [values EXCEPT !.params = op.key] /\ UNCHANGED <<disk, keychain>>
    BY <1>0, <1>2 DEF SetRootKey, Goto, SetValue, Operation
  <2>3. Own' /\ Current'
    BY <1>0, <2>1, <2>2, OwnWrite DEF Operation
  <2>4. values'.wrapper = values.wrapper /\ values'.wrapped = values.wrapped /\ values'.params = op.key
    BY <1>0, <2>2 DEF Values
  <2>5. Links'
    BY <2>1, <2>2, <2>4 DEF Links, Chain, Bare, Quiet, Passcode, Account, NoAccount
  <2>6. Bound'
    BY <2>1, <2>2, <2>4 DEF Bound, Authenticating, Quiet
  <2> QED BY <2>2, <2>3, <2>5, <2>6 DEF RunInv, Waits, Quiet
<1>3. ASSUME StoreRootKey PROVE RunInv'
  <2>1. op.pc = "store" /\ ~Own /\ Written(values) /\ Current /\ Bound /\ Links
    BY <1>3, AtIs DEF StoreRootKey, Lags
  <2>2. /\ op'.pc = "mark" /\ op'.kind = op.kind /\ op'.key = op.key
        /\ op'.old = op.old /\ op'.by = op.by /\ op'.back = op.back
        /\ UNCHANGED <<keyMode, rootKey, disk>>
    BY <1>0, <1>3 DEF StoreRootKey, Goto, Operation
  <2>3. /\ Account(rootKey, values) /\ op.by = values.wrapper
        /\ \/ keyMode = "root" /\ Bare(values)
           \/ keyMode = "both" /\ values.wrapper \in PasscodeKey /\ keychain = None
    BY <2>1 DEF Links, Bound, Authenticating, Quiet
  <2>4. CASE keyMode = "root"
    <3>1. keychain' = rootKey /\ UNCHANGED <<values, writes>>
      BY <1>3, <2>4 DEF StoreRootKey
    <3>2. ~Own' /\ Written(values)' /\ Current'
      BY <2>1, <2>2, <3>1, SameWrites
    <3>3. Links' /\ Bound'
      BY <2>1, <2>2, <2>3, <2>4, <3>1
         DEF Links, Bound, Authenticating, Chain, Bare, Quiet, Passcode, Account
    <3> QED BY <3>2, <3>3 DEF RunInv
  <2>5. CASE keyMode = "both"
    <3>1. /\ keychain' = keychain /\ PersistValues(rootKey, "operation")
          /\ values' = [values EXCEPT !.wrapped = [key |-> rootKey, by |-> op.by]]
      BY <1>3, <2>5 DEF StoreRootKey, SetValue
    <3>2. Own' /\ Current'
      BY <1>0, <2>1, <2>2, <3>1, OwnWrite
    <3>3. /\ values'.wrapped = [key |-> rootKey, by |-> op.by]
          /\ values'.wrapper = values.wrapper /\ values'.params = values.params
      BY <1>0, <3>1 DEF Values
    <3>4. Links' /\ Bound'
      BY <2>1, <2>2, <2>3, <2>5, <3>1, <3>3
         DEF Links, Bound, Authenticating, Chain, Bare, Quiet, Passcode, Account
    <3> QED BY <2>2, <3>2, <3>4 DEF RunInv, Waits, Quiet
  <2> QED BY <2>3, <2>4, <2>5
<1>4. ASSUME MarkAllItems \/ PasswordChanged PROVE RunInv'
  <2>1. /\ op.pc = "mark" /\ ~Own /\ Written(values) /\ Current /\ Bound
        /\ Chain(keyMode, rootKey, keychain, values)
    BY <1>4, AtIs DEF MarkAllItems, PasswordChanged, Lags, Links
  <2>2. UNCHANGED <<keyMode, rootKey, values, disk, keychain>> /\ PersistValues(rootKey, "other")
    BY <1>4 DEF MarkAllItems, PasswordChanged
  <2>3. ~Own' /\ Written(values)' /\ Current'
    BY <2>1, <2>2, OtherWrite DEF Written
  <2>4. op' = Idle \/ (op' = [op EXCEPT !.pc = "itemskey"] /\ op.kind = "password")
    BY <1>4 DEF MarkAllItems, PasswordChanged, Goto
  <2>5. op'.pc \in {"itemskey", "idle"} /\ (op'.pc = "idle" => op' = Idle)
    BY <1>0, <2>4 DEF Operation, Idle
  <2>6. Links'
    BY <2>1, <2>2, <2>5 DEF Links, Chain, Bare, Quiet, Passcode, Account, NoAccount
  <2>7. Bound'
    <3>1. CASE op' = Idle
      BY <3>1 DEF Bound, Authenticating, Quiet, Idle
    <3>2. CASE op' # Idle
      <4>1. /\ op'.pc = "itemskey" /\ op'.kind = "password" /\ op.kind = "password"
            /\ op'.key = op.key /\ op'.old = op.old /\ op'.by = op.by
        BY <1>0, <2>4, <3>2 DEF Operation
      <4> QED BY <2>1, <2>2, <4>1 DEF Bound, Authenticating, Quiet
    <3> QED BY <3>1, <3>2
  <2> QED BY <2>3, <2>6, <2>7 DEF RunInv
<1> QED BY <1>1, <1>2, <1>3, <1>4

\* Beside an operation, and at its end, nothing of the chain changes.
Beside ==
  /\ UNCHANGED <<keyMode, rootKey, values, disk, keychain, writes>>
  /\ \/ op' = op
     \/ op' = Idle /\ op.pc \in Quiet
     \/ /\ op.pc \in {"itemskey", "sync", "syncing", "synced"}
        /\ op'.pc \in {"request", "sync", "syncing", "synced"}
        /\ op'.kind = op.kind /\ op'.by = op.by /\ op'.old = op.old
        /\ op'.key \in {op.key, op.old}

LEMMA BesideKeeps == ASSUME RunInv, Beside PROVE RunInv'
<1>1. CASE op' = op
  BY <1>1 DEF Beside, RunInv, Links, Bound, Own, Written, Waits, Lags, Current
<1>2. CASE op' # op
  <2>1. op.pc \in Quiet /\ op'.pc \in Quiet
    BY <1>2 DEF Beside, Idle, Quiet
  <2>2. ~Own /\ Written(values) /\ Current /\ Chain(keyMode, rootKey, keychain, values) /\ Bound
    BY <2>1 DEF RunInv, Waits, Lags, Links, Quiet
  <2>3. ~Own' /\ Written(values)' /\ Current'
    BY <2>2, SameWrites DEF Beside
  <2>4. Links'
    BY <2>1, <2>2 DEF Beside, Links, Chain, Bare, Quiet, Passcode, Account, NoAccount
  <2>5. Bound'
    <3>1. CASE op' = Idle
      BY <3>1 DEF Bound, Authenticating, Quiet, Idle
    <3>2. CASE op' # Idle
      BY <1>2, <2>2, <3>2 DEF Beside, Bound, Authenticating, Quiet
    <3> QED BY <3>1, <3>2
  <2> QED BY <2>3, <2>4, <2>5 DEF RunInv
<1> QED BY <1>1, <1>2

\* A step of the operation that waits for a sync, if there is one.
LEMMA GotoBeside ==
  ASSUME TypeOK, RunInv, UNCHANGED <<keyMode, rootKey, values, disk, keychain, writes>>,
         NEW pc, Goto(pc),
         \/ pc = op.pc
         \/ op.pc \in {"itemskey", "sync", "syncing"} /\ pc \in {"sync", "syncing", "synced"}
  PROVE  Beside
<1>1. op \in Operation
  BY DEF TypeOK
<1>2. CASE pc = op.pc
  BY <1>1, <1>2 DEF Goto, Operation, Beside
<1>3. CASE op.pc \in {"itemskey", "sync", "syncing"} /\ pc \in {"sync", "syncing", "synced"}
  BY <1>1, <1>3 DEF Goto, Operation, Beside
<1> QED BY <1>2, <1>3

LEMMA SyncKeeps ==
  ASSUME TypeOK, RunInv,
         \/ \E k \in ItemsKey : NewItemsKey(k)
         \/ AwaitedSync \/ Rollback \/ Sync
  PROVE  RunInv'
<1> USE DEF memory, device, items, history
<1>1. ASSUME NEW k \in ItemsKey, NewItemsKey(k) PROVE Beside
  <2>1. op \in Operation /\ op.pc = "itemskey"
    BY <1>1 DEF NewItemsKey, At, TypeOK
  <2>2. PICK d \in DefaultKeys : op' = [op EXCEPT !.pc = "sync", !.itemsKey = k, !.was = d]
    BY <1>1 DEF NewItemsKey
  <2>3. op'.pc = "sync" /\ op'.kind = op.kind /\ op'.by = op.by /\ op'.old = op.old /\ op'.key = op.key
    BY <2>1, <2>2 DEF Operation
  <2> QED BY <1>1, <2>1, <2>3 DEF NewItemsKey, Beside
<1>2. ASSUME AwaitedSync PROVE Beside
  <2>1. op \in Operation /\ op.pc = "synced"
    BY <1>2 DEF AwaitedSync, At, TypeOK
  <2>2. op' = Idle \/ op' = [op EXCEPT !.pc = "request", !.key = op.old, !.back = TRUE]
    BY <1>2 DEF AwaitedSync
  <2>3. \/ op' = Idle
        \/ /\ op'.pc = "request" /\ op'.kind = op.kind /\ op'.by = op.by /\ op'.old = op.old
           /\ op'.key = op.old
    BY <2>1, <2>2 DEF Operation
  <2> QED BY <1>2, <2>1, <2>3 DEF AwaitedSync, Beside, Quiet
<1>3. ASSUME Rollback PROVE Beside
  BY <1>3, GotoBeside DEF Rollback, At
<1>4. ASSUME Save PROVE Beside
  BY <1>4, GotoBeside DEF Save
<1>5. ASSUME DownloadFirst \/ RecoverKeys PROVE Beside
  BY <1>5 DEF DownloadFirst, RecoverKeys, Beside
<1>6. ASSUME SyncFails \/ \E fresh \in ItemsKey \union {None} : Uploaded(fresh) PROVE Beside
  <2>1. SyncEnds /\ UNCHANGED <<keyMode, rootKey, values, disk, keychain, writes>>
    BY <1>6 DEF SyncFails, Uploaded
  <2> QED BY <2>1, GotoBeside DEF SyncEnds
<1> QED BY <1>1, <1>2, <1>3, <1>4, <1>5, <1>6, BesideKeeps DEF Sync

LEMMA WritesKeep ==
  ASSUME TypeOK, RunInv, SetRawStorageValue \/ SetOtherValue
  PROVE  RunInv'
<1> USE DEF device, items, history
<1>1. UNCHANGED <<keyMode, rootKey, values, keychain, op>>
  BY DEF SetRawStorageValue, SetOtherValue
<1>2. Links' /\ Bound' /\ (Lags' <=> Lags) /\ (Waits' <=> Waits)
  BY <1>1 DEF RunInv, Links, Bound, Lags, Waits
<1>3. CASE SetRawStorageValue
  BY <1>1, <1>2, <1>3, PoppedWrite DEF RunInv
<1>4. CASE SetOtherValue
  <2>1. PersistValues(rootKey, "other") /\ disk' = disk
    BY <1>4 DEF SetOtherValue
  <2>2. (Own' <=> Own) /\ (Current => Current')
    BY <1>1, <2>1, OtherWrite
  <2>3. Written(values) => Written(values)'
    BY <1>1, <2>1 DEF Written
  <2> QED BY <1>2, <2>2, <2>3 DEF RunInv
<1> QED BY <1>3, <1>4

(****************************************************************************)
(* The end of the application, where the chain is whole, and its launch.    *)
(****************************************************************************)
LEMMA EndKeeps ==
  ASSUME TypeOK, RunInv, running, (End /\ op.pc \in Quiet) \/ ClearAllData
  PROVE  ChainInv'
<1> USE DEF memory, device, items, history
<1>1. CASE End /\ op.pc \in Quiet
  <2>1. /\ Chain(keyMode, rootKey, keychain, values) /\ Written(values)
        /\ disk.by = rootKey
    BY <1>1 DEF End, RunInv, Waits, Lags, Current, Links, Quiet
  <2>2. Opened
    BY <2>1, ChainOpens DEF Opened
  <2>3. running' = FALSE /\ UNCHANGED <<disk, keychain>>
    BY <1>1 DEF End
  <2>4. Opened'
    BY <2>2, <2>3 DEF Opened, Chain, Bare, NoAccount, Account, StoredMode, HasRootKey, OpenedKey,
                      NeedsKeychainRepair
  <2> QED BY <2>3, <2>4 DEF ChainInv
<1>2. CASE ClearAllData
  <2>1. keychain = None
    BY <1>2, AtIs DEF ClearAllData, Links, Chain
  <2>2. /\ running' = FALSE /\ keychain' = None
        /\ disk' = [by |-> None, wrapper |-> None, wrapped |-> Unwrapped, params |-> None]
    BY <1>2, <2>1 DEF ClearAllData
  <2>3. Opened'
    BY <2>2 DEF Opened, Chain, Bare, NoAccount, Account, StoredMode, HasRootKey, OpenedKey
  <2> QED BY <2>2, <2>3 DEF ChainInv
<1> QED BY <1>1, <1>2

LEMMA LaunchKeeps == ASSUME TypeOK, Opened, Launch PROVE ChainInv'
<1> USE DEF memory, device, items, history
<1>1. Chain(StoredMode, OpenedKey, keychain, disk) /\ disk.by = OpenedKey
  BY DEF Opened
<1>2. ~NeedsKeychainRepair
  BY <1>1, ChainOpens DEF Written
<1>3. /\ running' = TRUE /\ keyMode' = StoredMode /\ rootKey' = OpenedKey /\ keychain' = keychain
      /\ values' = [wrapper |-> disk.wrapper, wrapped |-> disk.wrapped, params |-> disk.params]
      /\ writes' = <<>> /\ op' = Idle /\ disk' = disk
  BY <1>2 DEF Launch
<1>4. op'.pc = "idle"
  BY <1>3 DEF Idle
<1>5. Links'
  BY <1>1, <1>3, <1>4 DEF Links, Chain, Bare, NoAccount, Account, Quiet, Passcode
<1>6. Bound'
  BY <1>3, <1>4 DEF Bound, Authenticating, Quiet, Idle
<1>7. ~Own' /\ Written(values)' /\ Current'
  BY <1>1, <1>3 DEF Own, Written, Current
<1> QED BY <1>3, <1>5, <1>6, <1>7 DEF ChainInv, RunInv

LEMMA ChainInvInit == Init => ChainInv
<1> SUFFICES ASSUME Init PROVE ChainInv
  OBVIOUS
<1>1. running = TRUE /\ op = Idle /\ op.pc = "idle" /\ writes = <<>>
  BY DEF Init, Idle
<1>2. Links /\ Bound
  BY <1>1 DEF Init, Links, Chain, Bare, NoAccount, Account, Quiet, Passcode, Bound, Authenticating,
              Idle
<1>3. ~Own /\ Written(values) /\ Current
  BY <1>1 DEF Init, Own, Written, Current
<1> QED BY <1>1, <1>2, <1>3 DEF ChainInv, RunInv

LEMMA ChainInvNext ==
  ASSUME TypeOK, ChainInv, [Next]_vars, End => op.pc \in Quiet
  PROVE  ChainInv'
<1> USE DEF memory, device, items, history
<1>1. CASE UNCHANGED vars
  BY <1>1 DEF vars, ChainInv, RunInv, Links, Bound, Own, Written, Waits, Lags, Current, Opened, Chain,
              Bare, NoAccount, Account, StoredMode, HasRootKey, OpenedKey, NeedsKeychainRepair
<1>2. CASE User
  <2>1. running /\ running' = running
    BY <1>2 DEF User, AddPasscode, RemovePasscode, RemoveWrapper, Authenticate, ChangePassword,
                SignOut, Edit, Begin
  <2> QED BY <1>2, <2>1, UserKeeps DEF ChainInv
<1>3. CASE \/ Wrap \/ SetWrapperParams \/ RemoveWrapperParams \/ SaveRootKeyToKeychain
           \/ DeleteItemsKeys \/ \E p \in PasscodeKey : RewriteItemsKeys(p)
  <2>1. running /\ running' = running
    BY <1>3 DEF Wrap, SetWrapperParams, RemoveWrapperParams, SaveRootKeyToKeychain, DeleteItemsKeys,
                RewriteItemsKeys, At
  <2> QED BY <1>3, <2>1, PasscodeKeeps DEF ChainInv
<1>4. CASE Request \/ SetRootKey \/ StoreRootKey \/ MarkAllItems \/ PasswordChanged
  <2>1. running /\ running' = running
    BY <1>4 DEF Request, SetRootKey, StoreRootKey, MarkAllItems, PasswordChanged, At
  <2> QED BY <1>4, <2>1, AuthenticationKeeps DEF ChainInv
<1>5. CASE (\E k \in ItemsKey : NewItemsKey(k)) \/ AwaitedSync \/ Rollback \/ Sync
  <2>1. running /\ running' = running
    BY <1>5 DEF NewItemsKey, AwaitedSync, Rollback, Sync, Save, DownloadFirst, Uploaded, SyncFails,
                RecoverKeys, At
  <2> QED BY <1>5, <2>1, SyncKeeps DEF ChainInv
<1>6. CASE SetRawStorageValue \/ SetOtherValue
  <2>1. running /\ running' = running
    BY <1>6 DEF SetRawStorageValue, SetOtherValue
  <2> QED BY <1>6, <2>1, WritesKeep DEF ChainInv
<1>7. CASE End \/ ClearAllData
  <2>1. running
    BY <1>7 DEF End, ClearAllData, At
  <2> QED BY <1>7, <2>1, EndKeeps DEF ChainInv
<1>8. CASE Launch
  <2>1. ~running
    BY <1>8 DEF Launch
  <2> QED BY <1>8, <2>1, LaunchKeeps DEF ChainInv
<1> QED BY <1>1, <1>2, <1>3, <1>4, <1>5, <1>6, <1>7, <1>8 DEF Next, Credentials

\* The steps at which the application may end.
SafeEnds == EndsAt \subseteq Quiet

(******************************************************************************)
(* If the application ends only where the chain is whole (SafeEnds), whatever *)
(* other services write in the meantime, the user always gets in again, and   *)
(* nobody has to repair the keychain.                                         *)
(******************************************************************************)
THEOREM TheUserGetsIn == ASSUME SafeEnds PROVE Spec => []Unlocks
<1>1. ChainInv => Unlocks
  <2> SUFFICES ASSUME ChainInv, ~running PROVE Unlocks
    BY DEF Unlocks
  <2>1. Chain(StoredMode, OpenedKey, keychain, disk) /\ disk.by = OpenedKey
    BY DEF ChainInv, Opened
  <2>2. ~NeedsKeychainRepair
    BY <2>1, ChainOpens DEF Written
  <2>3. StoredMode = "both" => disk.wrapped.by = disk.wrapper
    BY <2>1 DEF Chain
  <2> QED BY <2>1, <2>2, <2>3 DEF Unlocks, Reads
<1>2. TypeOK /\ ChainInv /\ [Next]_vars => ChainInv'
  BY ChainInvNext DEF End, SafeEnds
<1> QED BY <1>1, <1>2, ChainInvInit, TypeCorrect, PTL DEF Spec

LEMMA InterruptedStays == [Next]_vars => (interrupted => interrupted')
<1> SUFFICES ASSUME [Next]_vars, interrupted PROVE interrupted'
  OBVIOUS
<1> USE DEF history
<1>1. CASE User
  BY <1>1 DEF User, AddPasscode, RemovePasscode, RemoveWrapper, Authenticate, ChangePassword,
              SignOut, Edit
<1>2. CASE Credentials
  <2>1. CASE \/ Wrap \/ SetWrapperParams \/ RemoveWrapperParams \/ SaveRootKeyToKeychain
             \/ DeleteItemsKeys \/ Request \/ SetRootKey \/ StoreRootKey \/ MarkAllItems
             \/ PasswordChanged \/ (\E k \in ItemsKey : NewItemsKey(k)) \/ AwaitedSync
             \/ Rollback \/ ClearAllData
    BY <2>1 DEF Wrap, SetWrapperParams, RemoveWrapperParams, SaveRootKeyToKeychain, DeleteItemsKeys,
                Request, SetRootKey, StoreRootKey, MarkAllItems, PasswordChanged, NewItemsKey,
                AwaitedSync, Rollback, ClearAllData
  <2>2. CASE \E p \in PasscodeKey : RewriteItemsKeys(p)
    BY <2>2 DEF RewriteItemsKeys
  <2> QED BY <1>2, <2>1, <2>2 DEF Credentials
<1>3. CASE Sync \/ SetRawStorageValue \/ SetOtherValue \/ End \/ Launch
  BY <1>3 DEF Sync, Save, DownloadFirst, Uploaded, SyncFails, RecoverKeys, SetRawStorageValue,
              SetOtherValue, End, Launch
<1> QED BY <1>1, <1>2, <1>3 DEF Next, vars

\* Between operations, when everything is written: the part of NothingIsBare that is about the
\* keychain and the values.
ValuesCovered ==
  running /\ op = Idle /\ writes = <<>> /\ ~interrupted =>
    /\ keychain = IF hasPasscode THEN None ELSE rootKey
    /\ disk.by = rootKey

(****************************************************************************)
(* Wherever the application may end: unless an operation was cut short, its *)
(* operations leave no root key in the keychain that a passcode is to wrap, *)
(* and no values under any but the current root key, whatever other         *)
(* services wrote in the meantime.                                          *)
(****************************************************************************)
THEOREM NothingIsLeftInKeychain == Spec => []ValuesCovered
<1>1. Init => interrupted \/ ChainInv
  BY ChainInvInit
<1>2. TypeOK /\ (interrupted \/ ChainInv) /\ [Next]_vars => (interrupted \/ ChainInv)'
  <2> SUFFICES ASSUME TypeOK, ChainInv, [Next]_vars, ~interrupted' PROVE ChainInv'
    BY InterruptedStays
  <2>1. End => op.pc \in Quiet
    <3>1. End => op = Idle
      BY Zenon DEF End
    <3> QED BY <3>1 DEF Idle, Quiet
  <2> QED BY <2>1, ChainInvNext
<1>3. TypeOK /\ (interrupted \/ ChainInv) => ValuesCovered
  <2> SUFFICES ASSUME TypeOK, ChainInv, running, op = Idle, writes = <<>>
               PROVE  /\ keychain = IF hasPasscode THEN None ELSE rootKey
                      /\ disk.by = rootKey
    BY DEF ValuesCovered
  <2>1. op.pc = "idle" /\ ~Own /\ RunInv
    BY DEF Idle, Own, ChainInv
  <2>2. Chain(keyMode, rootKey, keychain, values) /\ disk.by = rootKey
    BY <2>1 DEF RunInv, Links, Quiet, Lags, Current
  <2> QED BY <2>2 DEF Chain, NoAccount, hasPasscode
<1> QED BY <1>1, <1>2, <1>3, TypeCorrect, PTL DEF Spec

=============================================================================
