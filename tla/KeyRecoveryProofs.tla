-------------------------- MODULE KeyRecoveryProofs --------------------------
(***************************************************************************)
(* That key recovery never sets the client's root key back, for any number *)
(* of root keys and bounds, whatever arrives, is answered and changes in   *)
(* the meantime.                                                           *)
(***************************************************************************)
EXTENDS KeyRecovery, NaturalsInduction, WellFoundedInduction, FiniteSetTheorems, TLAPS

(***************************************************************************)
(* What a filtered array holds, for arrays of any length.  The induction   *)
(* is by the least counterexample, which is a fact about sets of numbers.  *)
(***************************************************************************)
LEMMA Least ==
  ASSUME NEW T \in SUBSET Nat, T # {}
  PROVE  \E m \in T : \A n \in T : m <= n
<1> DEFINE R == {p \in Nat \X Nat : p[1] < p[2]}
<1>1. IsWellFoundedOn(R, Nat)
  BY NatLessThanWellFounded DEF OpToRel
<1>2. PICK m \in T : \A n \in T : ~ (<<n, m>> \in R)
  <2> HIDE DEF R
  <2> QED BY <1>1, WFMin
<1> SUFFICES ASSUME NEW n \in T, n < m PROVE FALSE
  BY <1>2
<1>3. <<n, m>> \in R
  OBVIOUS
<1> QED BY <1>2, <1>3

\* Induction up to N, of a set instead of a predicate.
LEMMA UpTo ==
  ASSUME NEW N \in Nat, NEW T, 0 \in T, \A n \in 0 .. N - 1 : n \in T => n + 1 \in T
  PROVE  \A n \in 0 .. N : n \in T
<1> DEFINE Out == (0 .. N) \ T
<1> SUFFICES ASSUME Out # {} PROVE FALSE
  OBVIOUS
<1>1. PICK m \in Out : \A n \in Out : m <= n
  <2>1. Out \in SUBSET Nat
    OBVIOUS
  <2> QED BY <2>1, Least
<1>2. m - 1 \in 0 .. N - 1 /\ m - 1 \notin Out /\ (m - 1) + 1 = m
  BY <1>1
<1> QED BY <1>1, <1>2

\* What the function that Where computes with is, and that there is one.
Filters(g, q, S, n) ==
  g = [i \in 0 .. n |-> IF i = 0 THEN <<>>
                        ELSE IF q[i] \in S THEN Append(g[i - 1], q[i]) ELSE g[i - 1]]

LEMMA FilterExists ==
  ASSUME NEW I, NEW q \in Seq(I), NEW S, NEW n \in 0 .. Len(q)
  PROVE  \E g : Filters(g, q, S, n)
<1> DEFINE Lacking == {m \in 0 .. Len(q) : ~ \E g : Filters(g, q, S, m)}
<1> SUFFICES ASSUME Lacking # {} PROVE FALSE
  OBVIOUS
<1>1. PICK m \in Lacking : \A k \in Lacking : m <= k
  <2>1. Lacking \subseteq Nat
    BY Len(q) \in Nat
  <2> QED BY <2>1, Least
<1>2. CASE m = 0
  <2>1. Filters([i \in 0 .. 0 |-> <<>>], q, S, 0)
    BY DEF Filters
  <2> QED BY <1>1, <1>2, <2>1
<1>3. CASE m # 0
  <2>1. m - 1 \in 0 .. Len(q) /\ m - 1 \notin Lacking
    BY <1>1, <1>3, Len(q) \in Nat
  <2>2. PICK g : Filters(g, q, S, m - 1)
    BY <2>1
  <2> DEFINE h == [i \in 0 .. m |-> IF i = m THEN IF q[m] \in S THEN Append(g[m - 1], q[m])
                                                  ELSE g[m - 1]
                                    ELSE g[i]]
  <2>3. \A i \in 0 .. m : h[i] = IF i = 0 THEN <<>>
                                 ELSE IF q[i] \in S THEN Append(h[i - 1], q[i]) ELSE h[i - 1]
    <3> SUFFICES ASSUME NEW i \in 0 .. m
                 PROVE  h[i] = IF i = 0 THEN <<>>
                               ELSE IF q[i] \in S THEN Append(h[i - 1], q[i]) ELSE h[i - 1]
      OBVIOUS
    <3>1. CASE i = m
      <4>1. h[i - 1] = g[m - 1] /\ i # 0
        BY <1>1, <1>3, <3>1
      <4> QED BY <3>1, <4>1
    <3>2. CASE i # m
      <4>1. i \in 0 .. m - 1 /\ h[i] = g[i] /\ (i # 0 => h[i - 1] = g[i - 1])
        BY <1>1, <2>1, <3>2
      <4>2. g[i] = IF i = 0 THEN <<>>
                   ELSE IF q[i] \in S THEN Append(g[i - 1], q[i]) ELSE g[i - 1]
        BY <2>2, <4>1 DEF Filters
      <4> QED BY <4>1, <4>2
    <3> QED BY <3>1, <3>2
  <2>4. Filters(h, q, S, m)
    <3> HIDE DEF h
    <3> QED BY <2>3 DEF Filters, h
  <2> QED BY <1>1, <2>4
<1> QED BY <1>2, <1>3

LEMMA WhereFilters ==
  ASSUME NEW I, NEW q \in Seq(I), NEW S
  PROVE  \E g : Filters(g, q, S, Len(q)) /\ Where(q, S) = g[Len(q)]
<1> DEFINE W == CHOOSE g : Filters(g, q, S, Len(q))
<1>1. Filters(W, q, S, Len(q))
  BY FilterExists, Len(q) \in Nat
<1>2. Where(q, S) = W[Len(q)]
  BY DEF Where, Filters
<1> QED BY <1>1, <1>2

LEMMA FilterSteps ==
  ASSUME NEW I, NEW q \in Seq(I), NEW S, NEW g, Filters(g, q, S, Len(q))
  PROVE  /\ g[0] = <<>>
         /\ \A n \in 0 .. Len(q) - 1 :
              g[n + 1] = IF q[n + 1] \in S THEN Append(g[n], q[n + 1]) ELSE g[n]
<1> DEFINE Value(i) == IF i = 0 THEN <<>>
                       ELSE IF q[i] \in S THEN Append(g[i - 1], q[i]) ELSE g[i - 1]
<1>1. Len(q) \in Nat
  OBVIOUS
<1>2. \A i \in 0 .. Len(q) : g[i] = Value(i)
  <2> HIDE DEF Value
  <2>1. g = [i \in 0 .. Len(q) |-> Value(i)]
    BY DEF Filters, Value
  <2> QED BY <2>1
<1> SUFFICES ASSUME NEW n \in 0 .. Len(q) - 1
             PROVE  g[n + 1] = IF q[n + 1] \in S THEN Append(g[n], q[n + 1]) ELSE g[n]
  BY <1>1, <1>2
<1>3. n + 1 \in 0 .. Len(q) /\ n + 1 # 0 /\ (n + 1) - 1 = n
  BY <1>1
<1> QED BY <1>2, <1>3

LEMMA ToSetAppend ==
  ASSUME NEW I, NEW q \in Seq(I), NEW x \in I
  PROVE  ToSet(Append(q, x)) = ToSet(q) \union {x}
<1>1. /\ DOMAIN Append(q, x) = 1 .. Len(q) + 1 /\ DOMAIN q = 1 .. Len(q) /\ Len(q) \in Nat
      /\ Append(q, x)[Len(q) + 1] = x
      /\ \A i \in 1 .. Len(q) : Append(q, x)[i] = q[i]
  OBVIOUS
<1> QED BY <1>1 DEF ToSet

LEMMA ToSetConcat ==
  ASSUME NEW I, NEW q \in Seq(I), NEW r \in Seq(I)
  PROVE  ToSet(q \o r) = ToSet(q) \union ToSet(r)
<1>1. /\ DOMAIN (q \o r) = 1 .. Len(q) + Len(r) /\ DOMAIN q = 1 .. Len(q) /\ DOMAIN r = 1 .. Len(r)
      /\ Len(q) \in Nat /\ Len(r) \in Nat
      /\ \A i \in 1 .. Len(q) : (q \o r)[i] = q[i]
      /\ \A i \in 1 .. Len(r) : (q \o r)[Len(q) + i] = r[i]
  OBVIOUS
<1>2. \A i \in DOMAIN (q \o r) : i \in DOMAIN q \/ \E j \in DOMAIN r : i = Len(q) + j
  <2> SUFFICES ASSUME NEW i \in DOMAIN (q \o r), i \notin DOMAIN q
               PROVE  \E j \in DOMAIN r : i = Len(q) + j
    OBVIOUS
  <2>1. i - Len(q) \in DOMAIN r /\ i = Len(q) + (i - Len(q))
    BY <1>1
  <2> QED BY <2>1
<1>3. \A i \in DOMAIN (q \o r) : (q \o r)[i] \in ToSet(q) \union ToSet(r)
  BY <1>1, <1>2 DEF ToSet
<1>4. \A i \in DOMAIN q : i \in DOMAIN (q \o r) /\ q[i] = (q \o r)[i]
  BY <1>1
<1>5. \A i \in DOMAIN r : Len(q) + i \in DOMAIN (q \o r) /\ r[i] = (q \o r)[Len(q) + i]
  BY <1>1
<1>6. \A x \in ToSet(q \o r) : x \in ToSet(q) \union ToSet(r)
  BY <1>3 DEF ToSet
<1>7. \A x \in ToSet(q) : x \in ToSet(q \o r)
  BY <1>4 DEF ToSet
<1>8. \A x \in ToSet(r) : x \in ToSet(q \o r)
  BY <1>5 DEF ToSet
<1> QED BY <1>6, <1>7, <1>8

LEMMA HeadConcat ==
  ASSUME NEW I, NEW q \in Seq(I), NEW r \in Seq(I), q # <<>>
  PROVE  q \o r # <<>> /\ Head(q \o r) = Head(q)
<1>1. q \o r \in Seq(I) /\ Len(q) >= 1 /\ Len(q \o r) = Len(q) + Len(r) /\ Len(r) \in Nat
      /\ (q \o r)[1] = q[1]
  OBVIOUS
<1>2. q \o r # <<>>
  BY <1>1, Len(<<>>) = 0
<1> QED BY <1>1, <1>2

LEMMA ToSetHeadTail ==
  ASSUME NEW I, NEW q \in Seq(I), q # <<>>
  PROVE  ToSet(q) = {Head(q)} \union ToSet(Tail(q))
<1>1. /\ DOMAIN q = 1 .. Len(q) /\ DOMAIN Tail(q) = 1 .. Len(q) - 1
      /\ Len(q) \in Nat /\ Len(q) >= 1 /\ Head(q) = q[1]
      /\ \A i \in 1 .. Len(q) - 1 : Tail(q)[i] = q[i + 1]
  OBVIOUS
<1>2. \A i \in DOMAIN q : q[i] \in {Head(q)} \union ToSet(Tail(q))
  <2> SUFFICES ASSUME NEW i \in DOMAIN q, i # 1 PROVE q[i] \in ToSet(Tail(q))
    BY <1>1
  <2>1. i - 1 \in DOMAIN Tail(q) /\ Tail(q)[i - 1] = q[i]
    BY <1>1
  <2> QED BY <2>1 DEF ToSet
<1>3. Head(q) \in ToSet(q) /\ \A i \in DOMAIN Tail(q) : Tail(q)[i] \in ToSet(q)
  BY <1>1 DEF ToSet
<1> QED BY <1>2, <1>3 DEF ToSet

LEMMA SetToSeqElements ==
  ASSUME NEW S, IsFiniteSet(S)
  PROVE  SetToSeq(S) \in Seq(S) /\ ToSet(SetToSeq(S)) = S
<1> DEFINE n == Cardinality(S)
           q == SetToSeq(S)
<1>1. n \in Nat /\ \E f : f \in Bijection(1 .. n, S)
  BY FS_CardinalityType DEF ExistsBijection
<1>2. q \in [1 .. n -> S] /\ IsInjective(q)
  BY <1>1 DEF SetToSeq, Bijection, Injection
<1>3. q \in Surjection(1 .. n, S)
  <2>1. Cardinality(1 .. n) = n
    BY <1>1, FS_Interval
  <2>2. q \in Injection(1 .. n, S)
    BY <1>2 DEF Injection
  <2> HIDE DEF q
  <2> QED BY <2>1, <2>2, FS_Injection
<1> HIDE DEF q
<1>4. ToSet(q) = S
  BY <1>2, <1>3 DEF ToSet, Surjection
<1>5. q \in Seq(S)
  BY <1>1, <1>2
<1> QED BY <1>4, <1>5 DEF q

\* What Where leaves: the elements that are in S, and no more than there were.
LEMMA WhereElements ==
  ASSUME NEW I, NEW q \in Seq(I), NEW S
  PROVE  /\ Where(q, S) \in Seq(I)
         /\ ToSet(Where(q, S)) = ToSet(q) \intersect S
         /\ Len(Where(q, S)) <= Len(q)
<1>1. PICK g : Filters(g, q, S, Len(q)) /\ Where(q, S) = g[Len(q)]
  BY WhereFilters
<1> DEFINE Good(n) == /\ g[n] \in Seq(I)
                      /\ \A x : x \in ToSet(g[n]) <=> x \in S /\ \E i \in 1 .. n : x = q[i]
                      /\ Len(g[n]) <= n
           T == {n \in 0 .. Len(q) : Good(n)}
<1>2. Len(q) \in Nat /\ DOMAIN q = 1 .. Len(q) /\ \A i \in 1 .. Len(q) : q[i] \in I
  OBVIOUS
<1>3. 0 \in T
  <2>1. g[0] = <<>>
    BY <1>1, FilterSteps
  <2>2. g[0] \in Seq(I) /\ Len(g[0]) <= 0 /\ \A x : x \notin ToSet(g[0])
    BY <2>1 DEF ToSet
  <2>3. Good(0)
    BY <2>2
  <2> HIDE DEF Good
  <2> QED BY <1>2, <2>3
<1>4. ASSUME NEW n \in 0 .. Len(q) - 1, n \in T PROVE n + 1 \in T
  <2>1. g[n + 1] = IF q[n + 1] \in S THEN Append(g[n], q[n + 1]) ELSE g[n]
    BY <1>1, FilterSteps
  <2>2. n + 1 \in 1 .. Len(q) /\ n + 1 \in 0 .. Len(q) /\ q[n + 1] \in I
    BY <1>2
  <2>3. \A x : (\E i \in 1 .. n + 1 : x = q[i]) <=> (\E i \in 1 .. n : x = q[i]) \/ x = q[n + 1]
    BY <2>2
  <2>4. /\ g[n] \in Seq(I) /\ Len(g[n]) <= n
        /\ \A x : x \in ToSet(g[n]) <=> x \in S /\ \E i \in 1 .. n : x = q[i]
    BY <1>4
  <2>5. CASE q[n + 1] \in S
    <3>1. /\ g[n + 1] = Append(g[n], q[n + 1]) /\ g[n + 1] \in Seq(I) /\ Len(g[n + 1]) <= n + 1
      BY <2>1, <2>2, <2>4, <2>5
    <3>2. ToSet(g[n + 1]) = ToSet(g[n]) \union {q[n + 1]}
      BY <2>2, <2>4, <3>1, ToSetAppend
    <3>3. \A x : x \in ToSet(g[n + 1]) <=> x \in S /\ \E i \in 1 .. n + 1 : x = q[i]
      BY <2>3, <2>4, <2>5, <3>2
    <3> QED BY <2>2, <3>1, <3>3
  <2>6. CASE q[n + 1] \notin S
    <3>1. g[n + 1] = g[n] /\ Len(g[n + 1]) <= n + 1
      BY <2>1, <2>4, <2>6, <2>2
    <3>2. \A x : x \in ToSet(g[n + 1]) <=> x \in S /\ \E i \in 1 .. n + 1 : x = q[i]
      BY <2>3, <2>4, <2>6, <3>1
    <3> QED BY <2>2, <2>4, <3>1, <3>2
  <2> QED BY <2>5, <2>6
<1>5. Len(q) \in T
  <2>1. \A n \in 0 .. Len(q) : n \in T
    <3> HIDE DEF T
    <3> QED BY <1>2, <1>3, <1>4, UpTo
  <2>2. Len(q) \in 0 .. Len(q)
    BY <1>2
  <2> HIDE DEF T
  <2> QED BY <2>1, <2>2
<1>6. \A x : x \in ToSet(q) <=> \E i \in 1 .. Len(q) : x = q[i]
  BY <1>2 DEF ToSet
<1> QED BY <1>1, <1>5, <1>6

-----------------------------------------------------------------------------
(***************************************************************************)
(* The queue, and what its processing has in hand.                         *)
(***************************************************************************)

Numbers ==
  /\ account \in Root /\ rootKey \in 0 .. account /\ serverParams \in 0 .. account
  /\ open \subseteq 1 .. account /\ passcode \in BOOLEAN
  /\ current \in [items : Seq(Item), replaces : BOOLEAN]

\* Where the queue's processing is, and what that says of the parameters.
Phases ==
  /\ rootKey = None => serverParams = None /\ processing # "params"
  /\ processing = "off" => serverParams = None /\ saving = {}
  /\ processing = "head" => rootKey = None /\ ~passcode
  /\ processing = "wrap" => current.replaces
  /\ processing \in {"asked", "wrap"} =>
       /\ current.items # <<>>
       /\ current.replaces => /\ Head(current.items).params = serverParams
                              /\ rootKey <= serverParams

\* A copy of key k that is encrypted with root key r.  If r is the one that the server's
\* parameters, asked for earlier, stand for, and these are behind the client's: then a key that
\* is as new as k is open, and k does not replace the root key.
Passed(k, r) ==
  serverParams # None /\ serverParams < rootKey /\ r = serverParams => \E n \in open : k <= n
Copy(k, r) == k \in 1 .. account /\ r \in 1 .. account /\ Passed(k, r)

Held(copies) == \A k \in DOMAIN copies : Copy(k, copies[k])
Listed(items) == items \in Seq(Item) /\ \A i \in ToSet(items) : Copy(i.key, i.params)

\* All copies there are.
Copied ==
  /\ Listed(queue) /\ Listed(current.items)
  /\ Held(record) /\ \A copies \in saving : Held(copies)
  /\ {encrypted, seen} \subseteq [Key -> Root \union {None}]
  /\ \A k \in Key : /\ encrypted[k] # None => Copy(k, encrypted[k])
                    /\ encrypted[k] = None => seen[k] = None
\* The database has copies without any key only where these can be read.
Database ==
  /\ DOMAIN stored \subseteq 1 .. account
  /\ \A k \in DOMAIN stored : /\ stored[k] \in 0 .. account
                              /\ stored[k] = None => rootKey = None \/ ~passcode

KeyInv == Numbers /\ Phases /\ Copied /\ Database

-------------------------------------------------------------------------------
(***************************************************************************)
(* Copies in queues and in storage.                                        *)
(***************************************************************************)
LEMMA IsItem ==
  ASSUME Numbers, NEW k, NEW r, Copy(k, r), NEW b \in BOOLEAN
  PROVE  [key |-> k, params |-> r, ignored |-> b] \in Item
BY BoundAssumption DEF Numbers, Copy, Item, Key, Root

LEMMA ItemsListed ==
  ASSUME Numbers, NEW f, Held(f), NEW b \in BOOLEAN PROVE Listed(Items(f, b))
<1> DEFINE It(k) == [key |-> k, params |-> f[k], ignored |-> b]
           S == {It(k) : k \in DOMAIN f}
<1>1. S \subseteq Item
  BY IsItem DEF Held
<1>2. IsFiniteSet(S)
  <2>1. IsFiniteSet(DOMAIN f)
    <3>1. IsFiniteSet(1 .. account) /\ DOMAIN f \subseteq 1 .. account
      <4>1. account \in Int
        BY BoundAssumption DEF Numbers, Root
      <4>2. IsFiniteSet(1 .. account)
        BY <4>1, FS_Interval
      <4> QED BY <4>2 DEF Held, Copy
    <3> QED BY <3>1, FS_Subset
  <2>2. [k \in DOMAIN f |-> It(k)] \in Surjection(DOMAIN f, S)
    BY DEF Surjection
  <2> QED BY <2>1, <2>2, FS_Surjection
<1>3. Items(f, b) = SetToSeq(S)
  BY DEF Items
<1>4. \A i \in S : Copy(i.key, i.params)
  BY DEF Held
<1> HIDE DEF S
<1>5. Items(f, b) \in Seq(S) /\ ToSet(Items(f, b)) = S
  BY <1>2, <1>3, SetToSeqElements
<1> QED BY <1>1, <1>4, <1>5 DEF Listed

LEMMA ConcatListed ==
  ASSUME NEW p, NEW q, Listed(p), Listed(q) PROVE Listed(p \o q)
BY ToSetConcat DEF Listed

LEMMA WhereListed ==
  ASSUME NEW q, Listed(q), NEW S PROVE Listed(Where(q, S))
BY WhereElements DEF Listed

LEMMA HeadListed ==
  ASSUME NEW q, Listed(q), q # <<>>
  PROVE  /\ Listed(Tail(q)) /\ Listed(<<Head(q)>>)
         /\ Head(q) \in Item /\ Copy(Head(q).key, Head(q).params)
<1>1. /\ Tail(q) \in Seq(Item) /\ Head(q) \in Item /\ <<Head(q)>> \in Seq(Item)
  BY DEF Listed
<1>2. ToSet(q) = {Head(q)} \union ToSet(Tail(q))
  BY ToSetHeadTail DEF Listed
<1>3. ToSet(<<Head(q)>>) = {Head(q)}
  BY <1>1 DEF ToSet
<1> QED BY <1>1, <1>2, <1>3 DEF Listed

LEMMA KeysListed ==
  ASSUME Numbers, NEW q, Listed(q) PROVE Keys(q) \subseteq 1 .. account /\ Keys(q) \subseteq Key
BY BoundAssumption DEF Listed, Keys, Copy, Numbers, Key, Root

\* How what copies are compared with moves on.
Advance ==
  /\ Numbers' /\ account <= account'
  /\ \/ serverParams' = None \/ rootKey' <= serverParams'
     \/ rootKey' = rootKey /\ serverParams' = serverParams /\ open \subseteq open'
     \/ \E n \in open' : account <= n

LEMMA CopyKept ==
  ASSUME Numbers, Advance, NEW k, NEW r, Copy(k, r) PROVE Copy(k, r)'
<1>1. k \in 1 .. account' /\ r \in 1 .. account'
  BY BoundAssumption DEF Numbers, Advance, Copy, Root
<1>2. Passed(k, r)'
  <2>1. CASE serverParams' = None \/ rootKey' <= serverParams'
    BY <2>1, BoundAssumption DEF Numbers, Advance, Passed, Root
  <2>2. CASE rootKey' = rootKey /\ serverParams' = serverParams /\ open \subseteq open'
    BY <2>2 DEF Copy, Passed
  <2>3. ASSUME NEW n \in open', account <= n PROVE Passed(k, r)'
    BY <2>3, BoundAssumption DEF Numbers, Advance, Copy, Passed, Root, Key
  <2> QED BY <2>1, <2>2, <2>3 DEF Advance
<1> QED BY <1>1, <1>2 DEF Copy

\* Of a step that takes all copies from where there were some.
LEMMA CopiesKept ==
  ASSUME KeyInv, Advance, Listed(queue'), Listed(current'.items), Held(record'),
         \A f \in saving' : Held(f), UNCHANGED <<encrypted, seen>>
  PROVE  Copied'
<1>1. \A k \in Key : encrypted[k] # None => Copy(k, encrypted[k])'
  BY CopyKept DEF KeyInv, Copied
<1>2. Listed(queue)' /\ Listed(current.items)'
  BY CopyKept DEF Listed, KeyInv
<1>3. Held(record)' /\ (\A f \in saving : Held(f))'
  BY CopyKept DEF Held, KeyInv
<1> QED BY <1>1, <1>2, <1>3 DEF Copied, KeyInv

LEMMA DatabaseKept ==
  ASSUME KeyInv, Numbers', UNCHANGED <<stored, passcode>>, account <= account',
         rootKey' = rootKey \/ (rootKey # None /\ rootKey' # None)
  PROVE  Database'
BY BoundAssumption DEF KeyInv, Database, Numbers, Root, None

LEMMA IgnoredHeld ==
  ASSUME Held(record), NEW items, NEW success, Callbacks(items, success) PROVE Held(record')
BY DEF Callbacks, Without, Restrict, Held

\* What the processing does when it starts.
LEMMA Starting ==
  ASSUME NEW q PROVE /\ Started(q) \in {"next", "stuck", "head"}
                     /\ Started(q) = "head" => rootKey = None /\ ~passcode
BY DEF Started

-------------------------------------------------------------------------------
(***************************************************************************)
(* The steps.                                                              *)
(***************************************************************************)
LEMMA QueueKeeps ==
  ASSUME KeyInv, ParamsAnswered \/ EndQueue \/ Dismissed \/ WrongPassword \/ HeadCanceled \/ SignInCanceled
  PROVE  KeyInv'
<1>1. /\ UNCHANGED <<account, encrypted, seen, rootKey, passcode, stored, open, saving>>
      /\ serverParams' \in {serverParams, account, None}
      /\ current' \in {current, Nothing}
  BY DEF ParamsAnswered, EndQueue, Dismissed, WrongPassword, HeadCanceled, SignInCanceled, server, device
<1>2. Listed(<<>>)
  BY DEF Listed, ToSet
<1>3. Nothing \in [items : Seq(Item), replaces : BOOLEAN] /\ Nothing.items = <<>>
  BY DEF Nothing
<1>4. Advance
  BY <1>1, <1>3, BoundAssumption DEF KeyInv, Numbers, Advance, Root, None
<1>5. Listed(current'.items)
  BY <1>1, <1>2, <1>3 DEF KeyInv, Copied
<1>6. Listed(queue')
  <2>1. queue' = queue \/ queue' = current.items \o queue
    BY DEF ParamsAnswered, EndQueue, Dismissed, WrongPassword, HeadCanceled, SignInCanceled
  <2> QED BY <2>1, ConcatListed DEF KeyInv, Copied
<1>7. Held(record')
  <2>1. record' = record \/ Callbacks(current.items, FALSE)
    BY DEF ParamsAnswered, EndQueue, Dismissed, WrongPassword, HeadCanceled, SignInCanceled, device
  <2> QED BY <2>1, IgnoredHeld DEF KeyInv, Copied
<1>8. Copied'
  BY <1>1, <1>4, <1>5, <1>6, <1>7, CopiesKept DEF KeyInv, Copied
<1>9. Database'
  BY <1>1, <1>4, DatabaseKept, BoundAssumption DEF Advance
<1>10. Phases'
  <2>1. CASE ParamsAnswered
    BY <1>1, <2>1, Starting, BoundAssumption DEF KeyInv, Numbers, Phases, ParamsAnswered, Root
  <2>2. CASE EndQueue
    BY <1>1, <2>2 DEF KeyInv, Phases, EndQueue
  <2>3. CASE Dismissed \/ WrongPassword
    BY <1>1, <1>3, <2>3 DEF KeyInv, Phases, Dismissed, WrongPassword
  <2>4. CASE HeadCanceled \/ SignInCanceled
    BY <1>1, <2>4 DEF KeyInv, Phases, HeadCanceled, SignInCanceled
  <2> QED BY <2>1, <2>2, <2>3, <2>4
<1> QED BY <1>4, <1>8, <1>9, <1>10 DEF KeyInv, Advance

\* An item replaces the root key only if the parameters are not behind: or a key as new is open.
LEMMA PopKeeps ==
  ASSUME KeyInv, PopQueueItem PROVE KeyInv'
<1>1. /\ UNCHANGED <<account, encrypted, seen, rootKey, passcode, stored, open, saving, serverParams, record>>
      /\ queue # <<>> /\ queue' = Tail(queue) /\ processing' = "asked"
      /\ current' = [items |-> <<Head(queue)>>, replaces |-> Replaces(Head(queue))]
  BY DEF PopQueueItem, server, device
<1>2. /\ Listed(Tail(queue)) /\ Listed(<<Head(queue)>>)
      /\ Head(queue) \in Item /\ Copy(Head(queue).key, Head(queue).params)
  BY <1>1, HeadListed DEF KeyInv, Copied
<1>3. current' \in [items : Seq(Item), replaces : BOOLEAN]
  BY <1>1, <1>2 DEF Listed, Replaces
<1>4. Advance
  BY <1>1, <1>3, BoundAssumption DEF KeyInv, Numbers, Advance, Root
<1>5. Copied'
  BY <1>1, <1>2, <1>4, CopiesKept DEF KeyInv, Copied
<1>6. Database'
  BY <1>1, <1>4, DatabaseKept, BoundAssumption DEF Advance
<1>7. ASSUME Replaces(Head(queue)) PROVE Head(queue).params = serverParams /\ rootKey <= serverParams
  <2>1. ~ (serverParams < rootKey)
    <3> SUFFICES ASSUME serverParams < rootKey PROVE FALSE
      OBVIOUS
    <3>1. PICK n \in open : Head(queue).key <= n
      BY <1>2, <1>7 DEF Copy, Passed, Replaces
    <3>2. Head(queue).key > n /\ n \in Int /\ Head(queue).key \in Int
      BY <1>2, <1>7, BoundAssumption DEF Replaces, KeyInv, Numbers, Key, Root, Copy
    <3> QED BY <3>1, <3>2
  <2> QED BY <1>7, <2>1, BoundAssumption DEF Replaces, KeyInv, Numbers, Root
<1>8. Phases'
  BY <1>1, <1>7 DEF KeyInv, Phases
<1> QED BY <1>4, <1>5, <1>6, <1>8 DEF KeyInv, Advance

\* Of keys that are emitted and stored.
LEMMA EmittedKeeps ==
  ASSUME KeyInv, NEW items, Listed(items), NEW key \in 0 .. account, Emitted(items, key),
         key # None \/ rootKey = None, UNCHANGED <<account, passcode>>,
         rootKey' = rootKey \/ (rootKey' # None /\ ~passcode)
  PROVE  /\ open' \subseteq 1 .. account /\ open \subseteq open' /\ Database'
<1>1. Keys(items) \subseteq 1 .. account /\ Keys(items) \subseteq Key
  BY KeysListed DEF KeyInv
<1>2. open' \subseteq 1 .. account /\ open \subseteq open'
  BY <1>1 DEF Emitted, KeyInv, Numbers
<1>3. /\ DOMAIN stored' = Keys(items) \union DOMAIN stored
      /\ \A k \in DOMAIN stored' : stored'[k] = key \/ (k \in DOMAIN stored /\ stored'[k] = stored[k])
  BY DEF Emitted, Over
<1> QED BY <1>1, <1>2, <1>3 DEF KeyInv, Database

LEMMA DecryptedKeeps ==
  ASSUME KeyInv, Decrypted PROVE KeyInv'
<1> DEFINE params == Head(current.items).params
           items == current.items \o Matching(params)
<1>1. /\ UNCHANGED <<account, encrypted, seen, rootKey, passcode, saving, serverParams>>
      /\ processing = "asked" /\ queue' = Nonmatching(params) /\ Emitted(items, rootKey)
      /\ \/ /\ processing' = "wrap" /\ current' = [current EXCEPT !.items = items]
            /\ UNCHANGED record /\ current.replaces
         \/ /\ processing' = "next" /\ current' = Nothing /\ Callbacks(items, TRUE)
  BY DEF Decrypted, server
<1>2. Listed(items) /\ Listed(queue')
  BY <1>1, WhereListed, ConcatListed DEF KeyInv, Copied, Matching, Nonmatching
<1>3. items # <<>> /\ Head(items) = Head(current.items)
  <2>1. current.items \in Seq(Item) /\ current.items # <<>> /\ Matching(params) \in Seq(Item)
    BY <1>1, WhereListed DEF KeyInv, Copied, Phases, Listed, Matching
  <2> QED BY <2>1, HeadConcat
<1> HIDE DEF items, params
<1>4. open' \subseteq 1 .. account /\ open \subseteq open' /\ Database'
  BY <1>1, <1>2, EmittedKeeps DEF KeyInv, Numbers
<1>5. /\ current' \in [items : Seq(Item), replaces : BOOLEAN] /\ Listed(current'.items)
      /\ current'.items = items \/ processing' = "next"
      /\ processing' = "wrap" => current'.replaces /\ current.replaces
  <2>1. Listed(<<>>) /\ Nothing \in [items : Seq(Item), replaces : BOOLEAN] /\ Nothing.items = <<>>
    BY DEF Listed, ToSet, Nothing
  <2> QED BY <1>1, <1>2, <2>1 DEF KeyInv, Numbers, Listed
<1>6. Held(record')
  BY <1>1, IgnoredHeld DEF KeyInv, Copied
<1>7. Advance
  BY <1>1, <1>4, <1>5, BoundAssumption DEF KeyInv, Numbers, Advance, Root
<1>8. Copied'
  BY <1>1, <1>2, <1>5, <1>6, <1>7, CopiesKept DEF KeyInv, Copied
<1>9. Phases'
  BY <1>1, <1>3, <1>5 DEF KeyInv, Phases, params
<1> QED BY <1>4, <1>7, <1>8, <1>9 DEF KeyInv, Advance

\* The three ways to get another root key of the account.
LEMMA ReplacedKeeps ==
  ASSUME KeyInv, RootKeyReplaced PROVE KeyInv' /\ rootKey' >= rootKey
<1>1. /\ UNCHANGED <<account, encrypted, seen, passcode, stored, open, saving, serverParams, queue>>
      /\ processing = "wrap" /\ rootKey' = Head(current.items).params /\ processing' = "next"
      /\ current' = Nothing /\ Callbacks(current.items, TRUE)
  BY DEF RootKeyReplaced, server
<1>2. rootKey' = serverParams /\ rootKey <= serverParams
  BY <1>1 DEF KeyInv, Phases
<1>3. /\ Listed(<<>>) /\ Nothing \in [items : Seq(Item), replaces : BOOLEAN]
      /\ Nothing.items = <<>>
  BY DEF Listed, ToSet, Nothing
<1>4. Advance
  BY <1>1, <1>2, <1>3, BoundAssumption DEF KeyInv, Numbers, Advance, Root
<1>5. Held(record')
  BY <1>1, IgnoredHeld DEF KeyInv, Copied
<1>6. Copied'
  BY <1>1, <1>3, <1>4, <1>5, CopiesKept DEF KeyInv, Copied
<1>7. rootKey # None /\ rootKey' # None
  <2>1. Head(current.items) \in Item
    BY <1>1, HeadListed DEF KeyInv, Phases, Copied
  <2> QED BY <1>1, <1>2, <2>1, BoundAssumption DEF KeyInv, Phases, Item, Root, None
<1>8. Database'
  BY <1>1, <1>4, <1>7, DatabaseKept, BoundAssumption DEF Advance, Numbers, KeyInv, Root
<1>9. Phases'
  BY <1>1, <1>7 DEF KeyInv, Phases
<1> QED BY <1>2, <1>4, <1>6, <1>8, <1>9, BoundAssumption DEF KeyInv, Advance, Numbers, Root

LEMMA SignedInKeeps ==
  ASSUME KeyInv, SignedIn PROVE KeyInv' /\ rootKey' >= rootKey
<1>1. /\ UNCHANGED <<account, encrypted, seen, passcode, stored, record, open, saving, serverParams,
                     queue, current, processing>>
      /\ rootKey' = serverParams /\ serverParams = account
  BY DEF SignedIn, server
<1>2. rootKey # None /\ rootKey' # None /\ rootKey <= rootKey'
  BY <1>1, BoundAssumption DEF KeyInv, Numbers, Phases, Root, None
<1>3. Advance
  BY <1>1, BoundAssumption DEF KeyInv, Numbers, Advance, Root
<1>4. Copied'
  BY <1>1, <1>3, CopiesKept DEF KeyInv, Copied
<1>5. Database'
  BY <1>1, <1>2, <1>3, DatabaseKept, BoundAssumption DEF Advance, Numbers, KeyInv, Root
<1>6. Phases'
  BY <1>1, <1>2, BoundAssumption DEF KeyInv, Phases, Numbers, Root
<1> QED BY <1>2, <1>3, <1>4, <1>5, <1>6, BoundAssumption DEF KeyInv, Advance, Numbers, Root

LEMMA HeadSignedInKeeps ==
  ASSUME KeyInv, HeadSignedIn PROVE KeyInv' /\ rootKey' >= rootKey
<1>1. /\ UNCHANGED <<account, encrypted, seen, passcode, record, saving, serverParams, current>>
      /\ processing = "head" /\ rootKey' = account /\ processing' = "next"
      /\ Emitted(Matching(account), account) /\ queue' = Nonmatching(account)
  BY DEF HeadSignedIn, server
<1>2. rootKey = None /\ ~passcode /\ serverParams = None /\ account # None
  BY <1>1, BoundAssumption DEF KeyInv, Phases, Numbers, Root, None
<1>3. Listed(Matching(account)) /\ Listed(queue')
  BY <1>1, WhereListed DEF KeyInv, Copied, Matching, Nonmatching
<1>4. open' \subseteq 1 .. account /\ open \subseteq open' /\ Database'
  BY <1>1, <1>2, <1>3, EmittedKeeps, BoundAssumption DEF KeyInv, Numbers, Root
<1>5. Advance
  BY <1>1, <1>2, <1>4, BoundAssumption DEF KeyInv, Numbers, Advance, Root
<1>6. Copied'
  BY <1>1, <1>3, <1>5, CopiesKept DEF KeyInv, Copied
<1>7. Phases'
  BY <1>1, <1>2 DEF KeyInv, Phases
<1> QED BY <1>1, <1>2, <1>4, <1>5, <1>6, <1>7, BoundAssumption DEF KeyInv, Advance, Numbers, Root, None

\* Copies that are put in the queue, whatever it is doing.
LEMMA QueuedKeeps ==
  ASSUME KeyInv, NEW items, Listed(items), Queued(items), Numbers', Held(record'),
         \A f \in saving' : Held(f), processing # "off", open \subseteq open',
         UNCHANGED <<account, rootKey, serverParams, passcode, encrypted, current>>,
         seen' = seen \/ seen' \in [Key -> Root \union {None}],
         \A k \in Key : encrypted[k] = None => seen'[k] = None,
         Database'
  PROVE  KeyInv'
<1>1. Advance
  BY BoundAssumption DEF KeyInv, Numbers, Advance, Root
<1>2. queue' = queue \o items /\ Listed(queue')
  BY ConcatListed DEF Queued, KeyInv, Copied
<1>3. Copied'
  <2>1. \A k \in Key : encrypted[k] # None => Copy(k, encrypted[k])'
    BY <1>1, CopyKept DEF KeyInv, Copied
  <2>2. Listed(queue)' /\ Listed(current.items)'
    BY <1>1, <1>2, CopyKept DEF Listed, KeyInv, Copied
  <2>3. Held(record)' /\ (\A f \in saving : Held(f))'
    BY <1>1, CopyKept DEF Held, KeyInv
  <2> QED BY <2>1, <2>2, <2>3 DEF Copied, KeyInv
<1>4. Phases'
  <2>1. \/ processing' = processing
        \/ processing' = "params" /\ rootKey # None
        \/ processing' = Started(queue \o items)
    BY DEF Queued
  <2> QED BY <2>1, Starting DEF KeyInv, Phases
<1> QED BY <1>3, <1>4 DEF KeyInv

LEMMA RestrictHeld ==
  ASSUME NEW f, Held(f), NEW ks, ks \subseteq DOMAIN f PROVE Held(Restrict(f, ks))
BY DEF Held, Restrict

LEMMA OverHeld ==
  ASSUME NEW f, NEW g, Held(f), Held(g) PROVE Held(Over(f, g))
BY DEF Held, Over

\* What is retrieved are copies, and they are there.
LEMMA GotHeld ==
  ASSUME KeyInv, NEW ks \in SUBSET Key, \A k \in ks : encrypted[k] # seen[k]
  PROVE  LET got == Restrict(encrypted, ks)
         IN  /\ Held(got) /\ DOMAIN got = ks
             /\ \A k \in ks : got[k] \in Root
             /\ Over(got, seen) \in [Key -> Root \union {None}]
             /\ \A k \in Key : encrypted[k] = None => Over(got, seen)[k] = None
BY DEF KeyInv, Copied, Held, Restrict, Over

LEMMA RetrieveKeeps ==
  ASSUME KeyInv, NEW ks \in SUBSET Key, Retrieve(ks) PROVE KeyInv' /\ rootKey' = rootKey
<1> DEFINE got == Restrict(encrypted, ks)
           fine == Readable(got)
           ignored == Protected(ks \ fine)
           bad == ks \ (fine \union ignored)
<1>1. /\ \A k \in ks : encrypted[k] # seen[k]
      /\ processing # "off" /\ UNCHANGED <<account, rootKey, serverParams, passcode, encrypted, current>>
      /\ seen' = Over(got, seen) /\ stored' = Over(Restrict(got, fine \union bad), stored)
      /\ open' = open \union fine /\ record' = Over(Restrict(got, ignored), record)
      /\ saving' = saving \/ saving' = saving \union {Restrict(got, ignored)}
      /\ \/ UNCHANGED <<queue, processing>>
         \/ Queued(Items(Restrict(got, bad), FALSE))
  BY DEF Retrieve, server, SaveToUndecryptables
<1>2. /\ Held(got) /\ DOMAIN got = ks /\ \A k \in ks : got[k] \in Root
      /\ seen' \in [Key -> Root \union {None}]
      /\ \A k \in Key : encrypted[k] = None => seen'[k] = None
  BY <1>1, GotHeld
<1>3. fine \subseteq ks /\ ignored \subseteq ks /\ bad \subseteq ks
  BY <1>2 DEF Readable, Protected
<1> HIDE DEF got, fine, ignored, bad
<1>4. Held(Restrict(got, ignored)) /\ Held(Restrict(got, bad))
  BY <1>2, <1>3, RestrictHeld
<1>5. Held(record') /\ \A f \in saving' : Held(f)
  BY <1>1, <1>4, OverHeld DEF KeyInv, Copied
<1>6. Numbers'
  <2>1. ks \subseteq 1 .. account
    BY <1>2 DEF Held, Copy
  <2> QED BY <1>1, <1>3, <2>1 DEF KeyInv, Numbers
<1>7. Database'
  <2>1. /\ DOMAIN stored' = fine \union bad \union DOMAIN stored
        /\ \A k \in DOMAIN stored' : \/ k \in ks /\ stored'[k] = got[k]
                                     \/ k \in DOMAIN stored /\ stored'[k] = stored[k]
    BY <1>1, <1>3 DEF Over, Restrict
  <2>2. \A k \in ks : k \in 1 .. account /\ got[k] \in 0 .. account /\ got[k] # None
    BY <1>2, BoundAssumption DEF Held, Copy, Root, None
  <2> QED BY <1>1, <1>3, <2>1, <2>2 DEF Database, KeyInv
<1>8. CASE UNCHANGED <<queue, processing>>
  <2>1. Advance
    BY <1>1, <1>6, BoundAssumption DEF KeyInv, Numbers, Advance, Root
  <2>2. Copied'
    <3>1. \A k \in Key : encrypted[k] # None => Copy(k, encrypted[k])'
      BY <1>1, <2>1, CopyKept DEF KeyInv, Copied
    <3>2. Listed(queue)' /\ Listed(current.items)'
      BY <1>1, <1>8, <2>1, CopyKept DEF Listed, KeyInv, Copied
    <3>3. Held(record)' /\ (\A f \in saving : Held(f))'
      BY <1>5, <2>1, CopyKept DEF Held, KeyInv
    <3> QED BY <1>1, <1>2, <3>1, <3>2, <3>3 DEF Copied, KeyInv
  <2>3. Phases'
    BY <1>1, <1>8 DEF KeyInv, Phases
  <2> QED BY <1>1, <1>6, <1>7, <2>2, <2>3 DEF KeyInv
<1>9. CASE Queued(Items(Restrict(got, bad), FALSE))
  <2>1. Listed(Items(Restrict(got, bad), FALSE))
    BY <1>4, ItemsListed DEF KeyInv
  <2>2. open \subseteq open'
    BY <1>1
  <2> QED BY <1>1, <1>2, <1>5, <1>6, <1>7, <1>9, <2>1, <2>2, QueuedKeeps
<1> QED BY <1>1, <1>8, <1>9

\* Keys that were not overwritten, when their copies are stored or the user asks for them.
LEMMA MoreKeeps ==
  ASSUME KeyInv, (\E f \in saving : Saved(f)) \/ PresentKeyRecoveryWizard
  PROVE  KeyInv' /\ rootKey' = rootKey
<1>1. PICK f \in saving \union {record} :
        /\ Queued(Items(f, TRUE)) /\ processing # "off" /\ saving' \subseteq saving
        /\ UNCHANGED <<account, encrypted, seen, rootKey, passcode, stored, record, open,
                       serverParams, current>>
  <2>1. ASSUME NEW f \in saving, Saved(f)
        PROVE  /\ Queued(Items(f, TRUE)) /\ processing # "off" /\ saving' \subseteq saving
               /\ UNCHANGED <<account, encrypted, seen, rootKey, passcode, stored, record, open,
                              serverParams, current>>
    BY <2>1 DEF Saved, server, device, KeyInv, Phases
  <2>2. CASE PresentKeyRecoveryWizard
    BY <2>2 DEF PresentKeyRecoveryWizard, server, device
  <2> QED BY <2>1, <2>2
<1>2. Held(f) /\ Listed(Items(f, TRUE))
  <2>1. Held(f)
    BY DEF KeyInv, Copied
  <2> QED BY <2>1, ItemsListed DEF KeyInv
<1>3. Numbers' /\ Held(record') /\ \A g \in saving' : Held(g)
  BY <1>1 DEF KeyInv, Numbers, Copied
<1>4. Database'
  BY <1>1 DEF KeyInv, Database
<1>5. seen' = seen /\ \A k \in Key : encrypted[k] = None => seen'[k] = None
  BY <1>1 DEF KeyInv, Copied
<1> QED BY <1>1, <1>2, <1>3, <1>4, <1>5, QueuedKeeps

LEMMA LaunchKeeps ==
  ASSUME KeyInv, Launch PROVE KeyInv' /\ rootKey' = rootKey
<1> DEFINE fine == Readable(stored)
           items == Items(Without(stored, fine), FALSE) \o Items(record, TRUE)
<1>1. /\ UNCHANGED <<account, encrypted, seen, rootKey, passcode, stored, record, saving,
                     serverParams, current>>
      /\ processing = "off" /\ open' = fine /\ queue' = items
      /\ \/ processing' = "idle"
         \/ processing' = "params" /\ rootKey # None
         \/ processing' = Started(items)
  BY DEF Launch, server, device
<1>2. serverParams = None
  BY <1>1 DEF KeyInv, Phases
<1>3. fine \subseteq DOMAIN stored
  BY DEF Readable
<1>4. \A k \in DOMAIN stored \ fine : stored[k] # None
  BY DEF Readable, KeyInv, Database
<1>5. Held(Without(stored, fine))
  BY <1>2, <1>4, BoundAssumption
     DEF KeyInv, Database, Numbers, Held, Without, Restrict, Copy, Passed, Root, None
<1>6. Listed(items)
  BY <1>5, ItemsListed, ConcatListed DEF KeyInv, Copied
<1> HIDE DEF fine, items
<1>7. Numbers'
  BY <1>1, <1>3, BoundAssumption DEF KeyInv, Numbers, Database, Key, Root
<1>8. Advance
  BY <1>1, <1>2, <1>7, BoundAssumption DEF Advance, KeyInv, Numbers, Root
<1>9. Copied'
  BY <1>1, <1>6, <1>8, CopiesKept DEF KeyInv, Copied
<1>10. Database' /\ Phases'
  BY <1>1, <1>2, Starting DEF KeyInv, Database, Phases
<1> QED BY <1>1, <1>7, <1>9, <1>10 DEF KeyInv

LEMMA EndKeeps ==
  ASSUME KeyInv, End PROVE KeyInv' /\ rootKey' = rootKey
<1>1. /\ UNCHANGED <<account, encrypted, seen, rootKey, passcode, stored, record, saving>>
      /\ processing' = "off" /\ saving = {} /\ open' = {} /\ queue' = <<>> /\ serverParams' = None
      /\ current' = Nothing
  BY DEF End, server, device
<1>2. /\ Listed(<<>>) /\ Nothing \in [items : Seq(Item), replaces : BOOLEAN]
      /\ Nothing.items = <<>>
  BY DEF Listed, ToSet, Nothing
<1>3. Numbers'
  BY <1>1, <1>2, BoundAssumption DEF KeyInv, Numbers, Root, None
<1>4. Advance
  BY <1>1, <1>3, BoundAssumption DEF Advance, KeyInv, Numbers, Root
<1>5. Copied'
  BY <1>1, <1>2, <1>4, CopiesKept DEF KeyInv, Copied
<1>6. Database' /\ Phases'
  BY <1>1 DEF KeyInv, Database, Phases
<1> QED BY <1>1, <1>3, <1>5, <1>6 DEF KeyInv

\* Where the server's copies are others.
LEMMA ServerKeeps ==
  ASSUME KeyInv, Advance, UNCHANGED <<queue, current, record, saving>>,
         encrypted' \in [Key -> Root \union {None}], seen' \in [Key -> Root \union {None}],
         \A k \in Key : /\ \/ encrypted'[k] = encrypted[k]
                           \/ encrypted'[k] # None => Copy(k, encrypted[k])'
                        /\ encrypted'[k] = None => seen'[k] = None
  PROVE  Copied'
<1>1. \A k \in Key : encrypted'[k] # None => Copy(k, encrypted[k])'
  BY CopyKept DEF KeyInv, Copied
<1>2. Listed(queue)' /\ Listed(current.items)'
  BY CopyKept DEF Listed, KeyInv, Copied
<1>3. Held(record)' /\ (\A f \in saving : Held(f))'
  BY CopyKept DEF Held, KeyInv, Copied
<1> QED BY <1>1, <1>2, <1>3 DEF Copied

\* Another client's change of the password.
LEMMA ElsewhereKeeps ==
  ASSUME KeyInv, ChangeElsewhere \/ ReencryptElsewhere PROVE KeyInv' /\ rootKey' = rootKey
<1>1. /\ UNCHANGED <<rootKey, stored, record, seen, passcode, open, serverParams, queue,
                     processing, current, saving>>
      /\ account' \in {account, account + 1} /\ account' <= MaxRoot
  BY BoundAssumption DEF ChangeElsewhere, ReencryptElsewhere, device, memory, KeyInv, Numbers, Root
<1>2. Numbers'
  BY <1>1, BoundAssumption DEF KeyInv, Numbers, Root
<1>3. Advance
  BY <1>1, <1>2, BoundAssumption DEF KeyInv, Numbers, Advance, Root
<1>4. Copied'
  <2>1. CASE ChangeElsewhere
    <3>1. UNCHANGED encrypted
      BY <2>1 DEF ChangeElsewhere
    <3> QED BY <1>1, <1>3, <3>1, CopiesKept DEF KeyInv, Copied
  <2>2. CASE ReencryptElsewhere
    <3>1. /\ encrypted' = [k \in Key |-> IF k <= account THEN account ELSE None]
          /\ account' = account
      BY <2>2 DEF ReencryptElsewhere
    <3>2. \A k \in Key : encrypted'[k] = None => seen[k] = None
      BY <3>1, BoundAssumption DEF KeyInv, Copied, Copy, Numbers, Key, Root, None
    <3>3. \A k \in Key : encrypted'[k] # None => Copy(k, encrypted[k])'
      <4>1. ~ (serverParams < rootKey /\ account = serverParams)
        BY BoundAssumption DEF KeyInv, Numbers, Root
      <4>2. SUFFICES ASSUME NEW k \in Key, encrypted'[k] # None PROVE Copy(k, encrypted[k])'
        OBVIOUS
      <4>3. k <= account /\ encrypted'[k] = account
        BY <3>1, <4>2
      <4> QED BY <1>1, <3>1, <4>1, <4>3, BoundAssumption
              DEF KeyInv, Numbers, Root, Key, Copy, Passed
    <3> QED BY <1>1, <1>3, <3>1, <3>2, <3>3, ServerKeeps, BoundAssumption
            DEF KeyInv, Copied, Numbers, Root
  <2> QED BY <2>1, <2>2
<1>5. Database' /\ Phases'
  BY <1>1, BoundAssumption DEF KeyInv, Database, Phases, Numbers, Root
<1> QED BY <1>1, <1>2, <1>4, <1>5 DEF KeyInv

\* And one here: the new key is as new as any.
LEMMA ChangePasswordKeeps ==
  ASSUME KeyInv, ChangePassword PROVE KeyInv' /\ rootKey' >= rootKey
<1> DEFINE new == account + 1
           ks == open \union {new}
           anew == [k \in ks |-> new]
<1>1. /\ processing = "idle" /\ account < MaxRoot /\ rootKey = account /\ seen = encrypted
      /\ account' = new /\ rootKey' = new
      /\ encrypted' = Over(anew, encrypted) /\ seen' = Over(anew, seen)
      /\ stored' = Over(anew, stored) /\ open' = ks
      /\ UNCHANGED <<record, passcode, serverParams, queue, processing, current, saving>>
  BY DEF ChangePassword
<1>2. ks \subseteq Key /\ new \in ks /\ new \in Root
  BY <1>1, BoundAssumption DEF KeyInv, Numbers, Root, Key
<1>3. Numbers'
  <2>1. /\ account \in Nat /\ serverParams \in 0 .. account /\ open \subseteq 1 .. account
        /\ passcode \in BOOLEAN /\ current \in [items : Seq(Item), replaces : BOOLEAN]
    BY BoundAssumption DEF KeyInv, Numbers, Root
  <2>2. 0 .. account \subseteq 0 .. new /\ 1 .. account \subseteq 1 .. new
        /\ new \in 0 .. new /\ new \in 1 .. new
    BY <2>1
  <2>3. /\ account' \in Root /\ rootKey' \in 0 .. account' /\ serverParams' \in 0 .. account'
        /\ open' \subseteq 1 .. account'
    <3> HIDE DEF new
    <3> QED BY <1>1, <1>2, <2>1, <2>2
  <2> QED BY <1>1, <2>1, <2>3 DEF Numbers
<1>4. Advance
  BY <1>1, <1>2, <1>3, BoundAssumption DEF KeyInv, Numbers, Advance, Root
<1>5. \A k \in ks : k \in 1 .. account'
  BY <1>1, <1>2, BoundAssumption DEF KeyInv, Numbers, Key, Root
<1>6. new # None
  BY BoundAssumption DEF KeyInv, Numbers, Root, None
<1>7. /\ DOMAIN encrypted' = Key /\ DOMAIN seen' = Key
      /\ \A k \in Key : \/ k \in ks /\ encrypted'[k] = new /\ seen'[k] = new
                        \/ encrypted'[k] = encrypted[k] /\ seen'[k] = seen[k]
      /\ encrypted' \in [Key -> Root \union {None}] /\ seen' \in [Key -> Root \union {None}]
  BY <1>1, <1>2 DEF Over, KeyInv, Copied
<1>8. /\ DOMAIN stored' = ks \union DOMAIN stored
      /\ \A k \in DOMAIN stored' : \/ k \in ks /\ stored'[k] = new
                                   \/ k \in DOMAIN stored /\ stored'[k] = stored[k]
  BY <1>1 DEF Over
<1> HIDE DEF new, ks, anew
<1>9. \A k \in Key : /\ \/ encrypted'[k] = encrypted[k]
                        \/ encrypted'[k] # None => Copy(k, encrypted[k])'
                     /\ encrypted'[k] = None => seen'[k] = None
  <2>1. SUFFICES ASSUME NEW k \in Key
                 PROVE  /\ \/ encrypted'[k] = encrypted[k]
                           \/ encrypted'[k] # None => Copy(k, encrypted[k])'
                        /\ encrypted'[k] = None => seen'[k] = None
    OBVIOUS
  <2>2. CASE k \in ks /\ encrypted'[k] = new /\ seen'[k] = new
    <3>1. new = account' /\ account' \in 1 .. account'
      BY <1>1, <1>2, BoundAssumption DEF Root
    <3>2. Passed(k, encrypted[k])'
      BY <1>1, <1>2, <2>2, <3>1, BoundAssumption DEF Passed, KeyInv, Numbers, Root, new
    <3> QED BY <1>5, <1>6, <2>2, <3>1, <3>2 DEF Copy
  <2>3. CASE encrypted'[k] = encrypted[k] /\ seen'[k] = seen[k]
    BY <2>3 DEF KeyInv, Copied
  <2> QED BY <1>7, <2>2, <2>3
<1>10. Copied'
  BY <1>1, <1>4, <1>7, <1>9, ServerKeeps
<1>11. Database'
  <2>1. \A k \in ks : k \in 1 .. account'
    BY <1>5
  <2>2. \A k \in DOMAIN stored : k \in 1 .. account' /\ stored[k] \in 0 .. account'
    BY <1>4, BoundAssumption DEF KeyInv, Database, Advance, Numbers, Root
  <2>3. rootKey # None
    BY <1>1, BoundAssumption DEF KeyInv, Numbers, Root, None
  <2>4. new \in 0 .. account'
    BY <1>1, <1>2, BoundAssumption DEF Root
  <2> QED BY <1>1, <1>6, <1>8, <2>1, <2>2, <2>3, <2>4 DEF KeyInv, Database
<1>12. Phases'
  BY <1>1, <1>6 DEF KeyInv, Phases
<1> QED BY <1>1, <1>3, <1>10, <1>11, <1>12, BoundAssumption DEF KeyInv, Numbers, Root, new

LEMMA InitKeys == Init => KeyInv
<1> SUFFICES ASSUME Init PROVE KeyInv
  OBVIOUS
<1>1. /\ account = 1 /\ rootKey \in {1, None} /\ passcode \in BOOLEAN /\ serverParams = None
      /\ open = {} /\ queue = <<>> /\ current = Nothing /\ saving = {} /\ processing = "off"
      /\ DOMAIN record = {} /\ DOMAIN stored = {1} /\ stored[1] = 1
      /\ encrypted = [k \in Key |-> IF k = 1 THEN 1 ELSE None]
      /\ seen \in {encrypted, [k \in Key |-> None]}
  BY DEF Init
<1>2. /\ Listed(<<>>) /\ Nothing \in [items : Seq(Item), replaces : BOOLEAN]
      /\ Nothing.items = <<>>
  BY DEF Listed, ToSet, Nothing
<1>3. 1 \in Root
  BY BoundAssumption DEF Root
<1>4. Numbers
  BY <1>1, <1>2, <1>3 DEF Numbers, None
<1>5. Phases /\ Database
  BY <1>1 DEF Phases, Database, None
<1>6. Copied
  BY <1>1, <1>2, <1>3 DEF Copied, Held, Copy, Passed, None
<1> QED BY <1>4, <1>5, <1>6 DEF KeyInv

LEMMA NextKeys == KeyInv /\ [Next]_vars => KeyInv' /\ rootKey' >= rootKey
<1> SUFFICES ASSUME KeyInv, [Next]_vars PROVE KeyInv' /\ rootKey' >= rootKey
  OBVIOUS
<1>1. rootKey \in Nat
  BY BoundAssumption DEF KeyInv, Numbers, Root
<1>2. CASE ParamsAnswered \/ EndQueue \/ Dismissed \/ WrongPassword \/ HeadCanceled \/ SignInCanceled
  <2>1. UNCHANGED rootKey
    BY <1>2 DEF ParamsAnswered, EndQueue, Dismissed, WrongPassword, HeadCanceled, SignInCanceled, device
  <2> QED BY <1>1, <1>2, <2>1, QueueKeeps
<1>3. CASE PopQueueItem \/ Decrypted
  <2>1. UNCHANGED rootKey
    BY <1>3 DEF PopQueueItem, Decrypted, device
  <2> QED BY <1>1, <1>3, <2>1, PopKeeps, DecryptedKeeps
<1>4. CASE UNCHANGED vars
  BY <1>1, <1>4 DEF vars, server, device, memory, KeyInv, Numbers, Phases, Copied, Database, Held,
                    Listed, Copy, Passed
<1> QED BY <1>1, <1>2, <1>3, <1>4, ReplacedKeeps, SignedInKeeps, HeadSignedInKeeps, RetrieveKeeps,
           MoreKeeps, LaunchKeeps, EndKeeps, ElsewhereKeeps, ChangePasswordKeeps
        DEF Next, Processes, Answers

\* KeyInv is an invariant.
THEOREM KeysInvariant == Spec => []KeyInv
<1> QED BY InitKeys, NextKeys, PTL DEF Spec

(***************************************************************************)
(* RootKeyNeverGoesBack holds of every behaviour: whatever keys arrive and *)
(* however often the password changes, here or elsewhere, recovery never   *)
(* sets an older root key of the account than the client has.              *)
(***************************************************************************)
THEOREM TheRootKeyNeverGoesBack == Spec => RootKeyNeverGoesBack
<1>1. KeyInv /\ [Next]_vars => [rootKey' >= rootKey]_vars
  BY NextKeys
<1> QED BY <1>1, KeysInvariant, PTL DEF Spec, RootKeyNeverGoesBack
===============================================================================
