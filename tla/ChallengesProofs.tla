--------------------------- MODULE ChallengesProofs ---------------------------
(***************************************************************************)
(* The safety of challenges, for any challenges, submissions and bounds:   *)
(* whoever waits can still be answered, a renewal is known to be           *)
(* presented, the service implements Prompts, protected actions are        *)
(* authorized only with proof, and a protection session has its timer.     *)
(***************************************************************************)
EXTENDS Challenges, FiniteSetTheorems, TLAPS

Promises == {"new", "open", "answered", "canceled"}

\* A promise that changes was open and is settled now.
OnlySettles ==
  \A d \in Challenge :
    \/ promise'[d] = promise[d]
    \/ promise[d] = "open" /\ promise'[d] \in {"answered", "canceled"}

\* A submission that is tried out has settled the promise already.
Settled(i) ==
  work[i] # Free =>
    /\ work[i].challenge \in Challenge
    /\ ~Validates(work[i].challenge) => promise[work[i].challenge] \in {"answered", "canceled"}

Shape == work = [i \in Slot |-> [challenge |-> work[i].challenge, rest |-> work[i].rest]]

(***************************************************************************)
(* What WaitingIsOpen and PresentedIsOpen rest on: an operation is deleted *)
(* only once its promise is settled, and one renewal is asked for at a     *)
(* time.                                                                   *)
(***************************************************************************)
OpenInv ==
  /\ promise \in [Challenge -> Promises]
  /\ Shape
  /\ open \subseteq Challenge
  /\ \A c \in open : promise[c] # "new"
  /\ \A i \in Slot : Settled(i)
  /\ \A c, d \in Renew \intersect open : c = d
  /\ WaitingIsOpen
  /\ PresentedIsOpen

\* Settling a promise makes no promise open, and leaves the others.
LEMMA SettleSettles ==
  ASSUME NEW c \in Challenge, promise \in [Challenge -> Promises],
         NEW outcome \in {"answered", "canceled"}, Settle(c, outcome)
  PROVE  /\ promise' \in [Challenge -> Promises]
         /\ promise'[c] = IF promise[c] = "open" THEN outcome ELSE promise[c]
         /\ \A d \in Challenge \ {c} : promise'[d] = promise[d]
BY DEF Settle, Promises

\* The three ways in which operations and promises change: a challenge is presented, ...
LEMMA PresentKeeps ==
  ASSUME OpenInv, NEW c \in Challenge, NEW P, Present(c, P), UNCHANGED work,
         IF c \in Renew THEN ~presented /\ presented' = TRUE ELSE UNCHANGED presented
  PROVE  OpenInv'
<1> USE DEF OpenInv, OnlySettles
<1>1. /\ promise[c] = "new" /\ c \notin open
      /\ open' = open \union {c}
      /\ promise' \in [Challenge -> Promises] /\ promise'[c] = "open"
      /\ \A d \in Challenge \ {c} : promise'[d] = promise[d]
  BY DEF Present, Promises
<1>2. \A i \in Slot : Settled(i)'
  BY <1>1 DEF Settled, Validates
<1>3. /\ \A d, e \in Renew \intersect open' : d = e
      /\ PresentedIsOpen'
  BY <1>1 DEF PresentedIsOpen
<1>4. Shape' /\ open' \subseteq Challenge /\ WaitingIsOpen'
  BY <1>1 DEF WaitingIsOpen, Shape
<1> QED BY <1>1, <1>2, <1>3, <1>4

\* ... an operation is deleted, its promise being settled, ...
LEMMA DeletionKeeps ==
  ASSUME OpenInv, NEW c \in open,
         promise' \in [Challenge -> Promises], promise'[c] # "open",
         OnlySettles,
         OnEnd(c), DeleteOperation(c), Shape', \A i \in Slot : Settled(i)'
  PROVE  OpenInv'
<1> USE DEF OpenInv, OnlySettles
<1>1. open' = open \ {c} /\ presented' = (presented /\ c \notin Renew)
  BY DEF OnEnd, DeleteOperation
<1>2. /\ \A d, e \in Renew \intersect open' : d = e
      /\ PresentedIsOpen'
  BY <1>1 DEF PresentedIsOpen
<1>3. \A d \in open' : promise'[d] # "new"
  BY <1>1
<1>4. WaitingIsOpen'
  BY <1>1 DEF WaitingIsOpen
<1> QED BY <1>1, <1>2, <1>3, <1>4

\* ... or promises are settled only.
LEMMA SettlingKeeps ==
  ASSUME OpenInv, UNCHANGED <<open, presented>>,
         promise' \in [Challenge -> Promises],
         OnlySettles,
         Shape', \A i \in Slot : Settled(i)'
  PROVE  OpenInv'
<1> USE DEF OpenInv, OnlySettles
<1>1. \A d \in open' : promise'[d] # "new"
  OBVIOUS
<1>2. WaitingIsOpen' /\ PresentedIsOpen'
  BY DEF WaitingIsOpen, PresentedIsOpen
<1> QED BY <1>1, <1>2

LEMMA InitOpen == Init => OpenInv
<1> SUFFICES ASSUME Init PROVE OpenInv
  OBVIOUS
<1>1. promise \in [Challenge -> Promises]
  BY DEF Init, Promises
<1>2. Shape
  BY DEF Init, Free, Shape
<1>3. \A i \in Slot : Settled(i)
  BY DEF Init, Settled
<1> QED BY <1>1, <1>2, <1>3 DEF Init, OpenInv, WaitingIsOpen, PresentedIsOpen

LEMMA SubmitKeeps ==
  ASSUME OpenInv, NEW c \in Challenge, SubmitValuesForChallenge(c)
  PROVE  OpenInv'
<1> USE DEF OpenInv, OnlySettles
<1>1. PICK i \in Slot, s \in Submissions(c) :
        work' = [work EXCEPT ![i] = [challenge |-> c, rest |-> InOrder(s)]]
  BY DEF SubmitValuesForChallenge
<1>2. Shape'
  BY <1>1 DEF Shape
<1>3. /\ UNCHANGED <<open, presented>>
      /\ promise' \in [Challenge -> Promises]
      /\ OnlySettles
      /\ ~Validates(c) => promise'[c] \in {"answered", "canceled"}
  BY SettleSettles DEF SubmitValuesForChallenge, Promises
<1>4. \A j \in Slot : Settled(j)'
  <2> TAKE j \in Slot
  <2>1. CASE j = i
    BY <2>1, <1>1, <1>3 DEF Settled, Shape, Validates
  <2>2. CASE j # i
    BY <2>2, <1>1, <1>3 DEF Settled, Shape, Validates
  <2> QED BY <2>1, <2>2
<1> QED BY <1>2, <1>3, <1>4, SettlingKeeps

LEMMA ValidationKeeps ==
  ASSUME OpenInv, NEW i \in Slot, SetValidationStatus(i)
  PROVE  OpenInv'
<1> USE DEF OpenInv, OnlySettles
<1> DEFINE c == work[i].challenge
           rest == Tail(work[i].rest)
           v == Head(work[i].rest)
           values == IF v.right THEN Replace(valid[c], v) ELSE valid[c]
<1>1. c \in Challenge /\ Validates(c)
  BY DEF SetValidationStatus, Settled
<1>2. /\ \/ work' = [work EXCEPT ![i] = Free]
         \/ work' = [work EXCEPT ![i] = [@ EXCEPT !.rest = rest]]
  BY DEF SetValidationStatus
<1>3. Shape'
  BY <1>2 DEF Shape, Free
<1>4. \A j \in Slot : work'[j] = Free \/ (work[j] # Free /\ work'[j].challenge = work[j].challenge)
  BY <1>2 DEF SetValidationStatus, Shape
<1>5. CASE UNCHANGED <<open, promise, presented>>
  <2>1. \A j \in Slot : Settled(j)'
    BY <1>4, <1>5 DEF Settled, Validates
  <2> QED BY <1>3, <1>5, <2>1, SettlingKeeps
<1>6. CASE c \in open /\ Settle(c, "answered") /\ OnEnd(c) /\ DeleteOperation(c)
  <2>1. /\ promise' \in [Challenge -> Promises] /\ promise'[c] # "open"
        /\ OnlySettles
    BY <1>1, <1>6, SettleSettles
  <2>2. \A j \in Slot : Settled(j)'
    BY <1>4, <2>1 DEF Settled, Validates
  <2> QED BY <1>3, <1>6, <2>1, <2>2, DeletionKeeps
<1> QED BY <1>5, <1>6 DEF SetValidationStatus

LEMMA TriedOutKeeps ==
  ASSUME OpenInv, NEW i \in Slot, NEW success \in BOOLEAN, TriedOut(i, success)
  PROVE  OpenInv'
<1> USE DEF OpenInv, OnlySettles
<1> DEFINE c == work[i].challenge
<1>1. work' = [work EXCEPT ![i] = Free] /\ UNCHANGED promise
  BY DEF TriedOut
<1>2. Shape' /\ \A j \in Slot : Settled(j)'
  BY <1>1 DEF Shape, Settled, Validates, Free
<1>3. c \in Challenge /\ promise[c] # "open"
  BY DEF TriedOut, Settled
<1>4. CASE c \in open /\ OnEnd(c) /\ DeleteOperation(c)
  BY <1>1, <1>2, <1>3, <1>4, DeletionKeeps
<1>5. CASE UNCHANGED <<open, presented>>
  BY <1>1, <1>2, <1>5, SettlingKeeps
<1> QED BY <1>4, <1>5 DEF TriedOut

LEMMA NextOpen == OpenInv /\ [Next]_vars => OpenInv'
<1> SUFFICES ASSUME OpenInv, [Next]_vars PROVE OpenInv'
  OBVIOUS
<1>1. ASSUME UNCHANGED <<promise, open, work, presented>> PROVE OpenInv'
  <2>1. Shape' /\ (\A i \in Slot : Settled(i)') /\ WaitingIsOpen' /\ PresentedIsOpen'
    BY <1>1 DEF OpenInv, Shape, Settled, Validates, WaitingIsOpen, PresentedIsOpen
  <2> QED BY <1>1, <2>1 DEF OpenInv
<1>2. ASSUME NEW c \in Challenge, CancelChallenge(c) PROVE OpenInv'
  <2>1. /\ promise' \in [Challenge -> Promises] /\ promise'[c] # "open"
        /\ OnlySettles
    BY <1>2, SettleSettles DEF CancelChallenge, OpenInv, OnlySettles
  <2>2. Shape' /\ \A i \in Slot : Settled(i)'
    BY <1>2, <2>1 DEF CancelChallenge, OpenInv, OnlySettles, Shape, Settled, Validates
  <2> QED BY <1>2, <2>1, <2>2, DeletionKeeps DEF CancelChallenge
<1>3. ASSUME NEW c \in Challenge, Ask(c) PROVE OpenInv'
  <2>1. CASE ReauthenticateInvalidSession(c)
    BY <1>3, <2>1, PresentKeeps DEF ReauthenticateInvalidSession
  <2>2. CASE RepairMissingKeychain(c)
    BY <1>3, <2>2, PresentKeeps, OwnersAssumption DEF RepairMissingKeychain
  <2>3. CASE ValidateOrRenewSession(c)
    BY <1>3, <2>3, PresentKeeps, OwnersAssumption DEF ValidateOrRenewSession
  <2> QED BY <1>3, <2>1, <2>2, <2>3 DEF Ask
<1>4. CASE Authorize \/ Protection \/ Tick
  BY <1>1, <1>4 DEF Authorize, Protection, Tick, LengthStored, ExpiryStored, TimerFires,
                    ClearSession, SetBiometrics, operations
<1>5. CASE UNCHANGED vars
  BY <1>1, <1>5 DEF vars, operations
<1> QED BY <1>2, <1>3, <1>4, <1>5, SubmitKeeps, ValidationKeeps, TriedOutKeeps DEF Next, User

THEOREM OpenInvariant == Spec => []OpenInv
BY InitOpen, NextOpen, PTL DEF Spec

(***************************************************************************)
(* WaitingIsOpen holds of every behaviour: as long as a promise of         *)
(* promptForChallengeResponse waits, its challenge has an operation.       *)
(***************************************************************************)
THEOREM WaitersCanBeAnswered == Spec => []WaitingIsOpen
<1>1. OpenInv => WaitingIsOpen
  BY DEF OpenInv
<1> QED BY <1>1, OpenInvariant, PTL

(***************************************************************************)
(* PresentedIsOpen holds too: isSessionRenewChallengePresented is set      *)
(* exactly while a renewal is open, so that one can be asked for again.    *)
(***************************************************************************)
THEOREM RenewalIsKnown == Spec => []PresentedIsOpen
<1>1. OpenInv => PresentedIsOpen
  BY DEF OpenInv
<1> QED BY <1>1, OpenInvariant, PTL

-------------------------------------------------------------------------------
(***************************************************************************)
(* Values.                                                                 *)
(***************************************************************************)
PromptsOf(values) == {v.prompt : v \in values}

\* The valid values of a challenge answer what it asks, each once, and were proved.
Taken(c) ==
  /\ \A v \in valid[c] : v.right /\ v.prompt \in prompts[c] \intersect proved[c]
  /\ \A v, w \in valid[c] : v.prompt = w.prompt => v = w
  /\ promise[c] = "new" => valid[c] = {}

\* And so do those being validated, but for the wrong ones.
Offered(i) ==
  work[i] # Free =>
    /\ work[i].challenge \in Challenge
    /\ promise[work[i].challenge] # "new"
    /\ work[i].rest \in Seq(Value) /\ work[i].rest # <<>>
    /\ \A k \in 1 .. Len(work[i].rest) :
         /\ work[i].rest[k].prompt \in prompts[work[i].challenge]
         /\ work[i].rest[k].right => work[i].rest[k].prompt \in proved[work[i].challenge]

ValuesInv ==
  /\ prompts \in [Challenge -> SUBSET Prompt]
  /\ valid \in [Challenge -> SUBSET Value]
  /\ proved \in [Challenge -> SUBSET Prompt]
  /\ \A c \in Challenge : Taken(c)
  /\ \A i \in Slot : Offered(i)
  /\ \A c \in Protect \intersect open : promise[c] = "open"

-------------------------------------------------------------------------------
(***************************************************************************)
(* The protection session.                                                 *)
(***************************************************************************)
Write == [challenge : Challenge, until : Nat, length : Nat]

\* A session is being stored for a challenge that was proved, and lasts as long as one
\* that was.
EarnedInv ==
  /\ \A k \in 1 .. Len(storing) :
       LET c == storing[k].challenge
       IN promise[c] # "new" /\ prompts[c] \subseteq proved[c]
  /\ InSession => granted >= expiry
  /\ ~unearned

\* The last end that was stored is the session's: its timer is set, or will be.
LastIs(until) ==
  \E k \in 1 .. Len(storing) :
    storing[k].until = until /\ \A j \in (k + 1) .. Len(storing) : storing[j].until = 0

TimerInv ==
  InSession =>
    \/ timer = expiry /\ \A k \in 1 .. Len(storing) : storing[k].until = 0
    \/ LastIs(expiry)

Times ==
  /\ now \in Nat \ {0} /\ expiry \in Nat /\ timer \in Nat /\ granted \in Nat
  /\ storing \in Seq(Write)

SessionInv == Times /\ EarnedInv /\ TimerInv

-------------------------------------------------------------------------------
LEMMA PromptsAreFinite == \A P \in SUBSET Prompt : IsFiniteSet(P)
<1>1. IsFiniteSet({"Biometric"})
  BY FS_Singleton
<1>2. IsFiniteSet({"Biometric", "LocalPasscode"})
  BY <1>1, FS_AddElement
<1>3. IsFiniteSet({"Biometric", "LocalPasscode", "Duration"})
  BY <1>2, FS_AddElement
<1>4. IsFiniteSet({"Biometric", "LocalPasscode", "Duration", "Email"})
  BY <1>3, FS_AddElement
<1>5. IsFiniteSet(Prompt)
  BY <1>4, FS_AddElement DEF Prompt
<1> QED BY <1>5, FS_Subset

\* Of a finite number of prompts, as many valid values as there are answer all.
LEMMA FinishedIffAll ==
  ASSUME NEW P \in SUBSET Prompt, NEW V,
         \A v \in V : v.prompt \in P,
         \A v, w \in V : v.prompt = w.prompt => v = w
  PROVE  Cardinality(V) = Cardinality(P) <=> PromptsOf(V) = P
<1>1. IsFiniteSet(P)
  BY PromptsAreFinite
<1>2. PromptsOf(V) \in SUBSET P
  BY DEF PromptsOf
<1>3. IsFiniteSet(PromptsOf(V))
  BY <1>1, <1>2, FS_Subset
<1>4. ExistsBijection(PromptsOf(V), V)
  <2> DEFINE f == [p \in PromptsOf(V) |-> CHOOSE v \in V : v.prompt = p]
  <2>1. \A p \in PromptsOf(V) : f[p] \in V /\ f[p].prompt = p
    BY DEF PromptsOf
  <2>2. \A v \in V : v.prompt \in PromptsOf(V) /\ f[v.prompt] = v
    BY <2>1 DEF PromptsOf
  <2>3. f \in [PromptsOf(V) -> V]
    BY <2>1
  <2> HIDE DEF f
  <2>4. f \in Bijection(PromptsOf(V), V)
    BY <2>1, <2>2, <2>3 DEF Bijection, Injection, Surjection, IsInjective
  <2> QED BY <2>4 DEF ExistsBijection
<1>5. Cardinality(V) = Cardinality(PromptsOf(V))
  BY <1>3, <1>4, FS_Bijection
<1> QED BY <1>1, <1>2, <1>5, FS_Subset

LEMMA InOrderIsSeq ==
  ASSUME NEW c \in Challenge, prompts \in [Challenge -> SUBSET Prompt], NEW s \in Submissions(c)
  PROVE  /\ DOMAIN s \subseteq prompts[c]
         /\ InOrder(s) \in Seq(Value) /\ InOrder(s) # <<>>
         /\ \A k \in 1 .. Len(InOrder(s)) :
              \E p \in DOMAIN s : InOrder(s)[k] = s[p] /\ s[p].prompt = p
<1> DEFINE S == {s[p] : p \in DOMAIN s}
<1>1. PICK P \in (SUBSET prompts[c]) \ {{}} : s \in [P -> UNION {ValuesFor(p) : p \in prompts[c]}]
  BY DEF Submissions
<1>2. \A p \in DOMAIN s : s[p].prompt = p
  BY DEF Submissions
<1>3. \A p \in prompts[c] : ValuesFor(p) \subseteq Value
  <2> SUFFICES ASSUME NEW p \in prompts[c], NEW v \in ValuesFor(p) PROVE v \in Value
    OBVIOUS
  <2>1. p \in Prompt
    OBVIOUS
  <2>2. v \in [prompt : {p}, right : {TRUE}, length : Lengths]
          \/ v \in [prompt : {p}, right : BOOLEAN, length : {0}]
    BY DEF ValuesFor
  <2> QED BY <2>1, <2>2, LengthsAssumption DEF Value
<1>4. S \subseteq Value /\ S # {}
  <2> SUFFICES ASSUME NEW p \in P PROVE s[p] \in Value
    BY <1>1
  <2> QED BY <1>1, <1>3
<1>5. IsFiniteSet(S) /\ ExistsBijection(1 .. Cardinality(S), S)
  <2>1. s \in Surjection(P, S)
    BY <1>1 DEF Surjection
  <2>2. IsFiniteSet(P)
    BY PromptsAreFinite
  <2> QED BY <2>1, <2>2, FS_Surjection, FS_CardinalityType DEF ExistsSurjection
<1>6. InOrder(s) \in [1 .. Cardinality(S) -> S]
  BY <1>5 DEF InOrder, SetToSeq, ExistsBijection, Bijection, Injection
<1>7. Cardinality(S) \in Nat /\ Cardinality(S) # 0
  BY <1>4, <1>5, FS_EmptySet, FS_CardinalityType
<1>8. InOrder(s) \in Seq(S) /\ Len(InOrder(s)) = Cardinality(S)
  <2> HIDE DEF S
  <2> QED BY <1>6, <1>7
<1> QED BY <1>1, <1>2, <1>4, <1>6, <1>7, <1>8

-------------------------------------------------------------------------------
(***************************************************************************)
(* Values are kept, whoever submits, cancels or asks again.                *)
(***************************************************************************)
\* What was asked stays asked, and what was proved stays proved.
Grows ==
  /\ prompts' \in [Challenge -> SUBSET Prompt] /\ proved' \in [Challenge -> SUBSET Prompt]
  /\ \A c \in Challenge :
       /\ proved[c] \subseteq proved'[c]
       /\ promise[c] # "new" => prompts'[c] = prompts[c] /\ promise'[c] # "new"

LEMMA ValuesStay ==
  ASSUME ValuesInv, Grows
  PROVE  /\ \A c \in Challenge : valid'[c] = valid[c] => Taken(c)'
         /\ \A i \in Slot : work'[i] \in {work[i], Free} => Offered(i)'
<1>1. ASSUME NEW c \in Challenge, valid'[c] = valid[c] PROVE Taken(c)'
  <2>1. CASE promise[c] = "new"
    BY <1>1, <2>1 DEF ValuesInv, Taken
  <2>2. CASE promise[c] # "new"
    BY <1>1, <2>2 DEF ValuesInv, Taken, Grows
  <2> QED BY <2>1, <2>2
<1>2. ASSUME NEW i \in Slot, work'[i] \in {work[i], Free} PROVE Offered(i)'
  BY <1>2 DEF ValuesInv, Offered, Grows
<1> QED BY <1>1, <1>2

\* Of the steps that touch no value.
LEMMA ValuesUntouched ==
  ASSUME OpenInv, ValuesInv, Grows, UNCHANGED valid,
         \A i \in Slot : work'[i] \in {work[i], Free},
         \A c \in Protect \intersect open' : promise'[c] = "open"
  PROVE  ValuesInv'
BY ValuesStay DEF ValuesInv, Grows

LEMMA InitValues == Init => ValuesInv
BY DEF Init, ValuesInv, Taken, Offered

LEMMA PresentValues ==
  ASSUME OpenInv, ValuesInv, NEW c \in Challenge, NEW P \in SUBSET Prompt, Present(c, P),
         UNCHANGED <<valid, work, proved>>
  PROVE  ValuesInv'
<1>1. prompts' = [prompts EXCEPT ![c] = P] /\ promise' = [promise EXCEPT ![c] = "open"]
      /\ open' = open \union {c} /\ promise[c] = "new"
  BY DEF Present
<1>2. Grows
  BY <1>1 DEF Grows, ValuesInv, OpenInv
<1>3. \A d \in Protect \intersect open' : promise'[d] = "open"
  BY <1>1 DEF ValuesInv, OpenInv, Challenge
<1> QED BY <1>2, <1>3, ValuesUntouched

LEMMA SubmitValues ==
  ASSUME OpenInv, ValuesInv, NEW c \in Challenge, SubmitValuesForChallenge(c)
  PROVE  ValuesInv'
<1>1. PICK i \in Slot, s \in Submissions(c) :
        /\ work' = [work EXCEPT ![i] = [challenge |-> c, rest |-> InOrder(s)]]
        /\ proved' = [proved EXCEPT ![c] = @ \union {p \in DOMAIN s : s[p].right}]
  BY DEF SubmitValuesForChallenge
<1>2. /\ c \in open /\ UNCHANGED <<prompts, open, valid>>
      /\ promise' = IF Validates(c) THEN promise
                    ELSE [promise EXCEPT ![c] = IF @ = "open" THEN "answered" ELSE @]
  BY DEF SubmitValuesForChallenge, Settle
<1>3. DOMAIN s \subseteq prompts[c]
  BY InOrderIsSeq DEF ValuesInv
<1>4. Grows
  <2>1. proved' \in [Challenge -> SUBSET Prompt]
    BY <1>1, <1>3 DEF ValuesInv
  <2>2. \A d \in Challenge : proved[d] \subseteq proved'[d]
    BY <1>1 DEF ValuesInv
  <2> QED BY <1>2, <2>1, <2>2 DEF Grows, ValuesInv, OpenInv
<1>5. \A j \in Slot : Offered(j)'
  <2>1. Offered(i)'
    <3>1. work'[i].challenge = c /\ work'[i].rest = InOrder(s)
      BY <1>1 DEF OpenInv, Shape
    <3>2. proved'[c] = proved[c] \union {p \in DOMAIN s : s[p].right}
      BY <1>1 DEF ValuesInv
    <3>3. promise'[c] # "new"
      BY <1>2 DEF OpenInv
    <3>4. prompts \in [Challenge -> SUBSET Prompt]
      BY DEF ValuesInv
    <3> QED BY <1>2, <3>1, <3>2, <3>3, <3>4, InOrderIsSeq DEF Offered
  <2>2. \A j \in Slot \ {i} : work'[j] = work[j]
    BY <1>1 DEF OpenInv, Shape
  <2> QED BY <1>4, <2>1, <2>2, ValuesStay
<1>6. \A d \in Protect \intersect open' : promise'[d] = "open"
  BY <1>2 DEF ValuesInv, Validates, OpenInv, Challenge
<1>7. \A d \in Challenge : Taken(d)'
  BY <1>2, <1>4, ValuesStay
<1> QED BY <1>2, <1>4, <1>5, <1>6, <1>7 DEF ValuesInv, Grows

\* What a validation does, in terms of the values it leaves.
\* It is dropped, or accepts a value, the last one or not.
Drops == UNCHANGED open /\ UNCHANGED valid /\ UNCHANGED promise /\ UNCHANGED storing

Finishes(c, values) ==
  /\ c \in open /\ promise[c] = "open"
  /\ valid' = [valid EXCEPT ![c] = values]
  /\ PromptsOf(values) = prompts[c]
  /\ promise' = [promise EXCEPT ![c] = "answered"]
  /\ storing' = Append(storing, [challenge |-> c, until |-> 0, length |-> LengthOf(values)])
  /\ open' = open \ {c}

GoesOn(c, values) ==
  /\ c \in open /\ promise[c] = "open"
  /\ valid' = [valid EXCEPT ![c] = values]
  /\ PromptsOf(values) # prompts[c]
  /\ UNCHANGED open /\ UNCHANGED promise /\ UNCHANGED storing

ValidationStep(i, c, values) ==
  /\ c = work[i].challenge /\ Validates(c)
  /\ Drops \/ Finishes(c, values) \/ GoesOn(c, values)
  /\ \A w \in values : w.right /\ w.prompt \in prompts[c] \intersect proved[c]
  /\ \A w, x \in values : w.prompt = x.prompt => w = x
  /\ \E P \in SUBSET prompts[c] : PromptsOf(values) = PromptsOf(valid[c]) \union P

LEMMA ValidationSteps ==
  ASSUME OpenInv, ValuesInv, NEW i \in Slot, SetValidationStatus(i)
  PROVE  \E c \in Challenge, values \in SUBSET Value : ValidationStep(i, c, values)
<1>0. PICK c, v, values :
        /\ c = work[i].challenge /\ v = Head(work[i].rest)
        /\ values = IF v.right THEN Replace(valid[c], v) ELSE valid[c]
  OBVIOUS
<1>1. c \in Challenge /\ Validates(c)
  BY <1>0 DEF ValuesInv, Offered, SetValidationStatus
<1>2. v \in Value /\ v.prompt \in prompts[c] /\ (v.right => v.prompt \in proved[c])
  <2>1. work[i].rest \in Seq(Value) /\ work[i].rest # <<>>
    BY DEF ValuesInv, Offered, SetValidationStatus
  <2>2. v = work[i].rest[1] /\ 1 \in 1 .. Len(work[i].rest)
    BY <1>0, <2>1
  <2> QED BY <1>0, <2>1, <2>2 DEF ValuesInv, Offered, SetValidationStatus
<1>3. values \subseteq Value
  BY <1>0, <1>1, <1>2 DEF ValuesInv, Replace
<1>4. \A w \in values : w.right /\ w.prompt \in prompts[c] \intersect proved[c]
  BY <1>0, <1>1, <1>2 DEF ValuesInv, Taken, Replace
<1>5. \A w, x \in values : w.prompt = x.prompt => w = x
  BY <1>0, <1>1 DEF ValuesInv, Taken, Replace
<1>6. IsFinished(c, values) <=> PromptsOf(values) = prompts[c]
  BY <1>1, <1>4, <1>5, FinishedIffAll DEF IsFinished, ValuesInv
<1>7. c \in open => promise[c] = "open"
  BY <1>1 DEF ValuesInv, Validates
<1>8. \/ UNCHANGED <<open, valid, promise, storing>>
      \/ /\ c \in open
         /\ valid' = [valid EXCEPT ![c] = values]
         /\ IF IsFinished(c, values)
            THEN /\ Settle(c, "answered")
                 /\ DeleteOperation(c)
                 /\ storing' = Append(storing, [challenge |-> c, until |-> 0,
                                                length |-> LengthOf(values)])
            ELSE UNCHANGED <<open, promise, storing>>
  BY <1>0 DEF SetValidationStatus
<1>9. Settle(c, "answered") /\ promise[c] = "open" => promise' = [promise EXCEPT ![c] = "answered"]
  BY DEF Settle
<1>10. Drops \/ Finishes(c, values) \/ GoesOn(c, values)
  BY <1>6, <1>7, <1>8, <1>9 DEF Drops, Finishes, GoesOn, DeleteOperation
<1>11. \E P \in SUBSET prompts[c] : PromptsOf(values) = PromptsOf(valid[c]) \union P
  <2>1. CASE v.right
    <3>1. PromptsOf(Replace(valid[c], v)) = PromptsOf(valid[c]) \union {v.prompt}
      BY DEF PromptsOf, Replace
    <3> QED BY <1>0, <1>2, <2>1, <3>1
  <2>2. CASE ~v.right
    <3>1. PromptsOf(values) = PromptsOf(valid[c]) \union {}
      BY <1>0, <2>2 DEF PromptsOf
    <3> QED BY <3>1
  <2> QED BY <2>1, <2>2
<1>12. ValidationStep(i, c, values)
  BY <1>0, <1>1, <1>4, <1>5, <1>10, <1>11 DEF ValidationStep
<1> QED BY <1>1, <1>3, <1>12

LEMMA ValidationValues ==
  ASSUME OpenInv, ValuesInv, NEW i \in Slot, SetValidationStatus(i)
  PROVE  ValuesInv'
<1>1. UNCHANGED <<prompts, proved>>
  BY DEF SetValidationStatus
<1>2. PICK c \in Challenge, values \in SUBSET Value : ValidationStep(i, c, values)
  BY ValidationSteps
<1> USE DEF ValidationStep, Drops, Finishes, GoesOn
<1> DEFINE rest == Tail(work[i].rest)
<1>3. Grows
  BY <1>1, <1>2 DEF Grows, ValuesInv, OpenInv
<1>4. \A d \in Challenge : Taken(d)'
  <2>1. valid' = valid \/ (valid' = [valid EXCEPT ![c] = values] /\ promise'[c] # "new")
    BY <1>2, <1>3 DEF Grows
  <2>2. CASE valid' = [valid EXCEPT ![c] = values] /\ promise'[c] # "new"
    <3>1. valid'[c] = values /\ \A d \in Challenge \ {c} : valid'[d] = valid[d]
      BY <2>2 DEF ValuesInv
    <3>2. Taken(c)'
      BY <1>1, <1>2, <2>2, <3>1 DEF Taken
    <3> QED BY <1>3, <3>1, <3>2, ValuesStay
  <2>3. CASE valid' = valid
    BY <1>3, <2>3, ValuesStay
  <2> QED BY <2>1, <2>2, <2>3
<1>5. \A j \in Slot : Offered(j)'
  <2>1. /\ \A j \in Slot \ {i} : work'[j] = work[j]
        /\ \/ work'[i] = Free
           \/ rest # <<>> /\ work'[i] = [work[i] EXCEPT !.rest = rest]
    BY DEF SetValidationStatus, OpenInv, Shape
  <2>2. CASE rest # <<>> /\ work'[i] = [work[i] EXCEPT !.rest = rest]
    <3>1. Offered(i) /\ work[i] # Free
      BY DEF ValuesInv, SetValidationStatus
    <3>2. /\ rest \in Seq(Value)
          /\ \A k \in 1 .. Len(rest) : k + 1 \in 1 .. Len(work[i].rest) /\ rest[k] = work[i].rest[k + 1]
      BY <3>1 DEF Offered
    <3>3. work'[i].challenge = c /\ work'[i].rest = rest
      <4>1. c = work[i].challenge
        BY <1>2
      <4> QED BY <2>2, <4>1 DEF OpenInv, Shape
    <3>4. promise'[c] # "new"
      BY <1>2, <1>3, <3>1 DEF Offered, Grows
    <3>5. Offered(i)'
      <4> HIDE DEF rest
      <4> QED BY <1>1, <2>2, <3>1, <3>2, <3>3, <3>4 DEF Offered
    <3> QED BY <1>3, <2>1, <3>5, ValuesStay
  <2>3. CASE work'[i] = Free
    BY <1>3, <2>1, <2>3, ValuesStay
  <2> QED BY <2>1, <2>2, <2>3
<1>6. \A d \in Protect \intersect open' : promise'[d] = "open"
  BY <1>2 DEF ValuesInv, OpenInv, Challenge
<1>7. valid' \in [Challenge -> SUBSET Value]
  BY <1>2 DEF ValuesInv
<1> QED BY <1>3, <1>4, <1>5, <1>6, <1>7 DEF ValuesInv, Grows

LEMMA NextValues ==
  ASSUME OpenInv, ValuesInv, [Next]_vars
  PROVE  ValuesInv'
<1>1. ASSUME UNCHANGED <<prompts, valid, proved, promise, open>>,
             \A i \in Slot : work'[i] \in {work[i], Free}
      PROVE  ValuesInv'
  <2>1. Grows
    BY <1>1 DEF Grows, ValuesInv, OpenInv
  <2> QED BY <1>1, <2>1, ValuesUntouched DEF ValuesInv
<1>2. ASSUME NEW c \in Challenge, CancelChallenge(c) PROVE ValuesInv'
  <2>1. /\ UNCHANGED <<prompts, valid, work, proved>> /\ open' = open \ {c}
        /\ promise' = [promise EXCEPT ![c] = IF @ = "open" THEN "canceled" ELSE @]
    BY <1>2 DEF CancelChallenge, Settle, DeleteOperation
  <2>2. Grows
    BY <2>1 DEF Grows, ValuesInv, OpenInv
  <2>3. \A d \in Protect \intersect open' : promise'[d] = "open"
    BY <2>1 DEF ValuesInv, OpenInv, Challenge
  <2> QED BY <2>1, <2>2, <2>3, ValuesUntouched
<1>3. ASSUME NEW c \in Challenge, Ask(c) PROVE ValuesInv'
  <2>1. \E P \in SUBSET Prompt : Present(c, P)
    BY <1>3 DEF Ask, ReauthenticateInvalidSession, RepairMissingKeychain,
                ValidateOrRenewSession, Prompt
  <2>2. UNCHANGED <<valid, work, proved>>
    BY <1>3 DEF Ask, ReauthenticateInvalidSession, RepairMissingKeychain, ValidateOrRenewSession
  <2> QED BY <2>1, <2>2, PresentValues
<1>4. ASSUME NEW i \in Slot, NEW success \in BOOLEAN, TriedOut(i, success) PROVE ValuesInv'
  <2>1. /\ UNCHANGED <<prompts, valid, proved, promise>> /\ open' \subseteq open
        /\ work' = [work EXCEPT ![i] = Free]
    BY <1>4 DEF TriedOut, DeleteOperation
  <2>2. Grows
    BY <2>1 DEF Grows, ValuesInv, OpenInv
  <2> QED BY <2>1, <2>2, ValuesUntouched DEF OpenInv, Shape, ValuesInv
<1>5. CASE Authorize \/ Protection \/ Tick
  BY <1>1, <1>5 DEF Authorize, Protection, Tick, LengthStored, ExpiryStored, TimerFires,
                    ClearSession, SetBiometrics, operations
<1>6. CASE UNCHANGED vars
  BY <1>1, <1>6 DEF vars, operations
<1> QED BY <1>2, <1>3, <1>4, <1>5, <1>6, SubmitValues, ValidationValues DEF Next, User

THEOREM ValuesInvariant == Spec => []ValuesInv
BY InitValues, NextValues, OpenInvariant, PTL DEF Spec

-------------------------------------------------------------------------------
LEMMA LengthsAreNat == \A values \in SUBSET Value : LengthOf(values) \in Nat
<1> SUFFICES ASSUME NEW values \in SUBSET Value PROVE LengthOf(values) \in Nat
  OBVIOUS
<1>1. PICK durations : durations = {v.length : v \in {w \in values : w.prompt = "Duration"}}
  OBVIOUS
<1>2. durations \subseteq Nat
  BY <1>1, LengthsAssumption DEF Value
<1>3. LengthOf(values) = IF durations = {} THEN 0 ELSE CHOOSE l \in durations : TRUE
  BY <1>1 DEF LengthOf
<1>4. CASE durations = {}
  BY <1>3, <1>4
<1>5. CASE durations # {}
  <2>1. PICK l \in durations : LengthOf(values) = l
    BY <1>3, <1>5, Zenon
  <2> QED BY <1>2, <2>1
<1> QED BY <1>4, <1>5

LEMMA InitSession == Init => SessionInv
BY BoundAssumption DEF Init, SessionInv, Times, EarnedInv, TimerInv, InSession

\* Of the steps that do not touch the session.
LEMMA SessionUntouched ==
  ASSUME SessionInv, Grows, UNCHANGED <<expiry, timer, storing, granted>>, ~unearned',
         now' \in Nat, now' >= now
  PROVE  SessionInv'
<1>1. Times'
  BY DEF SessionInv, Times
<1>2. InSession' => InSession
  BY DEF InSession, SessionInv, Times
<1>3. TimerInv'
  BY <1>2 DEF SessionInv, TimerInv, LastIs
<1>4. EarnedInv'
  <2>1. ASSUME NEW k \in 1 .. Len(storing)
        PROVE  LET c == storing[k].challenge
               IN promise'[c] # "new" /\ prompts'[c] \subseteq proved'[c]
    <3> DEFINE c == storing[k].challenge
    <3>1. c \in Challenge
      <4>1. storing[k] \in Write
        BY DEF SessionInv, Times
      <4> QED BY <4>1 DEF Write
    <3>2. promise[c] # "new" /\ prompts[c] \subseteq proved[c]
      BY DEF SessionInv, EarnedInv
    <3> HIDE DEF c
    <3>3. promise'[c] # "new" /\ prompts'[c] \subseteq proved'[c]
      BY <3>1, <3>2 DEF Grows
    <3> QED BY <3>3 DEF c
  <2> QED BY <1>2, <2>1 DEF SessionInv, EarnedInv
<1> QED BY <1>1, <1>3, <1>4 DEF SessionInv

LEMMA ValidationSession ==
  ASSUME OpenInv, ValuesInv, SessionInv, NEW i \in Slot, SetValidationStatus(i)
  PROVE  SessionInv'
<1>1. PICK c \in Challenge, values \in SUBSET Value : ValidationStep(i, c, values)
  BY ValidationSteps
<1>2. UNCHANGED <<prompts, proved, now, expiry, timer, granted, unearned>>
  BY DEF SetValidationStatus
<1>3. \/ promise' = promise
      \/ promise[c] = "open" /\ promise' = [promise EXCEPT ![c] = "answered"]
  BY <1>1 DEF ValidationStep, Drops, Finishes, GoesOn
<1>4. Grows
  BY <1>2, <1>3 DEF Grows, ValuesInv, OpenInv
<1>5. CASE UNCHANGED storing
  <2>1. now' \in Nat /\ now' >= now
    BY <1>2 DEF SessionInv, Times
  <2> QED BY <1>2, <1>4, <1>5, <2>1, SessionUntouched DEF SessionInv, EarnedInv
<1>6. CASE ~UNCHANGED storing
  <2> DEFINE w == [challenge |-> c, until |-> 0, length |-> LengthOf(values)]
  <2>1. storing' = Append(storing, w) /\ promise'[c] # "new" /\ PromptsOf(values) = prompts[c]
    <3>1. /\ storing' = Append(storing, w) /\ promise' = [promise EXCEPT ![c] = "answered"]
          /\ PromptsOf(values) = prompts[c]
      BY <1>1, <1>6 DEF ValidationStep, Drops, Finishes, GoesOn
    <3> QED BY <3>1 DEF OpenInv
  <2>2. w \in Write /\ w.challenge = c /\ w.until = 0
    BY LengthsAreNat DEF Write
  <2> HIDE DEF w
  <2>3. storing \in Seq(Write)
    BY DEF SessionInv, Times
  <2>4. /\ storing' \in Seq(Write) /\ Len(storing') = Len(storing) + 1
        /\ storing'[Len(storing) + 1] = w /\ Len(storing) \in Nat
        /\ \A k \in 1 .. Len(storing) : storing'[k] = storing[k]
    BY <2>1, <2>2, <2>3
  <2>5. prompts[c] \subseteq proved[c]
    BY <1>1, <2>1 DEF ValidationStep, PromptsOf
  <2>6. Times'
    BY <1>2, <2>4 DEF SessionInv, Times
  <2>7. EarnedInv'
    <3>1. ASSUME NEW k \in 1 .. Len(storing')
          PROVE  LET d == storing'[k].challenge
                 IN promise'[d] # "new" /\ prompts'[d] \subseteq proved'[d]
      <4>1. CASE k = Len(storing) + 1
        BY <1>2, <2>1, <2>2, <2>4, <2>5, <4>1
      <4>2. CASE k \in 1 .. Len(storing)
        <5> DEFINE d == storing[k].challenge
        <5>1. d \in Challenge
          <6>1. storing[k] \in Write
            BY <2>3, <4>2
          <6> QED BY <6>1 DEF Write
        <5>2. promise[d] # "new" /\ prompts[d] \subseteq proved[d]
          BY <4>2 DEF SessionInv, EarnedInv
        <5> HIDE DEF d
        <5>3. promise'[d] # "new" /\ prompts'[d] \subseteq proved'[d]
          BY <1>4, <5>1, <5>2 DEF Grows
        <5> QED BY <2>4, <4>2, <5>3 DEF d
      <4> QED BY <2>4, <4>1, <4>2
    <3> QED BY <1>2, <3>1 DEF SessionInv, EarnedInv, InSession
  <2>8. TimerInv'
    <3>1. LastIs(expiry) => LastIs(expiry)'
      <4> SUFFICES ASSUME NEW k \in 1 .. Len(storing), storing[k].until = expiry,
                          \A j \in (k + 1) .. Len(storing) : storing[j].until = 0
                   PROVE  LastIs(expiry)'
        BY DEF LastIs
      <4>1. k \in 1 .. Len(storing') /\ storing'[k].until = expiry'
        BY <1>2, <2>4
      <4>2. \A j \in (k + 1) .. Len(storing') : storing'[j].until = 0
        BY <2>2, <2>4
      <4> QED BY <4>1, <4>2 DEF LastIs
    <3>2. (\A k \in 1 .. Len(storing) : storing[k].until = 0)
            => \A k \in 1 .. Len(storing') : storing'[k].until = 0
      BY <2>2, <2>4
    <3> QED BY <1>2, <3>1, <3>2 DEF SessionInv, TimerInv, InSession
  <2> QED BY <2>6, <2>7, <2>8 DEF SessionInv
<1> QED BY <1>5, <1>6

LEMMA LengthSession ==
  ASSUME OpenInv, ValuesInv, SessionInv, LengthStored
  PROVE  SessionInv'
<1> DEFINE w == Head(storing)
           until == now + w.length
           t == [w EXCEPT !.until = until]
<1>1. storing \in Seq(Write) /\ storing # <<>>
  BY DEF LengthStored, SessionInv, Times
<1>2. w = storing[1] /\ 1 \in 1 .. Len(storing) /\ w \in Write
  BY <1>1
<1>3. until \in Nat /\ t \in Write /\ t.until = until /\ t.challenge = w.challenge
  <2>1. w.length \in Nat /\ now \in Nat
    BY <1>2 DEF SessionInv, Times, Write
  <2>2. until \in Nat
    BY <2>1
  <2> HIDE DEF w, until
  <2> QED BY <1>2, <2>2 DEF Write
<1>4. prompts[w.challenge] \subseteq proved[w.challenge] /\ promise[w.challenge] # "new"
  BY <1>2 DEF SessionInv, EarnedInv
<1>5. /\ expiry' = until /\ storing' = Append(Tail(storing), t)
      /\ granted' = IF until > granted THEN until ELSE granted
      /\ ~unearned'
      /\ UNCHANGED <<timer, now, promise, prompts, proved>>
  <2>1. /\ expiry' = until /\ storing' = Append(Tail(storing), t)
        /\ granted' = IF until > granted THEN until ELSE granted
        /\ UNCHANGED <<timer, now, promise, prompts, proved>>
    BY <1>4 DEF LengthStored, operations
  <2>2. unearned' = (unearned \/ ~(prompts[w.challenge] \subseteq proved[w.challenge]))
    BY DEF LengthStored
  <2>3. ~unearned'
    BY <1>4, <2>2 DEF SessionInv, EarnedInv
  <2> QED BY <2>1, <2>3
<1> HIDE DEF w, until, t
<1>6. /\ storing' \in Seq(Write) /\ Len(storing') = Len(storing)
      /\ Len(storing) \in Nat \ {0}
      /\ storing'[Len(storing)] = t
      /\ \A k \in 1 .. (Len(storing) - 1) : storing'[k] = storing[k + 1]
  <2>1. /\ Tail(storing) \in Seq(Write) /\ Len(Tail(storing)) = Len(storing) - 1
        /\ \A k \in 1 .. Len(Tail(storing)) : Tail(storing)[k] = storing[k + 1]
    BY <1>1
  <2> QED BY <1>1, <1>2, <1>3, <1>5, <2>1
<1>7. Times'
  BY <1>3, <1>5, <1>6 DEF SessionInv, Times
<1>8. EarnedInv'
  <2>1. ASSUME NEW k \in 1 .. Len(storing')
        PROVE  LET d == storing'[k].challenge
               IN promise'[d] # "new" /\ prompts'[d] \subseteq proved'[d]
    <3>1. CASE k = Len(storing)
      BY <1>3, <1>4, <1>5, <1>6, <3>1
    <3>2. CASE k \in 1 .. (Len(storing) - 1)
      <4>1. storing'[k] = storing[k + 1] /\ k + 1 \in 1 .. Len(storing)
        BY <1>6, <3>2
      <4> QED BY <1>5, <4>1 DEF SessionInv, EarnedInv
    <3> QED BY <1>6, <3>1, <3>2
  <2>2. granted' >= expiry'
    BY <1>3, <1>5 DEF SessionInv, Times
  <2> QED BY <1>5, <2>1, <2>2 DEF SessionInv, EarnedInv
<1>9. LastIs(expiry)'
  <2>1. Len(storing) \in 1 .. Len(storing') /\ storing'[Len(storing)].until = expiry'
    BY <1>3, <1>5, <1>6
  <2>2. \A j \in (Len(storing) + 1) .. Len(storing') : storing'[j].until = 0
    BY <1>6
  <2> QED BY <2>1, <2>2 DEF LastIs
<1> QED BY <1>7, <1>8, <1>9 DEF SessionInv, TimerInv

LEMMA ExpirySession ==
  ASSUME OpenInv, ValuesInv, SessionInv, ExpiryStored
  PROVE  SessionInv'
<1>1. storing \in Seq(Write) /\ storing # <<>>
  BY DEF ExpiryStored, SessionInv, Times
<1>2. Head(storing) = storing[1] /\ 1 \in 1 .. Len(storing) /\ storing[1] \in Write
  BY <1>1
<1>3. /\ storing[1].until > 0 /\ storing' = Tail(storing)
      /\ timer' = IF storing[1].until > now THEN storing[1].until ELSE timer
      /\ UNCHANGED <<expiry, granted, unearned, now, promise, prompts, proved>>
  BY <1>2 DEF ExpiryStored, UpdateSessionExpiryTimer, operations
<1>4. /\ storing' \in Seq(Write) /\ Len(storing') = Len(storing) - 1 /\ Len(storing) \in Nat
      /\ \A k \in 1 .. Len(storing') : storing'[k] = storing[k + 1] /\ k + 1 \in 1 .. Len(storing)
  BY <1>1, <1>3
<1>5. Times'
  BY <1>2, <1>3, <1>4 DEF SessionInv, Times, Write
<1>6. EarnedInv'
  BY <1>3, <1>4 DEF SessionInv, EarnedInv, InSession
<1>7. TimerInv'
  <2> SUFFICES ASSUME InSession PROVE TimerInv'
    BY <1>3 DEF TimerInv, InSession
  <2>1. PICK k \in 1 .. Len(storing) :
          storing[k].until = expiry /\ \A j \in (k + 1) .. Len(storing) : storing[j].until = 0
    <3>1. ~ \A k \in 1 .. Len(storing) : storing[k].until = 0
      BY <1>2, <1>3 DEF Write
    <3> QED BY <3>1 DEF SessionInv, TimerInv, LastIs
  <2>2. CASE k = 1
    <3>1. timer' = expiry'
      BY <1>3, <2>1, <2>2 DEF InSession
    <3>2. \A j \in 1 .. Len(storing') : storing'[j].until = 0
      BY <1>4, <2>1, <2>2
    <3> QED BY <3>1, <3>2 DEF TimerInv
  <2>3. CASE k > 1
    <3>1. k - 1 \in 1 .. Len(storing') /\ storing'[k - 1].until = expiry'
      BY <1>3, <1>4, <2>1, <2>3
    <3>2. \A j \in ((k - 1) + 1) .. Len(storing') : storing'[j].until = 0
      BY <1>4, <2>1, <2>3
    <3> QED BY <3>1, <3>2 DEF TimerInv, LastIs
  <2> QED BY <2>2, <2>3
<1> QED BY <1>5, <1>6, <1>7 DEF SessionInv

LEMMA NextGrows ==
  ASSUME OpenInv, ValuesInv, [Next]_vars
  PROVE  Grows
<1>1. ASSUME UNCHANGED <<prompts, promise, proved>> PROVE Grows
  BY <1>1 DEF Grows, ValuesInv, OpenInv
<1>2. ASSUME UNCHANGED <<prompts, proved>>, NEW c \in Challenge, NEW outcome \in Promises \ {"new"},
             promise' = [promise EXCEPT ![c] = IF @ = "open" THEN outcome ELSE @]
      PROVE  Grows
  BY <1>2 DEF Grows, ValuesInv, OpenInv
<1>3. ASSUME NEW c \in Challenge, Ask(c) PROVE Grows
  <2>1. PICK P \in SUBSET Prompt : Present(c, P)
    BY <1>3 DEF Ask, ReauthenticateInvalidSession, RepairMissingKeychain,
                ValidateOrRenewSession, Prompt
  <2>2. UNCHANGED proved
    BY <1>3 DEF Ask, ReauthenticateInvalidSession, RepairMissingKeychain, ValidateOrRenewSession
  <2> QED BY <2>1, <2>2 DEF Present, Grows, ValuesInv, OpenInv
<1>4. ASSUME NEW c \in Challenge, CancelChallenge(c) PROVE Grows
  BY <1>2, <1>4 DEF CancelChallenge, Settle, Promises
<1>5. ASSUME NEW c \in Challenge, SubmitValuesForChallenge(c) PROVE Grows
  <2>1. PICK s \in Submissions(c) : proved' = [proved EXCEPT ![c] = @ \union {p \in DOMAIN s : s[p].right}]
    BY <1>5 DEF SubmitValuesForChallenge
  <2>2. /\ UNCHANGED prompts
        /\ \/ UNCHANGED promise
           \/ promise' = [promise EXCEPT ![c] = IF @ = "open" THEN "answered" ELSE @]
    BY <1>5 DEF SubmitValuesForChallenge, Settle
  <2>3. DOMAIN s \subseteq prompts[c]
    BY InOrderIsSeq DEF ValuesInv
  <2>4. proved' \in [Challenge -> SUBSET Prompt] /\ \A d \in Challenge : proved[d] \subseteq proved'[d]
    BY <2>1, <2>3 DEF ValuesInv
  <2> QED BY <2>2, <2>4 DEF Grows, ValuesInv, OpenInv
<1>6. ASSUME NEW i \in Slot, SetValidationStatus(i) PROVE Grows
  <2>1. PICK c \in Challenge, values \in SUBSET Value : ValidationStep(i, c, values)
    BY <1>6, ValidationSteps
  <2>2. UNCHANGED <<prompts, proved>>
    BY <1>6 DEF SetValidationStatus
  <2> QED BY <2>1, <2>2 DEF ValidationStep, Drops, Finishes, GoesOn, Grows, ValuesInv, OpenInv
<1>7. ASSUME NEW i \in Slot, NEW success \in BOOLEAN, TriedOut(i, success) PROVE Grows
  BY <1>1, <1>7 DEF TriedOut
<1>8. CASE Authorize \/ Protection \/ Tick
  BY <1>1, <1>8 DEF Authorize, Protection, Tick, LengthStored, ExpiryStored, TimerFires,
                    ClearSession, SetBiometrics, operations
<1>9. CASE UNCHANGED vars
  BY <1>1, <1>9 DEF vars, operations
<1> QED BY <1>3, <1>4, <1>5, <1>6, <1>7, <1>8, <1>9 DEF Next, User

LEMMA NextSession ==
  ASSUME OpenInv, ValuesInv, SessionInv, [Next]_vars
  PROVE  SessionInv'
<1>1. Grows
  BY NextGrows
<1>2. ASSUME UNCHANGED <<expiry, timer, storing, granted, now>>, UNCHANGED unearned \/ ~unearned'
      PROVE  SessionInv'
  <2> ~unearned'
    BY <1>2 DEF SessionInv, EarnedInv
  <2>1. now' \in Nat /\ now' >= now
    BY <1>2 DEF SessionInv, Times
  <2> QED BY <1>1, <1>2, <2>1, SessionUntouched
<1>3. CASE \E c \in Challenge : Ask(c) \/ SubmitValuesForChallenge(c) \/ CancelChallenge(c)
  BY <1>2, <1>3 DEF Ask, ReauthenticateInvalidSession, RepairMissingKeychain,
                    ValidateOrRenewSession, SubmitValuesForChallenge, CancelChallenge, protection
<1>4. CASE \E i \in Slot, success \in BOOLEAN : TriedOut(i, success)
  BY <1>2, <1>4 DEF TriedOut, protection
<1>5. CASE Authorize
  <2>1. granted > now
    BY <1>5 DEF Authorize, InSession, SessionInv, EarnedInv, Times
  <2>2. ~(granted <= now)
    BY <2>1 DEF SessionInv, Times
  <2>3. ~unearned'
    BY <1>5, <2>2 DEF Authorize, SessionInv, EarnedInv
  <2> QED BY <1>2, <1>5, <2>3 DEF Authorize
<1>6. CASE Tick
  <2>1. now' \in Nat /\ now' >= now /\ UNCHANGED <<expiry, timer, storing, granted, unearned>>
    BY <1>6 DEF Tick, protection, SessionInv, Times
  <2> QED BY <1>1, <2>1, SessionUntouched DEF SessionInv, EarnedInv
<1>7. CASE TimerFires \/ ClearSession
  <2>1. /\ UNCHANGED <<storing, granted, unearned, now, promise, prompts, proved>>
        /\ expiry' = now /\ timer' \in Nat
    BY <1>7 DEF TimerFires, ClearSession, operations, SessionInv, Times
  <2>2. ~InSession' /\ Times'
    BY <2>1 DEF InSession, SessionInv, Times
  <2> QED BY <2>1, <2>2 DEF SessionInv, EarnedInv, TimerInv
<1>8. CASE SetBiometrics
  BY <1>2, <1>8 DEF SetBiometrics
<1>9. CASE UNCHANGED vars
  BY <1>2, <1>9 DEF vars, protection
<1> QED BY <1>3, <1>4, <1>5, <1>6, <1>7, <1>8, <1>9, ValidationSession, LengthSession, ExpirySession
        DEF Next, User, Protection

LEMMA SessionInvariant == Spec => []SessionInv
BY InitSession, NextSession, OpenInvariant, ValuesInvariant, PTL DEF Spec

(***************************************************************************)
(* GrantsAreEarned holds of every behaviour: a protected action is         *)
(* authorized only once its challenge, or that of a session that still     *)
(* lasts, was given a right value for each of its prompts.                 *)
(***************************************************************************)
THEOREM NothingIsUnearned == Spec => []GrantsAreEarned
<1>1. SessionInv => GrantsAreEarned
  BY DEF SessionInv, EarnedInv, GrantsAreEarned
<1> QED BY <1>1, SessionInvariant, PTL

(***************************************************************************)
(* SessionHasTimer holds too: while setSessionLength has not set the timer *)
(* to the end it stored, it is under way.                                  *)
(***************************************************************************)
THEOREM SessionsAreTimed == Spec => []SessionHasTimer
<1>1. SessionInv => SessionHasTimer
  <2> SUFFICES ASSUME SessionInv, InSession
               PROVE  timer = expiry \/ \E k \in DOMAIN storing : storing[k].until > 0
    BY DEF SessionHasTimer
  <2>1. DOMAIN storing = 1 .. Len(storing) /\ expiry > 0
    BY DEF SessionInv, Times, InSession
  <2> QED BY <2>1 DEF SessionInv, TimerInv, LastIs
<1> QED BY <1>1, SessionInvariant, PTL

-------------------------------------------------------------------------------
(***************************************************************************)
(* The service implements Prompts: every step asks, accepts or cancels, or *)
(* changes nothing that was promised.                                      *)
(***************************************************************************)
Accepted(c) == IF promise[c] = "answered" THEN prompts[c] ELSE PromptsOf(valid[c])
accepted == [c \in Challenge |-> Accepted(c)]

\* What is promised, spelt out: the mapping hides the abstract variables.
Asks(c) ==
  /\ promise[c] = "new"
  /\ \E P \in (SUBSET Prompt) \ {{}} : prompts' = [prompts EXCEPT ![c] = P]
  /\ promise' = [promise EXCEPT ![c] = "open"]
  /\ accepted' = accepted

Accepts(c) ==
  /\ promise[c] = "open"
  /\ \E P \in SUBSET prompts[c] : accepted' = [accepted EXCEPT ![c] = @ \union P]
  /\ promise' = [promise EXCEPT ![c] = IF accepted'[c] = prompts[c] THEN "answered" ELSE "open"]
  /\ prompts' = prompts

Cancels(c) ==
  /\ promise[c] = "open"
  /\ promise' = [promise EXCEPT ![c] = "canceled"]
  /\ prompts' = prompts /\ accepted' = accepted

Stutters == prompts' = prompts /\ accepted' = accepted /\ promise' = promise

LEMMA PromisedSteps ==
  /\ \A c \in Challenge : Asks(c) \/ Accepts(c) \/ Cancels(c) => Promised!Next
  /\ Stutters => UNCHANGED Promised!vars
BY DEF Asks, Accepts, Cancels, Stutters, accepted, Accepted, PromptsOf, Promised!Next,
       Promised!Ask, Promised!Accept, Promised!Cancel, Promised!vars

\* What was accepted changes with the promise, the prompts and the valid values only.
LEMMA AcceptedStays ==
  ASSUME NEW c, \A d \in Challenge \ {c} : UNCHANGED <<prompts[d], promise[d], valid[d]>>,
         c \in Challenge => Accepted(c)' = Accepted(c)
  PROVE  accepted' = accepted
<1>1. \A d \in Challenge : Accepted(d)' = Accepted(d)
  BY DEF Accepted
<1> QED BY <1>1 DEF accepted

LEMMA InitPromises == Init => Promised!Init
<1> SUFFICES ASSUME Init PROVE Promised!Init
  OBVIOUS
<1>1. \A c \in Challenge : Accepted(c) = {}
  BY DEF Init, Accepted, PromptsOf
<1> QED BY <1>1 DEF Init, Promised!Init, Accepted, PromptsOf

LEMMA PresentAsks ==
  ASSUME OpenInv, ValuesInv, NEW c \in Challenge, Ask(c)
  PROVE  Asks(c)
<1>1. PICK P \in (SUBSET Prompt) \ {{}} : Present(c, P)
  BY DEF Ask, ReauthenticateInvalidSession, RepairMissingKeychain, ValidateOrRenewSession, Prompt
<1>2. /\ UNCHANGED valid /\ promise[c] = "new"
      /\ prompts' = [prompts EXCEPT ![c] = P] /\ promise' = [promise EXCEPT ![c] = "open"]
  BY <1>1 DEF Present, Ask, ReauthenticateInvalidSession, RepairMissingKeychain,
              ValidateOrRenewSession
<1>3. accepted' = accepted
  <2>1. \A d \in Challenge \ {c} : UNCHANGED <<prompts[d], promise[d], valid[d]>>
    BY <1>2 DEF ValuesInv, OpenInv
  <2>2. Accepted(c)' = Accepted(c)
    BY <1>2 DEF Accepted, OpenInv
  <2> QED BY <2>1, <2>2, AcceptedStays
<1> QED BY <1>2, <1>3 DEF Asks

\* The values of c become those of P in addition; with all that is asked it is answered.
LEMMA Acceptance ==
  ASSUME OpenInv, ValuesInv, NEW c \in Challenge, promise[c] = "open", UNCHANGED prompts,
         NEW P \in SUBSET prompts[c],
         \A d \in Challenge \ {c} : valid'[d] = valid[d],
         Accepted(c)' = Accepted(c) \union P,
         promise' = [promise EXCEPT ![c] = IF Accepted(c)' = prompts[c] THEN "answered" ELSE "open"]
  PROVE  Accepts(c)
<1>1. \A d \in Challenge \ {c} : Accepted(d)' = Accepted(d)
  BY DEF Accepted, OpenInv
<1>2. accepted' = [accepted EXCEPT ![c] = @ \union P]
  BY <1>1 DEF accepted
<1>3. accepted'[c] = Accepted(c)'
  BY DEF accepted
<1> QED BY <1>2, <1>3 DEF Accepts

LEMMA SubmissionAccepts ==
  ASSUME OpenInv, ValuesInv, NEW c \in Challenge, SubmitValuesForChallenge(c)
  PROVE  Accepts(c) \/ Stutters
<1>1. /\ UNCHANGED <<prompts, valid>>
      /\ \/ UNCHANGED promise
         \/ promise' = [promise EXCEPT ![c] = IF @ = "open" THEN "answered" ELSE @]
  BY DEF SubmitValuesForChallenge, Settle
<1>2. CASE UNCHANGED promise
  BY <1>1, <1>2 DEF Stutters, accepted, Accepted, PromptsOf
<1>3. CASE promise[c] # "open" /\ ~UNCHANGED promise
  BY <1>1, <1>3 DEF OpenInv
<1>4. CASE promise[c] = "open" /\ ~UNCHANGED promise
  <2>1. promise'[c] = "answered"
    BY <1>1, <1>4 DEF OpenInv
  <2>2. Accepted(c) \subseteq prompts[c]
    BY <1>4 DEF Accepted, PromptsOf, ValuesInv, Taken
  <2>3. Accepted(c)' = prompts[c] /\ Accepted(c)' = Accepted(c) \union prompts[c]
    BY <1>1, <2>1, <2>2 DEF Accepted
  <2> QED BY <1>1, <1>4, <2>3, Acceptance
<1> QED BY <1>2, <1>3, <1>4

LEMMA ValidationAccepts ==
  ASSUME OpenInv, ValuesInv, NEW i \in Slot, SetValidationStatus(i)
  PROVE  Stutters \/ \E c \in Challenge : Accepts(c)
<1>1. PICK c \in Challenge, values \in SUBSET Value : ValidationStep(i, c, values)
  BY ValidationSteps
<1>2. PICK P \in SUBSET prompts[c] : PromptsOf(values) = PromptsOf(valid[c]) \union P
  BY <1>1 DEF ValidationStep
<1>3. UNCHANGED prompts
  BY DEF SetValidationStatus
<1>4. CASE UNCHANGED <<promise, valid>>
  BY <1>3, <1>4 DEF Stutters, accepted, Accepted, PromptsOf
<1>5. CASE /\ promise[c] = "open" /\ valid' = [valid EXCEPT ![c] = values]
           /\ \/ /\ PromptsOf(values) = prompts[c]
                 /\ promise' = [promise EXCEPT ![c] = "answered"]
              \/ /\ PromptsOf(values) # prompts[c]
                 /\ UNCHANGED promise
  <2>1. valid'[c] = values /\ \A d \in Challenge \ {c} : valid'[d] = valid[d]
    BY <1>5 DEF ValuesInv
  <2>2. Accepted(c)' = PromptsOf(values)
    BY <1>3, <1>5, <2>1 DEF Accepted, OpenInv, PromptsOf
  <2>3. Accepted(c) = PromptsOf(valid[c])
    BY <1>5 DEF Accepted
  <2>4. promise' = [promise EXCEPT ![c] = IF Accepted(c)' = prompts[c] THEN "answered" ELSE "open"]
    BY <1>5, <2>2 DEF OpenInv
  <2> HIDE DEF Accepted
  <2> QED BY <1>2, <1>3, <1>5, <2>1, <2>2, <2>3, <2>4, Acceptance
<1> QED BY <1>1, <1>4, <1>5 DEF ValidationStep, Drops, Finishes, GoesOn

LEMMA CancelCancels ==
  ASSUME OpenInv, ValuesInv, NEW c \in Challenge, CancelChallenge(c)
  PROVE  Cancels(c) \/ Stutters
<1>1. /\ UNCHANGED <<prompts, valid>>
      /\ promise' = [promise EXCEPT ![c] = IF @ = "open" THEN "canceled" ELSE @]
  BY DEF CancelChallenge, Settle
<1>2. accepted' = accepted
  <2>1. \A d \in Challenge \ {c} : UNCHANGED <<prompts[d], promise[d], valid[d]>>
    BY <1>1 DEF OpenInv
  <2>2. Accepted(c)' = Accepted(c)
    BY <1>1 DEF Accepted, OpenInv, PromptsOf
  <2> QED BY <2>1, <2>2, AcceptedStays
<1> QED BY <1>1, <1>2 DEF Cancels, Stutters, OpenInv

LEMMA NextPromises ==
  ASSUME OpenInv, ValuesInv, [Next]_vars
  PROVE  [Promised!Next]_Promised!vars
<1>1. ASSUME UNCHANGED <<prompts, valid, promise>> PROVE Stutters
  BY <1>1 DEF Stutters, accepted, Accepted, PromptsOf
<1>2. CASE \E i \in Slot, success \in BOOLEAN : TriedOut(i, success)
  BY <1>1, <1>2, PromisedSteps DEF TriedOut
<1>3. CASE Authorize \/ Protection \/ Tick
  <2>1. UNCHANGED <<prompts, valid, promise>>
    BY <1>3 DEF Authorize, Protection, Tick, LengthStored, ExpiryStored, TimerFires,
                ClearSession, SetBiometrics, operations
  <2> QED BY <1>1, <2>1, PromisedSteps
<1>4. CASE UNCHANGED vars
  BY <1>1, <1>4, PromisedSteps DEF vars, operations
<1>5. CASE \E c \in Challenge : Ask(c) \/ User(c)
  BY <1>5, PresentAsks, SubmissionAccepts, CancelCancels, PromisedSteps DEF User
<1>6. CASE \E i \in Slot : SetValidationStatus(i)
  BY <1>6, ValidationAccepts, PromisedSteps
<1> QED BY <1>2, <1>3, <1>4, <1>5, <1>6 DEF Next

(***************************************************************************)
(* ImplementsPrompts holds of every behaviour: promptForChallengeResponse  *)
(* resolves once, for good, and with an answer only when every prompt of   *)
(* the challenge was given a value that was taken.                         *)
(***************************************************************************)
THEOREM PromptsAreImplemented == Spec => ImplementsPrompts
<1>1. OpenInv /\ ValuesInv /\ [Next]_vars => [Promised!Next]_Promised!vars
  BY NextPromises
<1> QED BY <1>1, InitPromises, OpenInvariant, ValuesInvariant, PTL
        DEF Spec, ImplementsPrompts, Promised!Spec
===============================================================================
