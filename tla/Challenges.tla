------------------------------ MODULE Challenges ------------------------------
(****************************************************************************)
(* The challenge service and those who ask through it: the protection       *)
(* service (codes that the service validates), the renewal of a session and *)
(* the migrations (answers that the one who asks tries out).                *)
(*                                                                          *)
(* Validating a value, signing in and writing to storage are awaited; the   *)
(* user goes on submitting and canceling.  Writes complete in order.        *)
(****************************************************************************)
EXTENDS Naturals, Sequences, FiniteSets, SequencesExt

CONSTANTS
  Protect,  \* challenges of validateOrRenewSession
  Renew,    \* challenges of reauthenticateInvalidSession
  Migrate,  \* challenges of repairMissingKeychain and promptForPasscodeUntilCorrect
  Lengths,  \* the lengths of a protection session: ProtectionSessionLengthSeconds
  Slot,     \* bound: submissions being handled at once
  MaxChallenges,  \* bound: challenges presented
  MaxSubmissions, \* bound: submissions
  MaxTime,  \* bound: the clock
  MaxToggles \* bound: enabling and disabling biometrics, ending the session

Challenge == Protect \union Renew \union Migrate
Prompt == {"Biometric", "LocalPasscode", "Duration", "Email", "Password"}
Value == [prompt : Prompt, right : BOOLEAN, length : Lengths]

ASSUME OwnersAssumption ==
  /\ Protect \intersect Renew = {} /\ Migrate \intersect (Protect \union Renew) = {}
ASSUME LengthsAssumption == Lengths \subseteq Nat /\ 0 \in Lengths
ASSUME BoundAssumption == {MaxChallenges, MaxSubmissions, MaxTime, MaxToggles} \subseteq Nat

VARIABLES
  prompts,    \* what each challenge asks for; nothing before it is presented
  open,       \* challengeOperations: the challenges that have an operation
  valid,      \* validValues of their operations
  promise,    \* what promptForChallengeResponse returned
  work,       \* submissions being handled: values to validate, or a sign-in
  presented,  \* isSessionRenewChallengePresented
  now,        \* the clock
  expiry,     \* ProtectionExpirey
  timer,      \* sessionExpiryTimeout: when it fires, 0 if none is set
  storing,    \* writes of setSessionLength that are awaited
  biometrics, \* hasBiometricsEnabled
  proved,     \* history: prompts a right value was submitted for
  granted,    \* history: sessions that a proved challenge paid for, by their end
  unearned,   \* history: an action was authorized without proof
  left        \* what remains of the bounds

operations == <<prompts, open, valid, promise, work, presented>>
protection == <<expiry, timer, storing, biometrics, granted, unearned>>
vars == <<operations, protection, now, proved, left>>

Free == [challenge |-> "none", rest |-> <<>>]

TypeOK ==
  /\ prompts \in [Challenge -> SUBSET Prompt]
  /\ open \subseteq Challenge
  /\ valid \in [Challenge -> SUBSET Value]
  /\ promise \in [Challenge -> {"new", "open", "answered", "canceled"}]
  /\ \A s \in Slot : work[s] = Free \/ work[s] \in [challenge : Challenge, rest : Seq(Value)]
  /\ presented \in BOOLEAN /\ biometrics \in BOOLEAN /\ unearned \in BOOLEAN
  /\ now \in 1..MaxTime /\ expiry \in Nat /\ timer \in Nat
  /\ storing \in Seq([challenge : Challenge, until : Nat, length : Lengths])
  /\ proved \in [Challenge -> SUBSET Prompt] /\ granted \in Nat
  /\ left \in [{"challenges", "submissions", "toggles"} -> Nat]

Init ==
  /\ prompts = [c \in Challenge |-> {}]
  /\ open = {} /\ valid = [c \in Challenge |-> {}]
  /\ promise = [c \in Challenge |-> "new"]
  /\ work = [s \in Slot |-> Free]
  /\ presented = FALSE
  /\ now = 1 /\ expiry = 0 /\ timer = 0 /\ storing = <<>>
  /\ biometrics \in BOOLEAN
  /\ proved = [c \in Challenge |-> {}] /\ granted = 0 /\ unearned = FALSE
  /\ left = [challenges |-> MaxChallenges, submissions |-> MaxSubmissions, toggles |-> MaxToggles]

Spend(kind) == left[kind] > 0 /\ left' = [left EXCEPT ![kind] = @ - 1]

-------------------------------------------------------------------------------
(***************************************************************************)
(* Operations.                                                             *)
(***************************************************************************)

\* promptForChallengeResponse
Present(c, P) ==
  /\ promise[c] = "new"
  /\ Spend("challenges")
  /\ prompts' = [prompts EXCEPT ![c] = P]
  /\ open' = open \union {c}
  /\ promise' = [promise EXCEPT ![c] = "open"]

\* Variant with a bug: the last one to resolve a promise decides.
SettleAgain(c, outcome) == promise' = [promise EXCEPT ![c] = outcome]
\* A promise that is resolved stays as it is.
Settle(c, outcome) ==
  promise' = [promise EXCEPT ![c] = IF @ = "open" THEN outcome ELSE @]

\* Variant with a bug: whose challenge it was is not looked at.
EndOfAny(c) == presented' = FALSE
\* What the observers of c hear when it is completed or canceled.
OnEnd(c) == presented' = (presented /\ c \notin Renew)

\* Variant with a bug: a prompt's earlier value is not removed.
AddValue(values, v) == values \union {v}
\* setValueStatus: the newest valid value of each prompt.
Replace(values, v) == {w \in values : w.prompt # v.prompt} \union {v}

IsFinished(c, values) == Cardinality(values) = Cardinality(prompts[c])

\* deleteChallengeOperation
DeleteOperation(c) == open' = open \ {c}

Validates(c) == c \in Protect

\* The user fills in some prompts, or all of those that are tried out together.
ValuesFor(p) ==
  IF p = "Duration" THEN [prompt : {p}, right : {TRUE}, length : Lengths]
  ELSE [prompt : {p}, right : BOOLEAN, length : {0}]

Submissions(c) ==
  {s \in UNION {[P -> UNION {ValuesFor(p) : p \in prompts[c]}] : P \in (SUBSET prompts[c]) \ {{}}} :
     \A p \in DOMAIN s : s[p].prompt = p}

InOrder(s) == SetToSeq({s[p] : p \in DOMAIN s})

SubmitValuesForChallenge(c) ==
  /\ c \in open
  /\ Spend("submissions")
  /\ \E i \in Slot, s \in Submissions(c) :
       /\ work[i] = Free
       /\ ~Validates(c) => DOMAIN s = prompts[c]
       /\ work' = [work EXCEPT ![i] = [challenge |-> c, rest |-> InOrder(s)]]
       /\ proved' = [proved EXCEPT ![c] = @ \union {p \in DOMAIN s : s[p].right}]
  /\ IF Validates(c) THEN UNCHANGED promise ELSE Settle(c, "answered")
  /\ UNCHANGED <<prompts, open, valid, presented, protection, now>>

\* Variant with a bug: nobody is told.
DropChallenge(c) ==
  /\ c \in open
  /\ c \notin Migrate
  /\ OnEnd(c)
  /\ DeleteOperation(c)
  /\ UNCHANGED <<prompts, valid, promise, work, protection, now, proved, left>>
CancelChallenge(c) ==
  /\ c \in open
  /\ c \notin Migrate
  /\ Settle(c, "canceled")
  /\ OnEnd(c)
  /\ DeleteOperation(c)
  /\ UNCHANGED <<prompts, valid, work, protection, now, proved, left>>

-------------------------------------------------------------------------------
(*****************************************************************************)
(* validateChallengeValue returned for the next value of a submission.  With *)
(* the operation gone reading it throws, and the rest is dropped.            *)
(*****************************************************************************)
LengthOf(values) ==
  LET durations == {v.length : v \in {w \in values : w.prompt = "Duration"}}
  IN IF durations = {} THEN 0 ELSE CHOOSE l \in durations : TRUE

SetValidationStatus(i) ==
  LET c == work[i].challenge
      v == Head(work[i].rest)
      values == IF v.right THEN Replace(valid[c], v) ELSE valid[c]
      rest == Tail(work[i].rest)
  IN /\ work[i] # Free /\ Validates(c)
     /\ \/ /\ c \notin open
           /\ work' = [work EXCEPT ![i] = Free]
           /\ UNCHANGED <<open, valid, promise, presented, storing>>
        \/ /\ c \in open
           /\ work' = [work EXCEPT ![i] = IF rest = <<>> THEN Free ELSE [@ EXCEPT !.rest = rest]]
           /\ valid' = [valid EXCEPT ![c] = values]
           /\ IF IsFinished(c, values)
              THEN /\ Settle(c, "answered")
                   /\ OnEnd(c)
                   /\ DeleteOperation(c)
                   /\ storing' = Append(storing, [challenge |-> c, until |-> 0,
                                                  length |-> LengthOf(values)])
              ELSE UNCHANGED <<open, promise, presented, storing>>
     /\ UNCHANGED <<prompts, expiry, timer, biometrics, granted, unearned, now, proved, left>>

\* onNonvalidatedSubmit of the renewal and the migrations: the values are tried out.
\* On success the challenge is completed, unless it is gone, which throws.
TriedOut(i, success) ==
  LET c == work[i].challenge
  IN /\ work[i] # Free /\ ~Validates(c)
     /\ success => \A k \in DOMAIN work[i].rest : work[i].rest[k].right
     /\ work' = [work EXCEPT ![i] = Free]
     /\ IF success /\ c \in open
        THEN OnEnd(c) /\ DeleteOperation(c)
        ELSE UNCHANGED <<open, presented>>
     /\ UNCHANGED <<prompts, valid, promise, protection, now, proved, left>>

-------------------------------------------------------------------------------
(***************************************************************************)
(* Those who ask.                                                          *)
(***************************************************************************)
ReauthenticateInvalidSession(c) ==
  /\ c \in Renew
  /\ ~presented
  /\ presented' = TRUE
  /\ Present(c, {"Email", "Password"})
  /\ UNCHANGED <<valid, work, protection, now, proved>>

RepairMissingKeychain(c) ==
  /\ c \in Migrate
  /\ Present(c, {"Password"})
  /\ UNCHANGED <<valid, work, presented, protection, now, proved>>

InSession == expiry > now

\* validateOrRenewSession: authorized at once during a session.
Authorize ==
  /\ InSession
  /\ unearned' = (unearned \/ granted <= now)
  /\ UNCHANGED <<operations, expiry, timer, storing, biometrics, granted, now, proved, left>>

ValidateOrRenewSession(c) ==
  /\ c \in Protect
  /\ ~InSession
  /\ Present(c, {"LocalPasscode", "Duration"} \union (IF biometrics THEN {"Biometric"} ELSE {}))
  /\ UNCHANGED <<valid, work, presented, protection, now, proved>>

\* Variant with a bug: a timer that is set is kept.
SetTimerOnce(until) == timer' = IF until > now /\ timer = 0 THEN until ELSE timer
\* updateSessionExpiryTimer
UpdateSessionExpiryTimer(until) == timer' = IF until > now THEN until ELSE timer

\* setSessionLength: the length is stored, then the end of the session, then the timer
\* is set and the action authorized.
LengthStored ==
  /\ storing # <<>>
  /\ LET w == Head(storing)
         until == now + w.length
     IN /\ w.until = 0
        /\ expiry' = until
        /\ storing' = Append(Tail(storing), [w EXCEPT !.until = until])
        /\ granted' = IF prompts[w.challenge] \subseteq proved[w.challenge] /\ until > granted
                      THEN until ELSE granted
        /\ unearned' = (unearned \/ ~(prompts[w.challenge] \subseteq proved[w.challenge]))
  /\ UNCHANGED <<operations, timer, biometrics, now, proved, left>>

ExpiryStored ==
  /\ storing # <<>>
  /\ Head(storing).until > 0
  /\ UpdateSessionExpiryTimer(Head(storing).until)
  /\ storing' = Tail(storing)
  /\ UNCHANGED <<operations, expiry, biometrics, granted, unearned, now, proved, left>>

TimerFires ==
  /\ 0 < timer /\ timer <= now
  /\ timer' = 0 /\ expiry' = now
  /\ UNCHANGED <<operations, storing, biometrics, granted, unearned, now, proved, left>>

ClearSession ==
  /\ Spend("toggles")
  /\ expiry' = now
  /\ UNCHANGED <<operations, timer, storing, biometrics, granted, unearned, now, proved>>

\* Disabling takes an authorization of its own, which a session gives.
SetBiometrics ==
  /\ Spend("toggles")
  /\ biometrics => InSession
  /\ biometrics' = ~biometrics
  /\ UNCHANGED <<operations, expiry, timer, storing, granted, unearned, now, proved>>

Tick ==
  /\ now < MaxTime
  /\ now' = now + 1
  /\ UNCHANGED <<operations, protection, proved, left>>

-------------------------------------------------------------------------------
User(c) == SubmitValuesForChallenge(c) \/ CancelChallenge(c)
Ask(c) ==
  \/ ReauthenticateInvalidSession(c) \/ RepairMissingKeychain(c)
  \/ ValidateOrRenewSession(c)
Protection == LengthStored \/ ExpiryStored \/ TimerFires \/ ClearSession \/ SetBiometrics

Next ==
  \/ \E c \in Challenge : Ask(c) \/ User(c)
  \/ \E i \in Slot : SetValidationStatus(i) \/ \E success \in BOOLEAN : TriedOut(i, success)
  \/ Authorize \/ Protection \/ Tick

Spec == Init /\ [][Next]_vars

-------------------------------------------------------------------------------
(****************************************************************************)
(* A protected action is authorized only if the user gave a right value for *)
(* everything its challenge asked for, or did so for another one and the    *)
(* length chosen then is not over: whatever was submitted twice, wrongly    *)
(* first, in parts, or to several challenges at once.                       *)
(****************************************************************************)
GrantsAreEarned == ~unearned

(***************************************************************************)
(* Whoever waits for an answer can still get one: "resolves when the       *)
(* challenge has been completed", so as long as it has not, there is an    *)
(* operation to submit values to.                                          *)
(***************************************************************************)
WaitingIsOpen == \A c \in Challenge : promise[c] = "open" => c \in open

(*****************************************************************************)
(* The session manager believes a renewal is presented exactly while one is: *)
(* otherwise an invalid session would never be renewed again, or two would   *)
(* be asked for at once.                                                     *)
(*****************************************************************************)
PresentedIsOpen == presented <=> Renew \intersect open # {}

(*****************************************************************************)
(* A protection session is always ended by a timer set to its end, so that   *)
(* what is on the screen is hidden again, however lengths follow each other. *)
(*****************************************************************************)
SessionHasTimer ==
  InSession => timer = expiry \/ \E k \in DOMAIN storing : storing[k].until > 0

(***************************************************************************)
(* The challenge service keeps the promise of Prompts: each challenge gets *)
(* one outcome, and is answered only when everything it asks was accepted. *)
(***************************************************************************)
Promised ==
  INSTANCE Prompts
    WITH required <- prompts, outcome <- promise,
         accepted <- [c \in Challenge |->
                        IF promise[c] = "answered" THEN prompts[c]
                        ELSE {v.prompt : v \in valid[c]}]

ImplementsPrompts == Promised!Spec
===============================================================================
