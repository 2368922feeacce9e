---------------------------- MODULE SessionsProofs ----------------------------
(***************************************************************************)
(* That one refresh and one sign-in are under way at a time, and that the  *)
(* client keeps its newest session, for any calls and bounds, and whatever *)
(* is lost, expires, ends or restarts.                                     *)
(***************************************************************************)
EXTENDS Sessions, FiniteSetTheorems, TLAPS

RefreshPCs == {"refreshing", "storing"}
SignInPCs == {"signing"}

Record == [pc : PC, kind : {"request", "change", "signin"}, token : Token,
           reply : Reply, asked : BOOLEAN]

\* What TypeOK says of the variables that tokens pass through.
Typed ==
  /\ calls \in [Call -> Record]
  /\ session \in Token /\ disk \in Token /\ created \in Sid
  /\ refreshing \in BOOLEAN /\ authenticating \in BOOLEAN

\* The flag is set exactly as long as one call is at one of pcs.
FlagOf(flag, pcs) ==
  /\ flag => \E k \in Call : At(pcs) = {k}
  /\ ~flag => At(pcs) = {}

OneInv ==
  /\ Typed
  /\ FlagOf(refreshing, RefreshPCs)
  /\ FlagOf(authenticating, SignInPCs)

\* What the step of a call does to a flag: nothing, sets it, or resets it.
Follows(flag, flagNext, before, after) ==
  \/ flagNext = flag /\ (before <=> after)
  \/ ~flag /\ flagNext /\ after
  \/ before /\ ~flagNext /\ ~after

\* Of a call whose step it is: no other call moves, and both flags follow.
StepOf(k) ==
  /\ \A j \in Call \ {k} : calls'[j].pc = calls[j].pc
  /\ Follows(refreshing, refreshing', calls[k].pc \in RefreshPCs, calls'[k].pc \in RefreshPCs)
  /\ Follows(authenticating, authenticating', calls[k].pc \in SignInPCs, calls'[k].pc \in SignInPCs)

LEMMA StepKeeps ==
  ASSUME OneInv, Typed', NEW k \in Call, StepOf(k)
  PROVE  OneInv'
<1>1. FlagOf(refreshing, RefreshPCs)'
  <2>1. \A j \in Call \ {k} : j \in At(RefreshPCs)' <=> j \in At(RefreshPCs)
    BY DEF StepOf, At
  <2>2. /\ k \in At(RefreshPCs)' <=> calls'[k].pc \in RefreshPCs
        /\ k \in At(RefreshPCs) <=> calls[k].pc \in RefreshPCs
        /\ At(RefreshPCs) \subseteq Call /\ At(RefreshPCs)' \subseteq Call
    BY DEF At
  <2>3. CASE refreshing' = refreshing /\ (calls[k].pc \in RefreshPCs <=> calls'[k].pc \in RefreshPCs)
    <3>1. At(RefreshPCs)' = At(RefreshPCs)
      BY <2>1, <2>2, <2>3
    <3> QED BY <2>3, <3>1 DEF OneInv, FlagOf
  <2>4. CASE ~refreshing /\ refreshing' /\ calls'[k].pc \in RefreshPCs
    <3>1. At(RefreshPCs)' = {k}
      BY <2>1, <2>2, <2>4 DEF OneInv, FlagOf
    <3> QED BY <2>4, <3>1 DEF FlagOf
  <2>5. CASE calls[k].pc \in RefreshPCs /\ ~refreshing' /\ calls'[k].pc \notin RefreshPCs
    <3>1. At(RefreshPCs) = {k}
      BY <2>2, <2>5 DEF OneInv, FlagOf
    <3>2. At(RefreshPCs)' = {}
      BY <2>1, <2>2, <2>5, <3>1
    <3> QED BY <2>5, <3>2 DEF FlagOf
  <2> QED BY <2>3, <2>4, <2>5 DEF StepOf, Follows
<1>2. FlagOf(authenticating, SignInPCs)'
  <2>1. \A j \in Call \ {k} : j \in At(SignInPCs)' <=> j \in At(SignInPCs)
    BY DEF StepOf, At
  <2>2. /\ k \in At(SignInPCs)' <=> calls'[k].pc \in SignInPCs
        /\ k \in At(SignInPCs) <=> calls[k].pc \in SignInPCs
        /\ At(SignInPCs) \subseteq Call /\ At(SignInPCs)' \subseteq Call
    BY DEF At
  <2>3. CASE authenticating' = authenticating /\ (calls[k].pc \in SignInPCs <=> calls'[k].pc \in SignInPCs)
    <3>1. At(SignInPCs)' = At(SignInPCs)
      BY <2>1, <2>2, <2>3
    <3> QED BY <2>3, <3>1 DEF OneInv, FlagOf
  <2>4. CASE ~authenticating /\ authenticating' /\ calls'[k].pc \in SignInPCs
    <3>1. At(SignInPCs)' = {k}
      BY <2>1, <2>2, <2>4 DEF OneInv, FlagOf
    <3> QED BY <2>4, <3>1 DEF FlagOf
  <2>5. CASE calls[k].pc \in SignInPCs /\ ~authenticating' /\ calls'[k].pc \notin SignInPCs
    <3>1. At(SignInPCs) = {k}
      BY <2>2, <2>5 DEF OneInv, FlagOf
    <3>2. At(SignInPCs)' = {}
      BY <2>1, <2>2, <2>5, <3>1
    <3> QED BY <2>5, <3>2 DEF FlagOf
  <2> QED BY <2>3, <2>4, <2>5 DEF StepOf, Follows
<1> QED BY <1>1, <1>2 DEF OneInv, StepOf

\* A step that moves no call.
LEMMA NobodyMoves ==
  ASSUME OneInv, Typed', \A j \in Call : calls'[j].pc = calls[j].pc,
         UNCHANGED <<refreshing, authenticating>>
  PROVE  OneInv'
<1>1. At(RefreshPCs)' = At(RefreshPCs) /\ At(SignInPCs)' = At(SignInPCs)
  BY DEF At
<1> QED BY <1>1 DEF OneInv, FlagOf

LEMMA IdleTyped == Idle \in Record /\ Idle.pc = "idle"
BY BoundAssumption DEF Record, Idle, First, PC, Reply, Token, Sid

LEMMA InitOne == Init => OneInv
<1> SUFFICES ASSUME Init PROVE OneInv
  OBVIOUS
<1>1. Typed
  <2>1. First \in Token /\ 1 \in Sid
    BY BoundAssumption DEF First, Token, Sid
  <2> QED BY <2>1, IdleTyped DEF Init, Typed
<1>2. At(RefreshPCs) = {} /\ At(SignInPCs) = {}
  BY IdleTyped DEF Init, At, RefreshPCs, SignInPCs
<1> QED BY <1>1, <1>2 DEF Init, OneInv, FlagOf

\* The ways in which an action moves call k to pc: it goes on, or starts, or is over.
Moves(k, pc) ==
  /\ calls' \in [Call -> Record]
  /\ calls'[k].pc = pc
  /\ \A j \in Call \ {k} : calls'[j].pc = calls[j].pc

LEMMA Going ==
  ASSUME Typed, NEW k \in Call, NEW pc \in PC, NEW reply \in Reply, NEW token \in Token
  PROVE  /\ calls' = [calls EXCEPT ![k].pc = pc, ![k].reply = reply] => Moves(k, pc)
         /\ calls' = [calls EXCEPT ![k].pc = pc, ![k].reply = reply, ![k].token = token]
              => Moves(k, pc)
<1>1. ASSUME calls' = [calls EXCEPT ![k].pc = pc, ![k].reply = reply] PROVE Moves(k, pc)
  BY <1>1 DEF Typed, Record, Moves
<1>2. ASSUME calls' = [calls EXCEPT ![k].pc = pc, ![k].reply = reply, ![k].token = token]
      PROVE  Moves(k, pc)
  BY ZenonT(30), <1>2 DEF Typed, Record, Moves
<1> QED BY <1>1, <1>2

LEMMA Answering ==
  ASSUME Typed, NEW k \in Call, NEW reply \in Reply, NEW token \in Token
  PROVE  /\ calls' = [calls EXCEPT ![k].reply = reply] => Moves(k, calls[k].pc)
         /\ calls' = [calls EXCEPT ![k].reply = reply, ![k].token = token]
              => Moves(k, calls[k].pc)
<1>1. ASSUME calls' = [calls EXCEPT ![k].reply = reply] PROVE Moves(k, calls[k].pc)
  BY <1>1 DEF Typed, Record, Moves
<1>2. ASSUME calls' = [calls EXCEPT ![k].reply = reply, ![k].token = token]
      PROVE  Moves(k, calls[k].pc)
  BY <1>2 DEF Typed, Record, Moves
<1> QED BY <1>1, <1>2

LEMMA Replacing ==
  ASSUME Typed, NEW k \in Call, NEW r \in Record, calls' = [calls EXCEPT ![k] = r]
  PROVE  Moves(k, r.pc)
BY DEF Typed, Moves

LEMMA StartsKeep ==
  ASSUME OneInv, NEW k \in Call, Starts(k) PROVE OneInv'
<1> USE DEF OneInv
<1>1. calls[k] = Idle
  BY DEF Starts, Request, ChangePassword, SubmitCredentials, Begin
<1>2. UNCHANGED <<refreshing, authenticating, session, disk, created>>
  BY DEF Starts, Request, ChangePassword, SubmitCredentials, Begin, flags, client
<1>3. \E r \in Record : r.pc \in {"sent", "params"} /\ calls' = [calls EXCEPT ![k] = r]
  <2>1. CASE \E kind \in Kinds :
               calls' = [calls EXCEPT ![k] = [Idle EXCEPT !.pc = "sent", !.kind = kind,
                                                          !.token = session]]
    <3>1. PICK kind \in Kinds :
            calls' = [calls EXCEPT ![k] = [Idle EXCEPT !.pc = "sent", !.kind = kind,
                                                       !.token = session]]
      BY <2>1
    <3>2. LET r == [Idle EXCEPT !.pc = "sent", !.kind = kind, !.token = session]
          IN  r \in Record /\ r.pc = "sent"
      BY IdleTyped, KindAssumption DEF Typed, Record, PC
    <3> QED BY <3>1, <3>2
  <2>2. CASE calls' = [calls EXCEPT ![k] = [Idle EXCEPT !.pc = "params", !.kind = "signin",
                                                        !.asked = TRUE]]
    <3>1. LET r == [Idle EXCEPT !.pc = "params", !.kind = "signin", !.asked = TRUE]
          IN  r \in Record /\ r.pc = "params"
      BY IdleTyped DEF Record, PC
    <3> QED BY <2>2, <3>1
  <2> QED BY <2>1, <2>2 DEF Starts, Request, ChangePassword, SubmitCredentials, Begin
<1>4. Moves(k, "sent") \/ Moves(k, "params")
  BY <1>3, Replacing
<1>5. Typed'
  BY <1>2, <1>4 DEF Typed, Moves
<1> QED BY <1>1, <1>2, <1>4, <1>5, IdleTyped, StepKeeps
           DEF StepOf, Follows, RefreshPCs, SignInPCs, Moves

LEMMA NetworkKeeps ==
  ASSUME OneInv, NEW k \in Call, Serve(k) \/ Lose(k) PROVE OneInv'
<1> USE DEF OneInv
<1>1. UNCHANGED <<refreshing, authenticating, session, disk>>
  BY DEF Serve, Lose, flags, client
<1>2. created' \in Sid
  <2>1. created' = created \/ (created < MaxSessions /\ created' = created + 1)
    BY DEF Serve, Awaited, Lose
  <2> QED BY <2>1, BoundAssumption DEF Typed, Sid
<1>3. \/ \E reply \in Reply : calls' = [calls EXCEPT ![k].reply = reply]
      \/ \E reply \in Reply, token \in Token :
            calls' = [calls EXCEPT ![k].reply = reply, ![k].token = token]
  <2>1. CASE Serve(k) /\ calls[k].pc = "signing" /\ created < MaxSessions
    <3>1. [sid |-> created + 1, gen |-> 0] \in Token
      BY <2>1, BoundAssumption DEF Typed, Sid, Token
    <3> QED BY <2>1, <3>1 DEF Serve, Reply, Typed
  <2>2. CASE Serve(k) /\ ~(calls[k].pc = "signing" /\ created < MaxSessions)
    <3>1. Accepts(calls[k].token) \in Reply
      BY DEF Accepts, Reply
    <3>2. {"ok", "invalid", "revoked"} \subseteq Reply
      BY DEF Reply
    <3>3. CASE calls[k].pc \in {"sent", "retrying"}
      BY <2>2, <3>1, <3>3 DEF Serve
    <3>4. CASE calls[k].pc = "refreshing"
      BY <2>2, <3>2, <3>4 DEF Serve
    <3>5. CASE calls[k].pc = "params"
      BY <2>2, <3>2, <3>5 DEF Serve
    <3>6. CASE calls[k].pc = "signing"
      BY <2>2, <3>2, <3>6 DEF Serve
    <3> QED BY <2>2, <3>3, <3>4, <3>5, <3>6 DEF Serve, Awaited
  <2>3. CASE Lose(k)
    BY <2>3 DEF Lose, Reply, Typed
  <2> QED BY <2>1, <2>2, <2>3
<1>4. Moves(k, calls[k].pc)
  <2>1. calls[k].token \in Token
    BY DEF Typed, Record
  <2> QED BY <1>3, <2>1, Answering
<1> QED BY <1>1, <1>2, <1>4, NobodyMoves DEF Moves, Typed

LEMMA StepsKeep ==
  ASSUME OneInv, NEW k \in Call, Steps(k) PROVE OneInv'
<1> USE DEF RefreshPCs, SignInPCs
<1>1. Typed
  BY DEF OneInv
<1>2. /\ calls' = [calls EXCEPT ![k] = Idle] => Moves(k, "idle")
      /\ {"sent", "refreshing", "storing", "retrying", "params", "signing",
           "rootkey", "user", "session", "idle"} \subseteq PC
      /\ "none" \in Reply
  BY <1>1, IdleTyped, Replacing DEF PC, Reply
<1>3. calls[k].token \in Token /\ [calls[k].token EXCEPT !.gen = @ + 1] \in Token
  BY <1>1 DEF Typed, Record, Token
<1>4. created' \in Sid /\ session' \in Token /\ disk' \in Token
  <2>1. /\ UNCHANGED created
        /\ \/ session' = session \/ session' = calls[k].token
           \/ session' = [calls[k].token EXCEPT !.gen = @ + 1]
        /\ \/ disk' = disk \/ disk' = calls[k].token
           \/ disk' = [calls[k].token EXCEPT !.gen = @ + 1]
    BY DEF Steps, Receive, Refreshed, NotRefreshed, SessionStored, Retried, ParamsRetrieved,
           SignInAnswered, RootKeyStored, UserStored, NewSessionStored, Observed, SetSession,
           Written, client
  <2> QED BY <1>1, <1>3, <2>1 DEF Typed
<1>5. CASE Receive(k)
  <2>1. /\ calls[k].pc = "sent" /\ UNCHANGED authenticating
        /\ \/ Moves(k, "refreshing") /\ ~refreshing /\ refreshing' = TRUE
           \/ (Moves(k, "idle") \/ Moves(k, "rootkey")) /\ UNCHANGED refreshing
    <3>1. calls[k].pc = "sent" /\ UNCHANGED authenticating
      BY <1>5 DEF Receive, Answered
    <3>2. CASE ~refreshing /\ refreshing' = TRUE /\ Sends(k, "refreshing", session)
      BY <1>1, <1>2, <3>1, <3>2, Going DEF Typed, Sends
    <3>3. CASE UNCHANGED refreshing /\ (Over(k) \/ Goto(k, "rootkey"))
      <4>1. calls[k].token \in Token
        BY <1>3
      <4> QED BY <1>1, <1>2, <3>1, <3>3, <4>1, Going DEF Typed, Over, Goto
    <3> QED BY <1>5, <3>1, <3>2, <3>3 DEF Receive, PreprocessingError
  <2> QED BY <1>1, <1>4, <2>1, StepKeeps DEF Typed, StepOf, Follows, Moves
<1>6. CASE Refreshed(k)
  <2>1. /\ calls[k].pc = "refreshing" /\ UNCHANGED <<refreshing, authenticating>>
        /\ Moves(k, "storing")
    BY <1>1, <1>2, <1>6, Going DEF Typed, Refreshed, Answered, Goto, flags
  <2> QED BY <1>1, <1>4, <2>1, StepKeeps DEF Typed, StepOf, Follows, Moves
<1>7. CASE NotRefreshed(k)
  <2>1. /\ calls[k].pc = "refreshing" /\ refreshing' = FALSE /\ UNCHANGED authenticating
        /\ Moves(k, "idle")
    BY <1>1, <1>2, <1>7, Going DEF Typed, NotRefreshed, Answered, Over
  <2> QED BY <1>1, <1>4, <2>1, StepKeeps DEF Typed, StepOf, Follows, Moves
<1>8. CASE SessionStored(k)
  <2>1. /\ calls[k].pc = "storing" /\ refreshing' = FALSE /\ UNCHANGED authenticating
        /\ Moves(k, "retrying")
    BY <1>1, <1>2, <1>8, Going DEF Typed, SessionStored, Sends
  <2> QED BY <1>1, <1>4, <2>1, StepKeeps DEF Typed, StepOf, Follows, Moves
<1>9. CASE Retried(k)
  <2>1. /\ calls[k].pc = "retrying" /\ UNCHANGED <<refreshing, authenticating>>
        /\ Moves(k, "idle") \/ Moves(k, "rootkey")
    BY ZenonT(30), <1>1, <1>2, <1>9, Going DEF Typed, Retried, Answered, Over, Goto
  <2> QED BY <1>1, <1>4, <2>1, StepKeeps DEF Typed, StepOf, Follows, Moves
<1>10. CASE ParamsRetrieved(k)
  <2>1. /\ calls[k].pc = "params" /\ UNCHANGED refreshing
        /\ \/ Moves(k, "signing") /\ ~authenticating /\ authenticating' = TRUE
           \/ Moves(k, "idle") /\ UNCHANGED authenticating
    BY <1>1, <1>2, <1>10, Going DEF Typed, ParamsRetrieved, Answered, Over, Goto
  <2> QED BY <1>1, <1>4, <2>1, StepKeeps DEF Typed, StepOf, Follows, Moves
<1>11. CASE SignInAnswered(k)
  <2>1. /\ calls[k].pc = "signing" /\ authenticating' = FALSE /\ UNCHANGED refreshing
        /\ Moves(k, "idle") \/ Moves(k, "rootkey")
    BY <1>1, <1>2, <1>11, Going DEF Typed, SignInAnswered, Answered, Over, Goto
  <2> QED BY <1>1, <1>4, <2>1, StepKeeps DEF Typed, StepOf, Follows, Moves
<1>12. CASE RootKeyStored(k) \/ UserStored(k)
  <2>1. /\ calls[k].pc \in {"rootkey", "user"} /\ UNCHANGED <<refreshing, authenticating>>
        /\ Moves(k, "user") \/ Moves(k, "session") \/ Moves(k, "idle")
    BY <1>1, <1>2, <1>12, Going DEF Typed, RootKeyStored, UserStored, Over, Goto, flags
  <2> QED BY <1>1, <1>4, <2>1, StepKeeps DEF Typed, StepOf, Follows, Moves
<1>13. CASE NewSessionStored(k)
  <2>1. /\ calls[k].pc = "session" /\ UNCHANGED <<refreshing, authenticating>>
        /\ calls' = [j \in Call |-> IF j = k THEN Idle
                            ELSE IF calls[k].asked THEN [calls[j] EXCEPT !.asked = FALSE]
                            ELSE calls[j]]
    BY <1>13 DEF NewSessionStored, flags
  <2>2. Moves(k, "idle")
    BY <1>1, <2>1, IdleTyped DEF Typed, Record, Moves
  <2> QED BY <1>1, <1>4, <2>1, <2>2, StepKeeps DEF Typed, StepOf, Follows, Moves
<1> QED BY <1>5, <1>6, <1>7, <1>8, <1>9, <1>10, <1>11, <1>12, <1>13 DEF Steps

LEMMA NextOne == OneInv /\ [Next]_vars => OneInv'
<1> SUFFICES ASSUME OneInv, [Next]_vars PROVE OneInv'
  OBVIOUS
<1>1. ASSUME UNCHANGED <<calls, refreshing, authenticating, session, disk, created>> PROVE OneInv'
  BY <1>1, NobodyMoves DEF OneInv, Typed
<1>2. CASE Restart
  <2>1. /\ calls' = [k \in Call |-> Idle]
        /\ refreshing' = FALSE /\ authenticating' = FALSE
        /\ session' = disk /\ UNCHANGED <<disk, created>>
    BY <1>2 DEF Restart
  <2>2. Typed'
    BY <2>1, IdleTyped DEF OneInv, Typed
  <2>3. At(RefreshPCs)' = {} /\ At(SignInPCs)' = {}
    BY <2>1, IdleTyped DEF At, RefreshPCs, SignInPCs
  <2> QED BY <2>1, <2>2, <2>3 DEF OneInv, FlagOf
<1>3. CASE CancelRenewal
  <2>1. /\ calls' = [k \in Call |-> [calls[k] EXCEPT !.asked = FALSE]]
        /\ UNCHANGED <<refreshing, authenticating, session, disk, created>>
    BY <1>3 DEF CancelRenewal, flags
  <2>2. Typed' /\ \A j \in Call : calls'[j].pc = calls[j].pc
    BY <2>1 DEF OneInv, Typed, Record
  <2> QED BY <2>1, <2>2, NobodyMoves
<1>4. ASSUME NEW s \in Sid, Expire(s) \/ \E status \in {"over", "revoked"} : End(s, status)
      PROVE  OneInv'
  BY <1>1, <1>4 DEF Expire, End, flags, client
<1>5. CASE UNCHANGED vars
  BY <1>1, <1>5 DEF vars, flags, client
<1> QED BY <1>2, <1>3, <1>4, <1>5, StartsKeep, StepsKeep, NetworkKeeps DEF Next, Surroundings

LEMMA OneInvariant == Spec => []OneInv
BY InitOne, NextOne, PTL DEF Spec

(***************************************************************************)
(* OneRefresh holds of every behaviour: a refresh token is sent once at a  *)
(* time, and so are credentials, and the flags say so.                     *)
(***************************************************************************)
THEOREM OneRefreshAtATime == Spec => []OneRefresh
<1>1. OneInv => OneRefresh
  <2> SUFFICES ASSUME OneInv PROVE OneRefresh
    OBVIOUS
  <2>1. \A k \in Call : Cardinality({k}) = 1
    BY FS_Singleton
  <2>2. Cardinality({}) = 0
    BY FS_EmptySet
  <2> QED BY <2>1, <2>2 DEF OneInv, FlagOf, OneRefresh, RefreshPCs, SignInPCs
<1> QED BY <1>1, OneInvariant, PTL

-------------------------------------------------------------------------------
(***************************************************************************)
(* Tokens.  A call is refreshed from the moment the server has replaced    *)
(* its token until the new one is stored.                                  *)
(***************************************************************************)
Replaced == {k \in Call : calls[k].pc = "refreshing" /\ calls[k].reply = "ok"}
Pending == Replaced \union At({"storing"})

Replacement(t) == [t EXCEPT !.gen = @ + 1]

Newest(t) == t.sid \in unknown \/ t.gen = server[t.sid].gen

\* Or one of the calls K brings its replacement.
Covered(t, K) == Newest(t) \/ \E k \in K : calls[k].token.sid = t.sid

NewestInv ==
  /\ \A k \in Pending : Newest(Replacement(calls[k].token))
  /\ Covered(session, Replaced)
  /\ Covered(disk, Pending)
  /\ \A k \in At({"session"}) : Covered(calls[k].token, Pending)

\* The sign-ins that have a session nobody has used yet.
Fresh ==
  {k \in Call : \/ calls[k].pc = "signing" /\ calls[k].reply = "ok"
                \/ calls[k].pc \in {"rootkey", "user"} /\ calls[k].kind = "signin"}

Unused(k) ==
  LET t == calls[k].token
  IN /\ t.gen = 0 /\ server[t.sid].gen = 0
     /\ t.sid \notin {1, session.sid, disk.sid}
     /\ \A j \in Call \ {k} : calls[j].token.sid # t.sid

FreshInv ==
  /\ session.sid <= created /\ disk.sid <= created
  /\ \A k \in Call : calls[k].token.sid <= created
  /\ \A s \in Sid : s > created => server[s].gen = 0
  /\ \A k \in Fresh : Unused(k)

KindInv ==
  \A k \in Call :
    /\ calls[k].pc \in {"params", "signing", "session"} => calls[k].kind = "signin"
    /\ calls[k].pc \in {"sent", "refreshing", "storing", "retrying"} => calls[k].kind # "signin"

\* The calls that write, in order: a new session is written before what replaces its token.
WritesInv ==
  /\ writes \in Seq(Call)
  /\ \A a \in 1 .. Len(writes) : calls[writes[a]].pc \in {"storing", "session"}
  /\ \A a, b \in 1 .. Len(writes) : writes[a] = writes[b] => a = b
  /\ \A k \in At({"storing", "session"}) : \E a \in 1 .. Len(writes) : writes[a] = k
  /\ \A a, b \in 1 .. Len(writes) :
       a < b /\ calls[writes[a]].pc = "storing" /\ calls[writes[b]].pc = "session" =>
         calls[writes[a]].token.sid # calls[writes[b]].token.sid

\* What the invariants look at in a call.
Same(j) ==
  /\ calls'[j].pc = calls[j].pc /\ calls'[j].reply = calls[j].reply
  /\ calls'[j].token = calls[j].token /\ calls'[j].kind = calls[j].kind

\* The step of call k, to pc, with a reply and a token, the others staying as they are.
Comes(k, pc, reply, token) ==
  /\ \A j \in Call \ {k} : Same(j)
  /\ calls'[k].pc = pc /\ calls'[k].reply = reply /\ calls'[k].token = token

LEMMA Effects ==
  ASSUME Typed, NEW k \in Call
  PROVE  /\ \A pc : Goto(k, pc) =>
              Comes(k, pc, "none", calls[k].token) /\ calls'[k].kind = calls[k].kind
         /\ \A pc, t : Sends(k, pc, t) =>
              Comes(k, pc, "none", t) /\ calls'[k].kind = calls[k].kind
         /\ \A r : calls' = [calls EXCEPT ![k].reply = r] =>
              Comes(k, calls[k].pc, r, calls[k].token) /\ calls'[k].kind = calls[k].kind
         /\ \A r, t : calls' = [calls EXCEPT ![k].reply = r, ![k].token = t] =>
              Comes(k, calls[k].pc, r, t) /\ calls'[k].kind = calls[k].kind
         /\ Over(k) => Comes(k, "idle", "none", First)
         /\ \A r : calls' = [calls EXCEPT ![k] = r] => Comes(k, r.pc, r.reply, r.token)
                                                       /\ calls'[k].kind = r.kind
<1> USE DEF Typed, Record, Comes, Same
<1>1. ASSUME NEW pc, Goto(k, pc)
      PROVE  Comes(k, pc, "none", calls[k].token) /\ calls'[k].kind = calls[k].kind
  BY <1>1 DEF Goto
<1>2. ASSUME NEW pc, NEW t, Sends(k, pc, t)
      PROVE  Comes(k, pc, "none", t) /\ calls'[k].kind = calls[k].kind
  BY <1>2 DEF Sends
<1>3. ASSUME NEW r, calls' = [calls EXCEPT ![k].reply = r]
      PROVE  Comes(k, calls[k].pc, r, calls[k].token) /\ calls'[k].kind = calls[k].kind
  BY <1>3
<1>4. ASSUME NEW r, NEW t, calls' = [calls EXCEPT ![k].reply = r, ![k].token = t]
      PROVE  Comes(k, calls[k].pc, r, t) /\ calls'[k].kind = calls[k].kind
  BY <1>4
<1>5. ASSUME NEW r, calls' = [calls EXCEPT ![k] = r]
      PROVE  Comes(k, r.pc, r.reply, r.token) /\ calls'[k].kind = r.kind
  BY <1>5
<1>6. ASSUME Over(k) PROVE Comes(k, "idle", "none", First)
  BY <1>6 DEF Over, Idle
<1> QED BY <1>1, <1>2, <1>3, <1>4, <1>5, <1>6

LEMMA Starting ==
  ASSUME NEW k \in Call, Starts(k)
  PROVE  \E r : /\ calls' = [calls EXCEPT ![k] = r]
                /\ \/ r.pc = "sent" /\ r.kind # "signin" /\ r.token = session
                   \/ r.pc = "params" /\ r.kind = "signin" /\ r.token = First
<1>1. CASE Request(k) \/ ChangePassword(k)
  <2>1. PICK kind \in {"request", "change"} : Begin(k, kind)
    BY <1>1 DEF Request, ChangePassword
  <2> DEFINE r == [Idle EXCEPT !.pc = "sent", !.kind = kind, !.token = session]
  <2>2. r.pc = "sent" /\ r.kind # "signin" /\ r.token = session
    BY DEF Idle
  <2>3. calls' = [calls EXCEPT ![k] = r]
    BY <2>1 DEF Begin
  <2> HIDE DEF r
  <2> QED BY <2>2, <2>3
<1>2. CASE SubmitCredentials(k)
  <2> DEFINE r == [Idle EXCEPT !.pc = "params", !.kind = "signin", !.asked = TRUE]
  <2>1. r.pc = "params" /\ r.kind = "signin" /\ r.token = First
    BY DEF Idle
  <2>2. calls' = [calls EXCEPT ![k] = r]
    BY <1>2 DEF SubmitCredentials
  <2> HIDE DEF r
  <2> QED BY <2>1, <2>2
<1> QED BY <1>1, <1>2 DEF Starts

\* The sessions of the server.
ServerTyped ==
  server \in [Sid -> [gen : Nat, expired : BOOLEAN, status : {"alive", "over", "revoked"}]]

LEMMA InitServer == Init => ServerTyped
BY DEF Init, ServerTyped

LEMMA ChangedSession ==
  ASSUME NEW G, NEW B, NEW T, NEW r \in [gen : G, expired : B, status : T],
         NEW g \in G, NEW e \in B
  PROVE  [r EXCEPT !.gen = g, !.expired = e] \in [gen : G, expired : B, status : T]
OBVIOUS

\* Only an answer to a refresh changes how often a session was refreshed.
LEMMA ServeServer ==
  ASSUME Typed, ServerTyped, NEW k \in Call, Serve(k)
  PROVE  /\ ServerTyped'
         /\ \/ UNCHANGED server
            \/ /\ calls[k].pc = "refreshing"
               /\ calls' = [calls EXCEPT ![k].reply = "ok"]
               /\ server[calls[k].token.sid].gen = calls[k].token.gen
               /\ server'[calls[k].token.sid].gen = server[calls[k].token.sid].gen + 1
               /\ \A s \in Sid \ {calls[k].token.sid} : server'[s].gen = server[s].gen
<1> DEFINE t == calls[k].token
<1>1. t.sid \in Sid
  BY DEF Typed, Record, Token
<1>2. CASE UNCHANGED server
  BY <1>2 DEF ServerTyped
<1>3. CASE /\ calls[k].pc = "refreshing" /\ Refreshes(t)
           /\ server' = [server EXCEPT ![t.sid].gen = @ + 1, ![t.sid].expired = FALSE]
           /\ calls' = [calls EXCEPT ![k].reply = "ok"]
  <2>1. ServerTyped'
    <3> DEFINE S == [gen : Nat, expired : BOOLEAN, status : {"alive", "over", "revoked"}]
    <3>1. server[t.sid] \in S /\ server = [s \in Sid |-> server[s]]
      BY <1>1 DEF ServerTyped
    <3>2. ASSUME NEW r \in S, NEW e \in BOOLEAN
          PROVE  [r EXCEPT !.gen = @ + 1, !.expired = e] \in S
      <4>1. r.gen + 1 \in Nat
        OBVIOUS
      <4>2. \A g \in Nat : [r EXCEPT !.gen = g, !.expired = e] \in S
        BY <3>2, ChangedSession
      <4>3. [r EXCEPT !.gen = @ + 1, !.expired = e] = [r EXCEPT !.gen = r.gen + 1, !.expired = e]
        OBVIOUS
      <4> QED
        BY <4>1, <4>2, <4>3
    <3>3. [server[t.sid] EXCEPT !.gen = @ + 1, !.expired = FALSE] \in S
      BY <3>1, <3>2
    <3>4. /\ server' = [s \in Sid |-> server'[s]]
          /\ \A s \in Sid \ {t.sid} : server'[s] = server[s]
          /\ server'[t.sid] = [server[t.sid] EXCEPT !.gen = @ + 1, !.expired = FALSE]
      BY <1>1, <1>3 DEF ServerTyped
    <3>5. \A s \in Sid : server[s] \in S
      BY DEF ServerTyped
    <3> HIDE DEF S
    <3>6. \A s \in Sid : server'[s] \in S
      BY <3>3, <3>4, <3>5
    <3>7. server' \in [Sid -> S]
      BY <3>4, <3>6
    <3> QED BY <3>7 DEF ServerTyped, S
  <2>2. /\ server'[t.sid].gen = server[t.sid].gen + 1
        /\ \A s \in Sid \ {t.sid} : server'[s].gen = server[s].gen
    BY <1>1, <1>3 DEF ServerTyped
  <2> QED BY <1>3, <2>1, <2>2 DEF Refreshes
<1>4. CASE calls[k].pc = "refreshing"
  BY <1>2, <1>3, <1>4 DEF Serve
<1>5. CASE calls[k].pc \in {"sent", "retrying", "params"}
  BY <1>2, <1>5 DEF Serve
<1>6. CASE calls[k].pc = "signing"
  BY <1>2, <1>6 DEF Serve
<1> QED BY <1>4, <1>5, <1>6 DEF Serve, Awaited

LEMMA TroubleServer ==
  ASSUME ServerTyped, NEW s \in Sid, Expire(s) \/ \E status \in {"over", "revoked"} : End(s, status)
  PROVE  ServerTyped' /\ \A x \in Sid : server'[x].gen = server[x].gen
<1>1. CASE Expire(s)
  BY <1>1 DEF ServerTyped, Expire
<1>2. ASSUME NEW status \in {"over", "revoked"}, End(s, status)
      PROVE  ServerTyped' /\ \A x \in Sid : server'[x].gen = server[x].gen
  BY <1>2 DEF ServerTyped, End
<1> QED BY <1>1, <1>2

LEMMA NextServer == OneInv /\ ServerTyped /\ [Next]_vars => ServerTyped'
<1> SUFFICES ASSUME OneInv, ServerTyped, [Next]_vars PROVE ServerTyped'
  OBVIOUS
<1>1. CASE UNCHANGED server
  BY <1>1 DEF ServerTyped
<1>2. ASSUME NEW k \in Call, Steps(k) PROVE UNCHANGED server
  BY <1>2 DEF Steps, Receive, Refreshed, NotRefreshed, SessionStored, Retried, ParamsRetrieved,
         SignInAnswered, RootKeyStored, UserStored, NewSessionStored
<1>3. ASSUME NEW k \in Call, Starts(k) \/ Lose(k) PROVE UNCHANGED server
  BY <1>3 DEF Starts, Request, ChangePassword, SubmitCredentials, Lose
<1>4. CASE Restart \/ CancelRenewal \/ UNCHANGED vars
  BY <1>1, <1>4 DEF Restart, CancelRenewal, vars
<1> QED BY <1>1, <1>2, <1>3, <1>4, ServeServer, TroubleServer DEF Next, Surroundings, OneInv

LEMMA Answers ==
  ASSUME NEW k \in Call, Serve(k) \/ Lose(k)
  PROVE  \/ \E r : calls' = [calls EXCEPT ![k].reply = r]
         \/ \E r, t : calls' = [calls EXCEPT ![k].reply = r, ![k].token = t]
<1>1. CASE Serve(k) /\ calls[k].pc \in {"sent", "retrying"}
  BY <1>1 DEF Serve
<1>2. CASE Serve(k) /\ calls[k].pc = "refreshing"
  BY <1>2 DEF Serve
<1>3. CASE Serve(k) /\ calls[k].pc = "params"
  BY <1>3 DEF Serve
<1>4. CASE Serve(k) /\ calls[k].pc = "signing"
  BY <1>4 DEF Serve
<1>5. CASE Lose(k)
  BY <1>5 DEF Lose
<1> QED BY <1>1, <1>2, <1>3, <1>4, <1>5 DEF Serve, Awaited

LEMMA AnswersCome ==
  ASSUME Typed, NEW k \in Call, Serve(k) \/ Lose(k)
  PROVE  \E r, t : Comes(k, calls[k].pc, r, t) /\ calls'[k].kind = calls[k].kind
<1>1. CASE \E r : calls' = [calls EXCEPT ![k].reply = r]
  <2>1. PICK r : calls' = [calls EXCEPT ![k].reply = r]
    BY <1>1
  <2>2. Comes(k, calls[k].pc, r, calls[k].token) /\ calls'[k].kind = calls[k].kind
    BY <2>1, Effects
  <2> QED BY <2>2
<1>2. CASE \E r, t : calls' = [calls EXCEPT ![k].reply = r, ![k].token = t]
  <2>1. PICK r, t : calls' = [calls EXCEPT ![k].reply = r, ![k].token = t]
    BY <1>2
  <2>2. Comes(k, calls[k].pc, r, t) /\ calls'[k].kind = calls[k].kind
    BY <2>1, Effects
  <2> QED BY <2>2
<1> QED BY <1>1, <1>2, Answers

-------------------------------------------------------------------------------
(***************************************************************************)
(* Kinds.                                                                  *)
(***************************************************************************)
KindOf(pc, kind) ==
  /\ pc \in {"params", "signing", "session"} => kind = "signin"
  /\ pc \in {"sent", "refreshing", "storing", "retrying"} => kind # "signin"

LEMMA InitKind == Init => KindInv
BY DEF Init, KindInv, Idle

LEMMA ComesKind ==
  ASSUME KindInv, NEW k \in Call, NEW pc, NEW reply, NEW token, Comes(k, pc, reply, token),
         KindOf(pc, calls'[k].kind)
  PROVE  KindInv'
BY DEF KindInv, Comes, Same, KindOf

LEMMA StepsKind ==
  ASSUME Typed, KindInv, NEW k \in Call, Steps(k) PROVE KindInv'
<1>1. CASE Over(k)
  BY <1>1, Effects, ComesKind DEF KindOf
<1>2. CASE \/ Receive(k) /\ Sends(k, "refreshing", session)
           \/ SessionStored(k)
  BY <1>2, Effects, ComesKind DEF Receive, SessionStored, Answered, KindInv, KindOf
<1>3. CASE \E pc \in {"rootkey", "user"} : Goto(k, pc)
  BY <1>3, Effects, ComesKind DEF KindOf
<1>4. CASE Refreshed(k) \/ (ParamsRetrieved(k) /\ Goto(k, "signing"))
  BY <1>4, Effects, ComesKind DEF Refreshed, ParamsRetrieved, Answered, KindInv, KindOf
<1>5. CASE UserStored(k) /\ calls[k].kind = "signin"
  BY <1>5, Effects, ComesKind DEF UserStored, KindInv, KindOf
<1>6. CASE NewSessionStored(k)
  BY <1>6 DEF NewSessionStored, Typed, Record, KindInv, Idle
<1> QED BY <1>1, <1>2, <1>3, <1>4, <1>5, <1>6
        DEF Steps, Receive, NotRefreshed, Retried, ParamsRetrieved, SignInAnswered,
            RootKeyStored, UserStored

LEMMA NextKind == OneInv /\ KindInv /\ [Next]_vars => KindInv'
<1> SUFFICES ASSUME OneInv, KindInv, [Next]_vars PROVE KindInv'
  OBVIOUS
<1>1. Typed
  BY DEF OneInv
<1>2. CASE UNCHANGED calls
  BY <1>2 DEF KindInv
<1>3. CASE Restart
  BY <1>3 DEF Restart, KindInv, Idle
<1>4. CASE CancelRenewal
  BY <1>1, <1>4 DEF CancelRenewal, KindInv, Typed, Record
<1>5. ASSUME NEW k \in Call, Serve(k) \/ Lose(k) PROVE KindInv'
  <2>2. PICK r, t : Comes(k, calls[k].pc, r, t) /\ calls'[k].kind = calls[k].kind
    BY <1>1, <1>5, AnswersCome
  <2> QED BY <2>2, ComesKind DEF KindInv, KindOf
<1>6. ASSUME NEW k \in Call, Starts(k) PROVE KindInv'
  <2>2. PICK r : /\ calls' = [calls EXCEPT ![k] = r]
                 /\ \/ r.pc = "sent" /\ r.kind # "signin" /\ r.token = session
                    \/ r.pc = "params" /\ r.kind = "signin" /\ r.token = First
    BY <1>6, Starting
  <2>3. Comes(k, r.pc, r.reply, r.token) /\ calls'[k].kind = r.kind
    BY <1>1, <2>2, Effects
  <2> QED BY <2>2, <2>3, ComesKind DEF KindOf
<1> QED BY <1>1, <1>2, <1>3, <1>4, <1>5, <1>6, StepsKind
        DEF Next, Surroundings, Expire, End, vars

-------------------------------------------------------------------------------
(***************************************************************************)
(* Sessions that nobody has used yet.                                      *)
(***************************************************************************)
UsedBefore(sid, who) == \E j \in who : calls[j].token.sid = sid

\* Of the steps that create no session.
LEMMA FreshKept ==
  ASSUME Typed, FreshInv, UNCHANGED created,
         \A s \in Sid : server'[s].gen = server[s].gen \/ UsedBefore(s, Call \ Fresh),
         \A j \in Fresh' : j \in Fresh /\ calls'[j].token = calls[j].token,
         \A j \in Call : calls'[j].token.sid \in {calls[j].token.sid, session.sid, 1},
         session'.sid \in {session.sid, disk.sid} \/ UsedBefore(session'.sid, Call \ Fresh'),
         disk'.sid = disk.sid \/ UsedBefore(disk'.sid, Call \ Fresh')
  PROVE  FreshInv'
<1> USE DEF UsedBefore
<1>1. created \in Nat /\ 1 <= created
  BY BoundAssumption DEF Typed, Sid
<1>2. session'.sid <= created' /\ disk'.sid <= created'
  BY DEF FreshInv
<1>3. \A k \in Call : calls'[k].token.sid <= created'
  BY <1>1 DEF FreshInv
<1>4. \A s \in Sid : s > created' => server'[s].gen = 0
  <2> SUFFICES ASSUME NEW s \in Sid, s > created PROVE server'[s].gen = 0
    OBVIOUS
  <2>1. server[s].gen = 0
    BY DEF FreshInv
  <2>2. \A j \in Call : calls[j].token.sid # s
    BY <1>1 DEF FreshInv, Sid
  <2> QED BY <2>1, <2>2
<1>5. ASSUME NEW k \in Fresh' PROVE Unused(k)'
  <2>1. k \in Fresh /\ k \in Call /\ calls'[k].token = calls[k].token /\ Unused(k)
    BY <1>5 DEF FreshInv, Fresh
  <2>2. server'[calls[k].token.sid].gen = 0
    <3>1. calls[k].token.sid \in Sid
      BY <2>1 DEF Typed, Record, Token
    <3>2. ~UsedBefore(calls[k].token.sid, Call \ Fresh)
      BY <2>1 DEF Unused
    <3> QED BY <2>1, <3>1, <3>2 DEF Unused
  <2>3. calls[k].token.sid \notin {1, session'.sid, disk'.sid}
    BY <2>1, <1>5 DEF Unused
  <2>4. \A j \in Call \ {k} : calls'[j].token.sid # calls[k].token.sid
    BY <2>1 DEF Unused
  <2> QED BY <2>1, <2>2, <2>3, <2>4 DEF Unused
<1> QED BY <1>2, <1>3, <1>4, <1>5 DEF FreshInv

\* A call that comes to a step at which it is fresh only if it was.
LEMMA ComesFresh ==
  ASSUME Typed, FreshInv, UNCHANGED created, NEW k \in Call, NEW pc, NEW reply, NEW token,
         Comes(k, pc, reply, token),
         \A s \in Sid : server'[s].gen = server[s].gen \/ (s = calls[k].token.sid /\ k \notin Fresh),
         k \in Fresh' => k \in Fresh /\ token = calls[k].token,
         token.sid \in {calls[k].token.sid, session.sid, 1},
         session'.sid = session.sid \/ (session'.sid = calls[k].token.sid /\ k \notin Fresh'),
         disk'.sid = disk.sid \/ (disk'.sid = calls[k].token.sid /\ k \notin Fresh')
  PROVE  FreshInv'
<1>1. \A j \in Call \ {k} : (j \in Fresh' <=> j \in Fresh) /\ calls'[j].token = calls[j].token
  BY DEF Comes, Same, Fresh
<1>2. \A j \in Fresh' : j \in Fresh /\ calls'[j].token = calls[j].token
  <2> SUFFICES ASSUME NEW j \in Fresh' PROVE j \in Fresh /\ calls'[j].token = calls[j].token
    OBVIOUS
  <2>1. j \in Call
    BY DEF Fresh
  <2> QED BY <1>1, <2>1 DEF Comes
<1>3. \A j \in Call : calls'[j].token.sid \in {calls[j].token.sid, session.sid, 1}
  BY <1>1 DEF Comes
<1> QED BY <1>2, <1>3, FreshKept DEF UsedBefore

LEMMA InitFresh == Init => FreshInv
<1> SUFFICES ASSUME Init PROVE FreshInv
  OBVIOUS
<1>1. Fresh = {}
  BY DEF Init, Fresh, Idle
<1> QED BY <1>1 DEF Init, FreshInv, Idle, First

LEMMA StepsFresh ==
  ASSUME Typed, KindInv, FreshInv, NEW k \in Call, Steps(k) PROVE FreshInv'
<1>1. UNCHANGED <<server, created>>
  BY DEF Steps, Receive, Refreshed, NotRefreshed, SessionStored, Retried, ParamsRetrieved,
         SignInAnswered, RootKeyStored, UserStored, NewSessionStored
<1>2. First.sid = 1 /\ Replacement(calls[k].token).sid = calls[k].token.sid
  BY DEF First, Replacement, Typed, Record, Token
<1>3. CASE Over(k) /\ UNCHANGED <<session, disk>>
  <2>1. Comes(k, "idle", "none", First)
    BY <1>3, Effects
  <2>2. k \notin Fresh'
    BY <2>1 DEF Comes, Fresh
  <2> QED BY <1>1, <1>2, <1>3, <2>1, <2>2, ComesFresh
<1>4. CASE Receive(k) /\ Sends(k, "refreshing", session) /\ UNCHANGED <<session, disk>>
  <2>1. Comes(k, "refreshing", "none", session)
    BY <1>4, Effects
  <2>2. k \notin Fresh'
    BY <2>1 DEF Comes, Fresh
  <2> QED BY <1>1, <1>4, <2>1, <2>2, ComesFresh
<1>5. CASE \E pc \in {"rootkey", "user", "signing"} :
             /\ Goto(k, pc) /\ UNCHANGED <<session, disk>>
             /\ \/ pc = "signing"
                \/ calls[k].kind # "signin"
                \/ k \in Fresh
  <2>1. PICK pc \in {"rootkey", "user", "signing"} :
             /\ Goto(k, pc) /\ UNCHANGED <<session, disk>>
             /\ \/ pc = "signing"
                \/ calls[k].kind # "signin"
                \/ k \in Fresh
    BY <1>5
  <2>2. Comes(k, pc, "none", calls[k].token) /\ calls'[k].kind = calls[k].kind
    BY <2>1, Effects
  <2>3. k \in Fresh' => k \in Fresh
    BY <2>1, <2>2 DEF Comes, Fresh
  <2> QED BY <1>1, <2>1, <2>2, <2>3, ComesFresh
<1>6. CASE Refreshed(k)
  <2>1. Comes(k, "storing", "none", calls[k].token)
    BY <1>6, Effects DEF Refreshed
  <2>2. k \notin Fresh'
    BY <2>1 DEF Comes, Fresh
  <2>3. session' = Replacement(calls[k].token) /\ UNCHANGED disk
    BY <1>6 DEF Refreshed, SetSession, Replacement
  <2> QED BY <1>1, <1>2, <2>1, <2>2, <2>3, ComesFresh
<1>7. CASE SessionStored(k)
  <2>1. Comes(k, "retrying", "none", session)
    BY <1>7, Effects DEF SessionStored
  <2>2. k \notin Fresh'
    BY <2>1 DEF Comes, Fresh
  <2>3. disk' = Replacement(calls[k].token) /\ UNCHANGED session
    BY <1>7 DEF SessionStored, Written, Replacement
  <2> QED BY <1>1, <1>2, <2>1, <2>2, <2>3, ComesFresh
<1>8. CASE UserStored(k) /\ calls[k].kind = "signin"
  <2>1. Comes(k, "session", "none", calls[k].token)
    BY <1>8, Effects DEF UserStored
  <2>2. k \notin Fresh'
    BY <2>1 DEF Comes, Fresh
  <2>3. session' = calls[k].token /\ UNCHANGED disk
    BY <1>8 DEF UserStored, SetSession
  <2> QED BY <1>1, <1>2, <2>1, <2>2, <2>3, ComesFresh
<1>9. CASE NewSessionStored(k)
  <2>1. \A j \in Call \ {k} : Same(j)
    BY <1>9 DEF NewSessionStored, Same, Typed, Record
  <2>2. calls'[k] = Idle /\ disk' = calls[k].token /\ UNCHANGED session
    BY <1>9 DEF NewSessionStored, Written
  <2>3. Comes(k, "idle", "none", First)
    BY <2>1, <2>2 DEF Comes, Idle
  <2>4. k \notin Fresh'
    BY <2>3 DEF Comes, Fresh
  <2> QED BY <1>1, <1>2, <2>2, <2>3, <2>4, ComesFresh
<1>10. CASE Receive(k)
  <2>1. UNCHANGED <<session, disk>>
    BY <1>10 DEF Receive, Observed, client
  <2> QED BY <1>3, <1>4, <1>5, <1>10, <2>1 DEF Receive
<1>11. CASE Retried(k)
  BY <1>3, <1>5, <1>11 DEF Retried, client, KindInv, Answered
<1>12. CASE NotRefreshed(k)
  BY <1>3, <1>12 DEF NotRefreshed, Observed
<1>13. CASE ParamsRetrieved(k)
  BY <1>3, <1>5, <1>13 DEF ParamsRetrieved, client
<1>14. CASE SignInAnswered(k)
  BY <1>3, <1>5, <1>14 DEF SignInAnswered, client, Answered, Fresh
<1>15. CASE RootKeyStored(k)
  BY <1>5, <1>15 DEF RootKeyStored, client, Fresh
<1>16. CASE UserStored(k)
  BY <1>3, <1>8, <1>16 DEF UserStored
<1> QED BY <1>6, <1>7, <1>9, <1>10, <1>11, <1>12, <1>13, <1>14, <1>15, <1>16 DEF Steps

LEMMA ServeFresh ==
  ASSUME Typed, ServerTyped, FreshInv, NEW k \in Call, Serve(k) PROVE FreshInv'
<1>1. UNCHANGED <<session, disk>> /\ calls[k].reply = "none"
  BY DEF Serve, client, Awaited
<1>2. CASE \E r : calls' = [calls EXCEPT ![k].reply = r] /\ (calls[k].pc = "signing" => r # "ok")
  <2>1. PICK r : calls' = [calls EXCEPT ![k].reply = r] /\ (calls[k].pc = "signing" => r # "ok")
    BY <1>2
  <2>2. Comes(k, calls[k].pc, r, calls[k].token) /\ calls'[k].kind = calls[k].kind
    BY <2>1, Effects
  <2>3. k \in Fresh' => k \in Fresh
    BY <2>1, <2>2 DEF Comes, Fresh
  <2>4. UNCHANGED created
        /\ \A s \in Sid : server'[s].gen = server[s].gen \/ (s = calls[k].token.sid /\ k \notin Fresh)
    <3>1. UNCHANGED created
      <4>1. CASE calls[k].pc = "signing"
        <5>1. CASE calls' = [calls EXCEPT ![k].reply = "ok",
                                          ![k].token = [sid |-> created + 1, gen |-> 0]]
          <6>1. Comes(k, calls[k].pc, "ok", [sid |-> created + 1, gen |-> 0])
            BY <5>1, Effects
          <6> QED BY <2>1, <2>2, <4>1, <6>1 DEF Comes
        <5> QED BY <4>1, <5>1 DEF Serve
      <4>2. CASE calls[k].pc = "refreshing"
        BY <4>2 DEF Serve
      <4>3. CASE calls[k].pc \in {"sent", "retrying"}
        BY <4>3 DEF Serve
      <4>4. CASE calls[k].pc = "params"
        BY <4>4 DEF Serve
      <4> QED BY <4>1, <4>2, <4>3, <4>4 DEF Serve, Awaited
    <3>2. calls[k].pc = "refreshing" => k \notin Fresh
      BY DEF Fresh
    <3> QED BY <3>1, <3>2, ServeServer
  <2> QED BY <1>1, <2>2, <2>3, <2>4, ComesFresh
<1>3. CASE /\ calls[k].pc = "signing" /\ created < MaxSessions /\ created' = created + 1
           /\ calls' = [calls EXCEPT ![k].reply = "ok",
                                     ![k].token = [sid |-> created + 1, gen |-> 0]]
           /\ UNCHANGED server
  <2> DEFINE t == [sid |-> created + 1, gen |-> 0]
  <2>1. Comes(k, "signing", "ok", t)
    BY <1>3, Effects
  <2>2. created \in Nat /\ 1 <= created /\ created + 1 \in Sid
    BY <1>3, BoundAssumption DEF Typed, Sid
  <2>3. t.sid = created + 1 /\ t.gen = 0
    OBVIOUS
  <2> HIDE DEF t
  <2>4. /\ session.sid \in Nat /\ disk.sid \in Nat /\ \A j \in Call : calls[j].token.sid \in Nat
        /\ Sid \subseteq Nat
    BY DEF Typed, Record, Token, Sid
  <2>5. \A j \in Call \ {k} : calls'[j].token = calls[j].token
    BY <2>1 DEF Comes, Same
  <2>6. /\ session'.sid <= created' /\ disk'.sid <= created'
        /\ \A j \in Call : calls'[j].token.sid <= created'
    <3>1. session.sid <= created + 1 /\ disk.sid <= created + 1
      BY <2>2, <2>4 DEF FreshInv
    <3>2. \A j \in Call : calls[j].token.sid <= created + 1
      BY <2>2, <2>4 DEF FreshInv
    <3>3. \A j \in Call : calls'[j].token.sid <= created + 1
      BY <2>1, <2>2, <2>3, <2>5, <3>2 DEF Comes
    <3> QED BY <1>1, <1>3, <3>1, <3>3
  <2>7. \A s \in Sid : s > created' => server'[s].gen = 0
    BY <1>3, <2>2, <2>4 DEF FreshInv
  <2>8. Unused(k)'
    <3>1. calls'[k].token = t
      BY <2>1 DEF Comes
    <3>2. server'[t.sid].gen = 0
      BY <1>3, <2>2, <2>3, <2>4 DEF FreshInv
    <3>3. t.sid \notin {1, session'.sid, disk'.sid}
      BY <1>1, <2>2, <2>3, <2>4 DEF FreshInv
    <3>4. \A j \in Call \ {k} : calls'[j].token.sid # t.sid
      BY <2>2, <2>3, <2>4, <2>5 DEF FreshInv
    <3> QED BY <2>3, <3>1, <3>2, <3>3, <3>4 DEF Unused
  <2>9. ASSUME NEW j \in Fresh', j # k PROVE Unused(j)'
    <3>1. j \in Fresh /\ j \in Call
      BY <2>1, <2>9 DEF Comes, Same, Fresh
    <3>2. Unused(j) /\ calls[j].token.sid # t.sid
      BY <2>2, <2>3, <2>4, <3>1 DEF FreshInv
    <3> QED BY <1>1, <1>3, <2>1, <2>5, <2>9, <3>1, <3>2 DEF Unused, Comes
  <2> QED BY <2>6, <2>7, <2>8, <2>9 DEF FreshInv
<1>4. CASE calls[k].pc \in {"sent", "retrying", "params"}
  BY <1>2, <1>4 DEF Serve
<1>5. CASE calls[k].pc = "refreshing"
  BY <1>2, <1>5 DEF Serve
<1>6. CASE calls[k].pc = "signing"
  BY <1>2, <1>3, <1>6 DEF Serve
<1> QED BY <1>4, <1>5, <1>6 DEF Serve, Awaited

LEMMA NextFresh == OneInv /\ ServerTyped /\ KindInv /\ FreshInv /\ [Next]_vars => FreshInv'
<1> SUFFICES ASSUME OneInv, ServerTyped, KindInv, FreshInv, [Next]_vars PROVE FreshInv'
  OBVIOUS
<1>1. Typed
  BY DEF OneInv
<1>2. ASSUME UNCHANGED <<created, session, disk>>, \A s \in Sid : server'[s].gen = server[s].gen,
             \A j \in Call : Same(j)
      PROVE  FreshInv'
  <2>1. \A j \in Fresh' : j \in Fresh /\ calls'[j].token = calls[j].token
    BY <1>2 DEF Same, Fresh
  <2> QED BY <1>1, <1>2, <2>1, FreshKept DEF Same
<1>3. CASE Restart
  <2>1. /\ UNCHANGED <<server, created, disk>> /\ session' = disk
        /\ calls' = [j \in Call |-> Idle]
    BY <1>3 DEF Restart
  <2>2. Fresh' = {}
    BY <2>1 DEF Fresh, Idle
  <2> QED BY <1>1, <2>1, <2>2, FreshKept DEF Idle, First
<1>4. CASE CancelRenewal
  <2>1. \A j \in Call : Same(j)
    BY <1>1, <1>4 DEF CancelRenewal, Same, Typed, Record
  <2> QED BY <1>2, <1>4, <2>1 DEF CancelRenewal
<1>5. CASE \E s \in Sid : Expire(s) \/ \E status \in {"over", "revoked"} : End(s, status)
  <2>1. \A s \in Sid : server'[s].gen = server[s].gen
    BY <1>5, TroubleServer
  <2>2. UNCHANGED <<created, session, disk, calls>>
    BY <1>5 DEF Expire, End, client
  <2> QED BY <1>2, <2>1, <2>2 DEF Same
<1>6. ASSUME NEW k \in Call, Lose(k) PROVE FreshInv'
  <2>1. Comes(k, calls[k].pc, "lost", calls[k].token) /\ calls'[k].kind = calls[k].kind
    BY <1>1, <1>6, Effects DEF Lose
  <2>2. k \notin Fresh'
    BY <1>6, <2>1 DEF Lose, Comes, Fresh
  <2> QED BY <1>1, <1>6, <2>1, <2>2, ComesFresh DEF Lose, client
<1>7. ASSUME NEW k \in Call, Starts(k) PROVE FreshInv'
  <2>1. PICK r : /\ calls' = [calls EXCEPT ![k] = r]
                 /\ \/ r.pc = "sent" /\ r.kind # "signin" /\ r.token = session
                    \/ r.pc = "params" /\ r.kind = "signin" /\ r.token = First
    BY <1>7, Starting
  <2>2. Comes(k, r.pc, r.reply, r.token)
    BY <1>1, <2>1, Effects
  <2>3. k \notin Fresh'
    BY <2>1, <2>2 DEF Comes, Fresh
  <2>4. UNCHANGED <<server, created, session, disk>> /\ First.sid = 1
    BY <1>7 DEF Starts, Request, ChangePassword, SubmitCredentials, Begin, client, First
  <2> QED BY <1>1, <2>1, <2>2, <2>3, <2>4, ComesFresh
<1>8. CASE UNCHANGED vars
  BY <1>2, <1>8 DEF vars, client, Same
<1> QED BY <1>1, <1>3, <1>4, <1>5, <1>6, <1>7, <1>8, StepsFresh, ServeFresh DEF Next, Surroundings

-------------------------------------------------------------------------------
(***************************************************************************)
(* Writes.                                                                 *)
(***************************************************************************)
WritePCs == {"storing", "session"}

LEMMA InitWrites == Init => WritesInv
BY DEF Init, WritesInv, At, Idle

LEMMA WritesUntouched ==
  ASSUME WritesInv, UNCHANGED writes,
         \A j \in Call : calls[j].pc \in WritePCs \/ calls'[j].pc \in WritePCs =>
                           calls'[j].pc = calls[j].pc /\ calls'[j].token = calls[j].token
  PROVE  WritesInv'
<1> USE DEF WritePCs
<1>1. \A a \in 1 .. Len(writes) : writes[a] \in Call
  BY DEF WritesInv
<1>2. \A a \in 1 .. Len(writes) :
        calls'[writes[a]].pc = calls[writes[a]].pc /\ calls'[writes[a]].token = calls[writes[a]].token
  BY <1>1 DEF WritesInv
<1>3. At({"storing", "session"})' \subseteq At({"storing", "session"})
  BY DEF At
<1> QED BY <1>2, <1>3 DEF WritesInv

LEMMA WritesAppended ==
  ASSUME WritesInv, NEW k \in Call, NEW pc \in WritePCs, NEW reply, NEW token,
         Comes(k, pc, reply, token), calls[k].pc \notin WritePCs, writes' = Append(writes, k),
         pc = "session" => \A j \in Call \ {k} : calls[j].token.sid # token.sid
  PROVE  WritesInv'
<1> USE DEF WritePCs
<1> DEFINE n == Len(writes)
<1>1. n \in Nat /\ writes \in Seq(Call)
  BY DEF WritesInv
<1>2. /\ writes' \in Seq(Call) /\ Len(writes') = n + 1 /\ writes'[n + 1] = k
      /\ \A a \in 1 .. n : writes'[a] = writes[a]
  BY <1>1
<1>3. \A a \in 1 .. n : writes[a] \in Call \ {k}
  BY <1>1 DEF WritesInv
<1>4. \A a \in 1 .. n : /\ calls'[writes[a]].pc = calls[writes[a]].pc
                        /\ calls'[writes[a]].token = calls[writes[a]].token
  BY <1>3 DEF Comes, Same
<1>5. calls'[k].pc = pc /\ calls'[k].token = token
  BY DEF Comes
<1> HIDE DEF n
<1>6. \A a \in 1 .. Len(writes') : calls'[writes'[a]].pc \in {"storing", "session"}
  <2> SUFFICES ASSUME NEW a \in 1 .. (n + 1) PROVE calls'[writes'[a]].pc \in {"storing", "session"}
    BY <1>2
  <2>1. CASE a = n + 1
    BY <1>2, <1>5, <2>1
  <2>2. CASE a \in 1 .. n
    BY <1>2, <1>4, <2>2 DEF WritesInv, n
  <2>3. a = n + 1 \/ a \in 1 .. n
    BY <1>1
  <2> QED BY <2>1, <2>2, <2>3
<1>7. \A a, b \in 1 .. Len(writes') : writes'[a] = writes'[b] => a = b
  BY <1>1, <1>2, <1>3 DEF WritesInv, n
<1>8. ASSUME NEW j \in At({"storing", "session"})' PROVE \E a \in 1 .. Len(writes') : writes'[a] = j
  <2>1. CASE j = k
    BY <1>1, <1>2, <2>1
  <2>2. CASE j # k
    <3>1. j \in At({"storing", "session"})
      BY <2>2 DEF At, Comes, Same
    <3>2. PICK a \in 1 .. n : writes[a] = j
      BY <3>1 DEF WritesInv, n
    <3> QED BY <1>1, <1>2, <3>2
  <2> QED BY <2>1, <2>2
<1>9. ASSUME NEW a \in 1 .. Len(writes'), NEW b \in 1 .. Len(writes'), a < b,
             calls'[writes'[a]].pc = "storing", calls'[writes'[b]].pc = "session"
      PROVE  calls'[writes'[a]].token.sid # calls'[writes'[b]].token.sid
  <2>1. a \in 1 .. n
    BY <1>1, <1>2, <1>9
  <2>2. CASE b = n + 1
    BY <1>2, <1>3, <1>4, <1>5, <1>9, <2>1, <2>2
  <2>3. CASE b \in 1 .. n
    BY <1>2, <1>4, <1>9, <2>1, <2>3 DEF WritesInv, n
  <2> QED BY <1>1, <1>2, <2>2, <2>3
<1> QED BY <1>2, <1>6, <1>7, <1>8, <1>9 DEF WritesInv

LEMMA WritesDone ==
  ASSUME WritesInv, NEW k \in Call, writes # <<>>, Head(writes) = k, writes' = Tail(writes),
         \A j \in Call \ {k} : Same(j), calls'[k].pc \notin WritePCs
  PROVE  WritesInv'
<1> USE DEF WritePCs
<1> DEFINE n == Len(writes)
<1>1. n \in Nat \ {0} /\ writes \in Seq(Call) /\ writes[1] = k
  BY DEF WritesInv
<1>2. /\ writes' \in Seq(Call) /\ Len(writes') = n - 1
      /\ \A a \in 1 .. (n - 1) : writes'[a] = writes[a + 1]
  BY <1>1
<1> HIDE DEF n
<1>3. \A a \in 1 .. (n - 1) : a + 1 \in 1 .. n /\ a + 1 # 1
  BY <1>1
<1>4. \A a \in 1 .. n : writes[a] \in Call /\ (a # 1 => writes[a] # k)
  BY <1>1 DEF WritesInv, n
<1>5. \A a \in 1 .. (n - 1) : /\ calls'[writes'[a]].pc = calls[writes[a + 1]].pc
                              /\ calls'[writes'[a]].token = calls[writes[a + 1]].token
  BY <1>2, <1>3, <1>4 DEF Same
<1>6. \A a \in 1 .. Len(writes') : calls'[writes'[a]].pc \in {"storing", "session"}
  BY <1>2, <1>3, <1>5 DEF WritesInv, n
<1>7. \A a, b \in 1 .. Len(writes') : writes'[a] = writes'[b] => a = b
  <2> SUFFICES ASSUME NEW a \in 1 .. Len(writes'), NEW b \in 1 .. Len(writes'),
                      writes'[a] = writes'[b]
               PROVE  a = b
    OBVIOUS
  <2>1. a \in 1 .. (n - 1) /\ b \in 1 .. (n - 1) /\ writes[a + 1] = writes[b + 1]
    BY <1>2
  <2>2. a + 1 = b + 1
    BY <1>3, <2>1 DEF WritesInv, n
  <2> QED BY <2>1, <2>2
<1>8. ASSUME NEW j \in At({"storing", "session"})' PROVE \E a \in 1 .. Len(writes') : writes'[a] = j
  <2>1. j # k /\ j \in At({"storing", "session"})
    BY DEF At, Same
  <2>2. PICK a \in 1 .. n : writes[a] = j
    BY <2>1 DEF WritesInv, n
  <2>3. a - 1 \in 1 .. (n - 1) /\ (a - 1) + 1 = a
    BY <1>1, <2>1, <2>2
  <2> QED BY <1>2, <2>2, <2>3
<1>9. ASSUME NEW a \in 1 .. Len(writes'), NEW b \in 1 .. Len(writes'), a < b,
             calls'[writes'[a]].pc = "storing", calls'[writes'[b]].pc = "session"
      PROVE  calls'[writes'[a]].token.sid # calls'[writes'[b]].token.sid
  <2>1. a + 1 \in 1 .. n /\ b + 1 \in 1 .. n /\ a + 1 < b + 1
    BY <1>1, <1>2, <1>9
  <2> QED BY <1>2, <1>5, <1>9, <2>1 DEF WritesInv, n
<1> QED BY <1>2, <1>6, <1>7, <1>8, <1>9 DEF WritesInv

LEMMA StepsWrites ==
  ASSUME Typed, FreshInv, WritesInv, NEW k \in Call, Steps(k) PROVE WritesInv'
<1>1. ASSUME NEW pc, NEW reply, NEW token, Comes(k, pc, reply, token), pc \notin WritePCs,
             calls[k].pc \notin WritePCs, UNCHANGED writes
      PROVE  WritesInv'
  BY <1>1, WritesUntouched DEF Comes, Same
<1>2. CASE Refreshed(k)
  <2>1. Comes(k, "storing", "none", calls[k].token)
    BY <1>2, Effects DEF Refreshed
  <2>2. writes' = Append(writes, k) /\ calls[k].pc = "refreshing"
    BY <1>2 DEF Refreshed, SetSession, Answered
  <2> QED BY <2>1, <2>2, WritesAppended DEF WritePCs
<1>3. CASE UserStored(k) /\ calls[k].kind = "signin"
  <2>1. Comes(k, "session", "none", calls[k].token)
    BY <1>3, Effects DEF UserStored
  <2>2. writes' = Append(writes, k) /\ calls[k].pc = "user"
    BY <1>3 DEF UserStored, SetSession
  <2>3. \A j \in Call \ {k} : calls[j].token.sid # calls[k].token.sid
    <3>1. k \in Fresh
      BY <1>3, <2>2 DEF Fresh
    <3> QED BY <3>1 DEF FreshInv, Unused
  <2> QED BY <2>1, <2>2, <2>3, WritesAppended DEF WritePCs
<1>4. CASE SessionStored(k)
  <2>1. Comes(k, "retrying", "none", session)
    BY <1>4, Effects DEF SessionStored
  <2>2. writes # <<>> /\ Head(writes) = k /\ writes' = Tail(writes)
    BY <1>4 DEF SessionStored, Written
  <2> QED BY <2>1, <2>2, WritesDone DEF Comes, WritePCs
<1>5. CASE NewSessionStored(k)
  <2>1. (\A j \in Call \ {k} : Same(j)) /\ calls'[k].pc = "idle"
    BY <1>5 DEF NewSessionStored, Same, Typed, Record, Idle
  <2>2. writes # <<>> /\ Head(writes) = k /\ writes' = Tail(writes)
    BY <1>5 DEF NewSessionStored, Written
  <2> QED BY <2>1, <2>2, WritesDone DEF WritePCs
<1>6. CASE UNCHANGED writes /\ calls[k].pc \notin WritePCs /\ Over(k)
  BY <1>1, <1>6, Effects DEF WritePCs
<1>7. CASE UNCHANGED writes /\ calls[k].pc \notin WritePCs /\ Sends(k, "refreshing", session)
  BY <1>1, <1>7, Effects DEF WritePCs
<1>8. CASE /\ UNCHANGED writes /\ calls[k].pc \notin WritePCs
           /\ \E pc \in {"rootkey", "user", "signing"} : Goto(k, pc)
  BY <1>1, <1>8, Effects DEF WritePCs
<1>9. CASE Receive(k)
  <2>1. UNCHANGED writes /\ calls[k].pc \notin WritePCs
    BY <1>9 DEF Receive, Observed, client, Answered, WritePCs
  <2> QED BY <1>6, <1>7, <1>8, <1>9, <2>1 DEF Receive
<1>10. CASE Retried(k)
  <2>1. UNCHANGED writes /\ calls[k].pc \notin WritePCs
    BY <1>10 DEF Retried, client, Answered, WritePCs
  <2> QED BY <1>6, <1>8, <1>10, <2>1 DEF Retried
<1>11. CASE NotRefreshed(k)
  BY <1>6, <1>11 DEF NotRefreshed, Observed, Answered, WritePCs
<1>12. CASE ParamsRetrieved(k)
  <2>1. UNCHANGED writes /\ calls[k].pc \notin WritePCs
    BY <1>12 DEF ParamsRetrieved, client, Answered, WritePCs
  <2> QED BY <1>6, <1>8, <1>12, <2>1 DEF ParamsRetrieved
<1>13. CASE SignInAnswered(k)
  <2>1. UNCHANGED writes /\ calls[k].pc \notin WritePCs
    BY <1>13 DEF SignInAnswered, client, Answered, WritePCs
  <2> QED BY <1>6, <1>8, <1>13, <2>1 DEF SignInAnswered
<1>14. CASE RootKeyStored(k)
  BY <1>8, <1>14 DEF RootKeyStored, client, WritePCs
<1>15. CASE UserStored(k) /\ calls[k].kind # "signin"
  BY <1>6, <1>15 DEF UserStored, WritePCs
<1> QED BY <1>2, <1>3, <1>4, <1>5, <1>9, <1>10, <1>11, <1>12, <1>13, <1>14, <1>15 DEF Steps

LEMMA NextWrites == OneInv /\ FreshInv /\ WritesInv /\ [Next]_vars => WritesInv'
<1> SUFFICES ASSUME OneInv, FreshInv, WritesInv, [Next]_vars PROVE WritesInv'
  OBVIOUS
<1>1. Typed
  BY DEF OneInv
<1>2. ASSUME UNCHANGED writes, \A j \in Call : Same(j) PROVE WritesInv'
  BY <1>2, WritesUntouched DEF Same
<1>3. CASE Restart
  BY <1>3 DEF Restart, WritesInv, At, Idle
<1>4. CASE CancelRenewal
  <2>1. \A j \in Call : Same(j)
    BY <1>1, <1>4 DEF CancelRenewal, Same, Typed, Record
  <2> QED BY <1>2, <1>4, <2>1 DEF CancelRenewal
<1>5. CASE \E s \in Sid : Expire(s) \/ \E status \in {"over", "revoked"} : End(s, status)
  BY <1>2, <1>5 DEF Expire, End, client, Same
<1>6. ASSUME NEW k \in Call, Serve(k) \/ Lose(k) PROVE WritesInv'
  <2>1. /\ UNCHANGED writes
        /\ calls[k].pc \notin WritePCs
    BY <1>6 DEF Serve, Lose, Awaited, client, WritePCs
  <2>2. (\A j \in Call \ {k} : Same(j)) /\ calls'[k].pc = calls[k].pc
    BY <1>1, <1>6, AnswersCome DEF Comes
  <2> QED BY <2>1, <2>2, WritesUntouched DEF Same
<1>7. ASSUME NEW k \in Call, Starts(k) PROVE WritesInv'
  <2>1. PICK r : /\ calls' = [calls EXCEPT ![k] = r]
                 /\ \/ r.pc = "sent" /\ r.kind # "signin" /\ r.token = session
                    \/ r.pc = "params" /\ r.kind = "signin" /\ r.token = First
    BY <1>7, Starting
  <2>2. Comes(k, r.pc, r.reply, r.token) /\ r.pc \notin WritePCs
    BY <1>1, <2>1, Effects DEF WritePCs
  <2>3. UNCHANGED writes /\ calls[k].pc \notin WritePCs
    BY <1>7 DEF Starts, Request, ChangePassword, SubmitCredentials, Begin, client, Idle, WritePCs
  <2> QED BY <2>2, <2>3, WritesUntouched DEF Comes, Same
<1>8. CASE UNCHANGED vars
  BY <1>2, <1>8 DEF vars, client, Same
<1> QED BY <1>1, <1>3, <1>4, <1>5, <1>6, <1>7, <1>8, StepsWrites DEF Next, Surroundings

-------------------------------------------------------------------------------
(***************************************************************************)
(* The newest tokens.                                                      *)
(***************************************************************************)
LEMMA InitNewest == Init => NewestInv
<1> SUFFICES ASSUME Init PROVE NewestInv
  OBVIOUS
<1>1. Pending = {} /\ At({"session"}) = {}
  BY DEF Init, Pending, Replaced, At, Idle
<1>2. First.sid \in Sid /\ First.gen = 0
  BY BoundAssumption DEF First, Sid
<1> QED BY <1>1, <1>2 DEF Init, NewestInv, Covered, Newest

\* A token stays covered while its session is not refreshed and those who bring its
\* replacement go on doing so.
LEMMA CoveredStays ==
  ASSUME unknown \subseteq unknown', NEW t, t.sid \in Sid,
         server'[t.sid].gen = server[t.sid].gen,
         NEW K \in SUBSET Call, NEW L \in SUBSET Call,
         \A j \in K : \/ calls[j].token.sid \in unknown'
                      \/ j \in L /\ calls'[j].token = calls[j].token,
         Covered(t, K)
  PROVE  Newest(t)' \/ \E j \in L : calls'[j].token.sid = t.sid
<1>1. CASE Newest(t)
  BY <1>1 DEF Newest
<1>2. ASSUME NEW j \in K, calls[j].token.sid = t.sid
      PROVE  Newest(t)' \/ \E i \in L : calls'[i].token.sid = t.sid
  BY <1>2 DEF Newest
<1> QED BY <1>1, <1>2 DEF Covered

\* Of the steps that neither refresh a session nor set or store a token.
LEMMA NewestKept ==
  ASSUME Typed, NewestInv, unknown \subseteq unknown', UNCHANGED <<session, disk>>,
         \A s \in Sid : server'[s].gen = server[s].gen,
         \A j \in Pending' : j \in Pending /\ calls'[j].token = calls[j].token,
         \A j \in Replaced : \/ calls[j].token.sid \in unknown'
                             \/ j \in Replaced' /\ calls'[j].token = calls[j].token,
         \A j \in At({"storing"}) : \/ calls[j].token.sid \in unknown'
                                    \/ j \in At({"storing"})' /\ calls'[j].token = calls[j].token,
         \A j \in At({"session"})' : j \in At({"session"}) /\ calls'[j].token = calls[j].token
  PROVE  NewestInv'
<1>0. \A j \in Call : calls[j].token \in Token /\ calls[j].token.sid \in Sid
  BY DEF Typed, Record, Token
<1>1. /\ session.sid \in Sid /\ disk.sid \in Sid
      /\ Replaced \subseteq Call /\ Replaced' \subseteq Call
      /\ Pending \subseteq Call /\ Pending' \subseteq Call
  BY DEF Typed, Token, Replaced, Pending, At
<1>2. \A j \in Pending : \/ calls[j].token.sid \in unknown'
                         \/ j \in Pending' /\ calls'[j].token = calls[j].token
  BY DEF Pending
<1>3. \A j \in Pending' : Newest(Replacement(calls[j].token))'
  <2> SUFFICES ASSUME NEW j \in Pending' PROVE Newest(Replacement(calls[j].token))'
    OBVIOUS
  <2>1. j \in Call /\ Newest(Replacement(calls[j].token)) /\ calls'[j].token = calls[j].token
    BY <1>1 DEF NewestInv
  <2>2. Replacement(calls[j].token).sid \in Sid
    BY <1>0, <2>1 DEF Replacement, Token
  <2> QED BY <2>1, <2>2 DEF Newest, Replacement
<1>4. Covered(session, Replaced)'
  BY ZenonT(30), <1>1, CoveredStays DEF NewestInv, Covered
<1>5. Covered(disk, Pending)'
  BY ZenonT(30), <1>1, <1>2, CoveredStays DEF NewestInv, Covered
<1>6. \A j \in At({"session"})' : Covered(calls[j].token, Pending)'
  <2> SUFFICES ASSUME NEW j \in At({"session"})' PROVE Covered(calls[j].token, Pending)'
    OBVIOUS
  <2>1. /\ j \in Call /\ Covered(calls[j].token, Pending) /\ calls'[j].token = calls[j].token
        /\ calls[j].token.sid \in Sid
    BY <1>0 DEF NewestInv, At
  <2> QED BY <1>1, <1>2, <2>1, CoveredStays DEF Covered, Newest
<1> QED BY <1>3, <1>4, <1>5, <1>6 DEF NewestInv

\* Of them, those of a call k that neither had nor gets a token to be stored.
LEMMA ComesNewest ==
  ASSUME Typed, NewestInv, unknown \subseteq unknown', UNCHANGED <<session, disk>>,
         \A s \in Sid : server'[s].gen = server[s].gen,
         NEW k \in Call, NEW pc, NEW reply, NEW token, Comes(k, pc, reply, token),
         calls[k].pc \notin WritePCs, pc \notin WritePCs,
         k \in Replaced => calls[k].token.sid \in unknown',
         pc = "refreshing" => reply # "ok"
  PROVE  NewestInv'
<1>1. /\ \A j \in Call \ {k} : /\ j \in Replaced' <=> j \in Replaced
                               /\ j \in At({"storing"})' <=> j \in At({"storing"})
                               /\ j \in At({"session"})' <=> j \in At({"session"})
                               /\ calls'[j].token = calls[j].token
      /\ k \notin Replaced' /\ k \notin At({"storing"})' /\ k \notin At({"session"})'
      /\ k \notin At({"storing"})
  BY DEF Comes, Same, Replaced, At, WritePCs
<1>2. \A j : (j \in Replaced \/ j \in At({"storing"}) \/ j \in Replaced' \/ j \in At({"storing"})'
                \/ j \in At({"session"})') => j \in Call
  BY DEF Replaced, At
<1> QED BY <1>1, <1>2, NewestKept DEF Pending

\* One call at a time has a token replaced.
LEMMA OnePending ==
  ASSUME OneInv, NEW k \in Call, calls[k].pc \in RefreshPCs
  PROVE  \A j \in Call : j # k => j \notin Pending /\ j \notin Replaced /\ j \notin At({"storing"})
<1>1. At(RefreshPCs) = {k}
  BY DEF OneInv, FlagOf, At
<1> QED BY <1>1 DEF At, Pending, Replaced, RefreshPCs

\* The server replaces the token of call k.
LEMMA ServeNewest ==
  ASSUME OneInv, ServerTyped, NewestInv, NEW k \in Call, Serve(k)
  PROVE  NewestInv'
<1>0. Typed /\ UNCHANGED <<session, disk, unknown>> /\ calls[k].reply = "none"
  BY DEF OneInv, Serve, client, Awaited
<1>1. PICK r, token : Comes(k, calls[k].pc, r, token) /\ calls'[k].kind = calls[k].kind
  BY <1>0, AnswersCome
<1>2. calls[k].pc \notin WritePCs /\ k \notin Replaced
  BY <1>0 DEF Serve, Awaited, WritePCs, Replaced
<1>3. CASE UNCHANGED server /\ (calls[k].pc = "refreshing" => r # "ok")
  BY <1>0, <1>1, <1>2, <1>3, ComesNewest
<1>4. CASE UNCHANGED server /\ calls[k].pc = "refreshing"
  <2>1. CASE ~Refreshes(calls[k].token)
    <3>1. PICK q \in {"revoked", "invalid"} : calls' = [calls EXCEPT ![k].reply = q]
      BY <1>4, <2>1 DEF Serve
    <3>2. Comes(k, calls[k].pc, q, calls[k].token)
      BY <1>0, <3>1, Effects
    <3> QED BY <1>0, <1>2, <1>4, <3>2, ComesNewest
  <2>2. CASE Refreshes(calls[k].token)
    <3> DEFINE s == calls[k].token.sid
    <3>1. server' = [server EXCEPT ![s].gen = @ + 1, ![s].expired = FALSE]
      BY <1>4, <2>2 DEF Serve
    <3>2. s \in Sid
      BY <1>0 DEF Typed, Record, Token
    <3>3. server'[s].gen = server[s].gen + 1 /\ server[s].gen \in Nat
      BY <3>1, <3>2 DEF ServerTyped
    <3> QED BY <1>4, <3>3
  <2> QED BY <2>1, <2>2
<1>5. CASE /\ calls[k].pc = "refreshing"
           /\ calls' = [calls EXCEPT ![k].reply = "ok"]
           /\ server[calls[k].token.sid].gen = calls[k].token.gen
           /\ server'[calls[k].token.sid].gen = server[calls[k].token.sid].gen + 1
           /\ \A s \in Sid \ {calls[k].token.sid} : server'[s].gen = server[s].gen
  <2> DEFINE sid == calls[k].token.sid
  <2>1. Comes(k, "refreshing", "ok", calls[k].token)
    BY <1>0, <1>5, Effects
  <2>2. \A j \in Call : calls'[j].token = calls[j].token /\ calls'[j].pc = calls[j].pc
    BY <1>5, <2>1 DEF Comes, Same
  <2>3. Pending = {} /\ Replaced = {}
    <3>1. \A j \in Call : j # k => j \notin Pending /\ j \notin Replaced
      BY <1>5, OnePending DEF RefreshPCs
    <3>2. k \notin Pending /\ k \notin Replaced
      BY <1>2, <1>5 DEF Pending, At
    <3>3. Pending \subseteq Call /\ Replaced \subseteq Call
      BY DEF Pending, Replaced, At
    <3> QED BY <3>1, <3>2, <3>3
  <2>4. Replaced' = {k} /\ Pending' = {k}
    <3>1. \A j \in Call : j # k => j \notin Pending' /\ j \notin Replaced'
      <4> SUFFICES ASSUME NEW j \in Call, j # k PROVE j \notin Pending' /\ j \notin Replaced'
        OBVIOUS
      <4>1. j \notin Pending /\ j \notin Replaced /\ Same(j)
        BY <2>1, <2>3 DEF Comes
      <4> QED BY <4>1 DEF Pending, Replaced, At, Same
    <3>2. k \in Replaced' /\ k \in Pending'
      BY <2>1 DEF Comes, Replaced, Pending
    <3>3. Pending' \subseteq Call /\ Replaced' \subseteq Call
      BY DEF Pending, Replaced, At
    <3> QED BY <3>1, <3>2, <3>3
  <2>5. ASSUME NEW t, t.sid \in Sid, Newest(t) PROVE Newest(t)' \/ calls'[k].token.sid = t.sid
    BY <1>0, <1>5, <2>2, <2>5 DEF Newest
  <2>6. Newest(Replacement(calls[k].token))'
    <3>1. Replacement(calls[k].token).sid = sid
          /\ Replacement(calls[k].token).gen = calls[k].token.gen + 1
      BY <1>0 DEF Replacement, Typed, Record, Token
    <3>2. calls'[k].token = calls[k].token
      BY <2>2
    <3>3. Replacement(calls[k].token)' = Replacement(calls[k].token)
      BY <3>2 DEF Replacement
    <3> QED BY <1>5, <3>1, <3>3 DEF Newest
  <2>7. session.sid \in Sid /\ disk.sid \in Sid /\ \A j \in Call : calls[j].token.sid \in Sid
    BY <1>0 DEF Typed, Record, Token
  <2>8. Covered(session, Replaced)' /\ Covered(disk, Pending)'
    <3>1. Newest(session) /\ Newest(disk)
      BY <2>3 DEF NewestInv, Covered
    <3>2. Newest(session)' \/ calls'[k].token.sid = session.sid
      BY <1>0, <2>5, <2>7, <3>1 DEF Newest
    <3>3. Newest(disk)' \/ calls'[k].token.sid = disk.sid
      BY <1>0, <2>5, <2>7, <3>1 DEF Newest
    <3> QED BY <1>0, <2>4, <3>2, <3>3 DEF Covered
  <2>9. ASSUME NEW j \in At({"session"})' PROVE Covered(calls[j].token, Pending)'
    <3>1. j \in Call /\ j \in At({"session"}) /\ calls'[j].token = calls[j].token
      BY <2>2 DEF At
    <3>2. Newest(calls[j].token)
      BY <2>3, <3>1 DEF NewestInv, Covered
    <3>3. Newest(calls[j].token)' \/ calls'[k].token.sid = calls'[j].token.sid
      BY <2>5, <2>7, <3>1, <3>2 DEF Newest
    <3> QED BY <2>4, <3>3 DEF Covered
  <2>10. \A j \in Pending' : Newest(Replacement(calls[j].token))'
    BY <2>4, <2>6
  <2> QED BY <2>8, <2>9, <2>10 DEF NewestInv
<1> QED BY <1>3, <1>4, <1>5, <1>0, ServeServer

\* The new session is in memory, its storing awaited.
LEMMA RefreshedNewest ==
  ASSUME OneInv, NewestInv, NEW k \in Call, Refreshed(k)
  PROVE  NewestInv'
<1>0. Typed /\ UNCHANGED <<server, disk, unknown>>
  BY DEF OneInv, Refreshed
<1>1. Comes(k, "storing", "none", calls[k].token)
  BY <1>0, Effects DEF Refreshed
<1>2. k \in Replaced /\ calls[k].pc = "refreshing" /\ session' = Replacement(calls[k].token)
  BY DEF Refreshed, Answered, Replaced, SetSession, Replacement
<1>3. \A j \in Call : calls'[j].token = calls[j].token
  BY <1>1 DEF Comes, Same
<1>4. \A j \in Call : /\ j \in Pending' <=> j \in Pending
                      /\ j \in At({"session"})' <=> j \in At({"session"})
  BY <1>1, <1>2 DEF Comes, Same, Pending, Replaced, At
<1>5. Pending' = Pending /\ Pending \subseteq Call
  BY <1>4 DEF Pending, Replaced, At
<1>6. \A t, K : K \subseteq Call /\ Covered(t, K) =>
        Newest(t) \/ \E j \in K : calls'[j].token.sid = t.sid
  BY <1>3 DEF Covered
<1>7. ASSUME NEW j \in Call PROVE Newest(Replacement(calls[j].token))' <=> Newest(Replacement(calls[j].token))
  BY <1>0, <1>3 DEF Newest, Replacement
<1>8. Newest(session)'
  <2>1. Newest(Replacement(calls[k].token))
    BY <1>2 DEF NewestInv, Pending
  <2> QED BY <1>0, <1>2, <2>1 DEF Newest
<1>9. Covered(disk, Pending)'
  BY <1>0, <1>5, <1>6 DEF NewestInv, Covered, Newest
<1>10. ASSUME NEW j \in At({"session"})' PROVE Covered(calls[j].token, Pending)'
  <2>1. j \in Call /\ j \in At({"session"}) /\ calls'[j].token = calls[j].token
    BY <1>3, <1>4 DEF At
  <2>2. Newest(calls[j].token) \/ \E i \in Pending : calls'[i].token.sid = calls[j].token.sid
    BY <1>5, <1>6, <2>1 DEF NewestInv
  <2> QED BY <1>0, <1>5, <2>1, <2>2 DEF Covered, Newest
<1> QED BY <1>5, <1>7, <1>8, <1>9, <1>10 DEF NewestInv, Covered

\* It is stored: no session that is to be written before it is its own.
LEMMA StoredNewest ==
  ASSUME OneInv, NewestInv, WritesInv, NEW k \in Call, SessionStored(k)
  PROVE  NewestInv'
<1>0. Typed /\ UNCHANGED <<server, session, unknown>>
  BY DEF OneInv, SessionStored
<1>1. Comes(k, "retrying", "none", session)
  BY <1>0, Effects DEF SessionStored
<1>2. /\ calls[k].pc = "storing" /\ disk' = Replacement(calls[k].token)
      /\ writes # <<>> /\ Head(writes) = k
  BY DEF SessionStored, Written, Replacement
<1>3. \A j \in Call : j # k => j \notin Pending /\ j \notin Replaced
  BY <1>2, OnePending DEF RefreshPCs
<1>4. k \in Pending /\ k \notin Replaced
  BY <1>2 DEF Pending, Replaced, At
<1>5. Replaced = {} /\ Pending = {k}
  BY <1>3, <1>4 DEF Replaced, Pending, At
<1>6. \A j \in Call : j \notin Pending' /\ j \notin Replaced'
  <2> SUFFICES ASSUME NEW j \in Call PROVE j \notin Pending' /\ j \notin Replaced'
    OBVIOUS
  <2>1. CASE j = k
    BY <1>1, <2>1 DEF Comes, Pending, Replaced, At
  <2>2. CASE j # k
    BY <1>1, <1>3, <2>2 DEF Comes, Same, Pending, Replaced, At
  <2> QED BY <2>1, <2>2
<1>7. Replaced' = {} /\ Pending' = {}
  BY <1>6 DEF Replaced, Pending, At
<1>8. Newest(session)'
  BY <1>0, <1>5 DEF NewestInv, Covered, Newest
<1>9. Newest(disk)'
  <2>1. Newest(Replacement(calls[k].token))
    BY <1>4 DEF NewestInv
  <2> QED BY <1>0, <1>2, <2>1 DEF Newest
<1>10. ASSUME NEW j \in At({"session"})' PROVE Newest(calls[j].token)'
  <2>1. j \in Call \ {k} /\ j \in At({"session"}) /\ calls'[j].token = calls[j].token
    BY <1>1 DEF At, Comes, Same
  <2>2. calls[j].token.sid # calls[k].token.sid
    <3>1. PICK b \in 1 .. Len(writes) : writes[b] = j
      BY <2>1 DEF WritesInv, At
    <3>2. writes[1] = k /\ 1 \in 1 .. Len(writes) /\ b # 1
      BY <1>2, <2>1, <3>1 DEF WritesInv
    <3>3. calls[writes[1]].pc = "storing" /\ calls[writes[b]].pc = "session" /\ 1 < b
      BY <1>2, <2>1, <3>1, <3>2 DEF At
    <3>4. calls[writes[1]].token.sid # calls[writes[b]].token.sid
      BY <3>1, <3>2, <3>3 DEF WritesInv
    <3> QED BY <3>1, <3>2, <3>4
  <2>3. Newest(calls[j].token)
    BY <1>5, <2>1, <2>2 DEF NewestInv, Covered
  <2> QED BY <1>0, <2>1, <2>3 DEF Newest
<1> QED BY <1>7, <1>8, <1>9, <1>10 DEF NewestInv, Covered

\* The steps of a sign-in that set and store its session.
LEMMA SignedInNewest ==
  ASSUME OneInv, FreshInv, NewestInv, NEW k \in Call,
         (UserStored(k) /\ calls[k].kind = "signin") \/ NewSessionStored(k)
  PROVE  NewestInv'
<1>0. Typed /\ UNCHANGED <<server, unknown>>
  BY DEF OneInv, UserStored, NewSessionStored
<1>1. /\ \A j \in Call \ {k} : Same(j)
      /\ calls[k].pc \in {"user", "session"}
      /\ \/ /\ calls'[k].pc = "session" /\ calls'[k].token = calls[k].token
            /\ session' = calls[k].token /\ UNCHANGED disk /\ Newest(calls[k].token)
         \/ /\ calls'[k].pc = "idle" /\ calls[k].pc = "session"
            /\ disk' = calls[k].token /\ UNCHANGED session
  <2>1. CASE UserStored(k) /\ calls[k].kind = "signin"
    <3>1. Comes(k, "session", "none", calls[k].token)
      BY <1>0, <2>1, Effects DEF UserStored
    <3>2. k \in Fresh
      BY <2>1 DEF UserStored, Fresh
    <3>3. Newest(calls[k].token)
      BY <3>2 DEF FreshInv, Unused, Newest
    <3>4. session' = calls[k].token /\ UNCHANGED disk /\ calls[k].pc = "user"
      BY <2>1 DEF UserStored, SetSession
    <3> QED BY <3>1, <3>3, <3>4 DEF Comes
  <2>2. CASE NewSessionStored(k)
    BY <1>0, <2>2 DEF NewSessionStored, Written, Same, Typed, Record, Idle
  <2> QED BY <2>1, <2>2
<1>2. \A j \in Call : /\ j \in Pending' <=> j \in Pending
                      /\ j \in Replaced' <=> j \in Replaced
                      /\ j \in Pending => j # k
  BY <1>1 DEF Same, Pending, Replaced, At
<1>3. Pending' = Pending /\ Replaced' = Replaced /\ Pending \subseteq Call /\ Replaced \subseteq Pending
  BY <1>2 DEF Pending, Replaced, At
<1>4. \A j \in Pending : calls'[j].token = calls[j].token
  BY <1>1, <1>2, <1>3 DEF Same
<1>5. \A t, K : K \subseteq Pending /\ Covered(t, K) =>
        Newest(t) \/ \E j \in K : calls'[j].token.sid = t.sid
  BY <1>4 DEF Covered
<1>6. \A j \in Pending' : Newest(Replacement(calls[j].token))'
  BY <1>0, <1>3, <1>4 DEF NewestInv, Newest, Replacement
<1>7. Covered(session, Replaced)'
  <2>1. CASE session' = calls[k].token /\ Newest(calls[k].token)
    BY <1>0, <2>1 DEF Covered, Newest
  <2>2. CASE UNCHANGED session
    <3>1. Newest(session) \/ \E j \in Replaced : calls'[j].token.sid = session.sid
      BY <1>3, <1>5 DEF NewestInv
    <3> QED BY <1>0, <1>3, <2>2, <3>1 DEF Covered, Newest
  <2> QED BY <1>1, <2>1, <2>2
<1>8. Covered(disk, Pending)'
  <2>1. PICK t \in {disk, calls[k].token} : disk' = t /\ Covered(t, Pending)
    BY <1>1 DEF NewestInv, At
  <2>2. Newest(t) \/ \E j \in Pending : calls'[j].token.sid = t.sid
    BY <1>3, <1>5, <2>1
  <2> QED BY <1>0, <1>3, <2>1, <2>2 DEF Covered, Newest
<1>9. ASSUME NEW j \in At({"session"})' PROVE Covered(calls[j].token, Pending)'
  <2>1. CASE j = k
    BY <1>0, <1>1, <1>9, <2>1 DEF Covered, Newest, At
  <2>2. CASE j # k
    <3>1. j \in Call /\ j \in At({"session"}) /\ calls'[j].token = calls[j].token
      BY <1>1, <2>2 DEF Same, At
    <3>2. Newest(calls[j].token) \/ \E i \in Pending : calls'[i].token.sid = calls[j].token.sid
      BY <1>3, <1>5, <3>1 DEF NewestInv
    <3> QED BY <1>0, <1>3, <3>1, <3>2 DEF Covered, Newest
  <2> QED BY <2>1, <2>2
<1> QED BY <1>6, <1>7, <1>8, <1>9 DEF NewestInv

LEMMA StepsNewest ==
  ASSUME OneInv, FreshInv, WritesInv, NewestInv, NEW k \in Call, Steps(k) PROVE NewestInv'
<1>0. Typed /\ UNCHANGED <<server, unknown>>
  BY DEF OneInv, Steps, Receive, Refreshed, NotRefreshed, SessionStored, Retried, ParamsRetrieved,
         SignInAnswered, RootKeyStored, UserStored, NewSessionStored
<1>1. ASSUME UNCHANGED <<session, disk>>, calls[k].pc \notin WritePCs, k \notin Replaced,
             Over(k) \/ Sends(k, "refreshing", session)
               \/ \E pc \in {"rootkey", "user", "signing"} : Goto(k, pc)
      PROVE  NewestInv'
  <2>1. \E pc, token : Comes(k, pc, "none", token) /\ pc \notin WritePCs
    <3>1. CASE Over(k)
      BY <1>0, <3>1, Effects DEF WritePCs
    <3>2. CASE Sends(k, "refreshing", session)
      BY <1>0, <3>2, Effects DEF WritePCs
    <3>3. ASSUME NEW pc \in {"rootkey", "user", "signing"}, Goto(k, pc)
          PROVE  \E to, token : Comes(k, to, "none", token) /\ to \notin WritePCs
      BY <1>0, <3>3, Effects DEF WritePCs
    <3> QED BY <1>1, <3>1, <3>2, <3>3
  <2> QED BY <1>0, <1>1, <2>1, ComesNewest
<1>2. CASE Receive(k)
  <2>1. UNCHANGED <<session, disk>> /\ calls[k].pc = "sent"
    BY <1>2 DEF Receive, Observed, client, Answered
  <2> QED BY <1>1, <1>2, <2>1 DEF Receive, WritePCs, Replaced
<1>3. CASE Retried(k)
  <2>1. UNCHANGED <<session, disk>> /\ calls[k].pc = "retrying"
    BY <1>3 DEF Retried, client, Answered
  <2> QED BY <1>1, <1>3, <2>1 DEF Retried, WritePCs, Replaced
<1>4. CASE NotRefreshed(k)
  BY <1>1, <1>4 DEF NotRefreshed, Observed, Answered, WritePCs, Replaced
<1>5. CASE ParamsRetrieved(k)
  <2>1. UNCHANGED <<session, disk>> /\ calls[k].pc = "params"
    BY <1>5 DEF ParamsRetrieved, client, Answered
  <2> QED BY <1>1, <1>5, <2>1 DEF ParamsRetrieved, WritePCs, Replaced
<1>6. CASE SignInAnswered(k)
  <2>1. UNCHANGED <<session, disk>> /\ calls[k].pc = "signing"
    BY <1>6 DEF SignInAnswered, client, Answered
  <2> QED BY <1>1, <1>6, <2>1 DEF SignInAnswered, WritePCs, Replaced
<1>7. CASE RootKeyStored(k)
  BY <1>1, <1>7 DEF RootKeyStored, client, WritePCs, Replaced
<1>8. CASE UserStored(k) /\ calls[k].kind # "signin"
  BY <1>1, <1>8 DEF UserStored, WritePCs, Replaced
<1> QED BY <1>2, <1>3, <1>4, <1>5, <1>6, <1>7, <1>8, RefreshedNewest, StoredNewest, SignedInNewest
        DEF Steps

\* The application ends: what was not stored is not known.
LEMMA RestartNewest ==
  ASSUME Typed, NewestInv, Restart PROVE NewestInv'
<1>1. /\ UNCHANGED <<server, disk>> /\ session' = disk
      /\ calls' = [k \in Call |-> Idle]
      /\ unknown' = unknown \union {calls[k].token.sid : k \in At({"refreshing", "storing"})}
  BY DEF Restart
<1>2. Replaced' = {} /\ Pending' = {} /\ At({"session"})' = {}
  BY <1>1 DEF Replaced, Pending, At, Idle
<1>3. Pending \subseteq At({"refreshing", "storing"})
  BY DEF Pending, Replaced, At
<1>4. Newest(disk)'
  BY <1>1, <1>3 DEF NewestInv, Covered, Newest
<1> QED BY <1>1, <1>2, <1>4 DEF NewestInv, Covered, Newest

LEMMA NextNewest ==
  OneInv /\ ServerTyped /\ FreshInv /\ WritesInv /\ NewestInv /\ [Next]_vars => NewestInv'
<1> SUFFICES ASSUME OneInv, ServerTyped, FreshInv, WritesInv, NewestInv, [Next]_vars PROVE NewestInv'
  OBVIOUS
<1>1. Typed
  BY DEF OneInv
<1>2. ASSUME UNCHANGED <<session, disk, unknown>>, \A s \in Sid : server'[s].gen = server[s].gen,
             \A j \in Call : Same(j)
      PROVE  NewestInv'
  <2>1. /\ Replaced' = Replaced /\ Pending' = Pending /\ At({"storing"})' = At({"storing"})
        /\ At({"session"})' = At({"session"})
    BY <1>2 DEF Replaced, Pending, At, Same
  <2>2. Pending \subseteq Call /\ Replaced \subseteq Call /\ At({"session"}) \subseteq Call
        /\ At({"storing"}) \subseteq Call
    BY DEF Replaced, Pending, At
  <2> QED BY <1>1, <1>2, <2>1, <2>2, NewestKept DEF Same
<1>3. CASE CancelRenewal
  <2>1. \A j \in Call : Same(j)
    BY <1>1, <1>3 DEF CancelRenewal, Same, Typed, Record
  <2> QED BY <1>2, <1>3, <2>1 DEF CancelRenewal
<1>4. CASE \E s \in Sid : Expire(s) \/ \E status \in {"over", "revoked"} : End(s, status)
  <2>1. \A s \in Sid : server'[s].gen = server[s].gen
    BY <1>4, TroubleServer
  <2>2. UNCHANGED <<session, disk, calls, unknown>>
    BY <1>4 DEF Expire, End, client
  <2> QED BY <1>2, <2>1, <2>2 DEF Same
<1>5. ASSUME NEW k \in Call, Lose(k) PROVE NewestInv'
  <2>1. Comes(k, calls[k].pc, "lost", calls[k].token)
    BY <1>1, <1>5, Effects DEF Lose
  <2>2. /\ UNCHANGED <<server, session, disk>> /\ unknown \subseteq unknown'
        /\ k \in Replaced => calls[k].token.sid \in unknown'
        /\ calls[k].pc \notin WritePCs
    BY <1>5 DEF Lose, client, Replaced, WritePCs
  <2> QED BY <1>1, <2>1, <2>2, ComesNewest
<1>6. ASSUME NEW k \in Call, Starts(k) PROVE NewestInv'
  <2>1. PICK r : /\ calls' = [calls EXCEPT ![k] = r]
                 /\ \/ r.pc = "sent" /\ r.kind # "signin" /\ r.token = session
                    \/ r.pc = "params" /\ r.kind = "signin" /\ r.token = First
    BY <1>6, Starting
  <2>2. Comes(k, r.pc, r.reply, r.token) /\ r.pc \notin WritePCs /\ r.pc # "refreshing"
    BY <1>1, <2>1, Effects DEF WritePCs
  <2>3. UNCHANGED <<server, session, disk, unknown>> /\ calls[k].pc = "idle"
    BY <1>6 DEF Starts, Request, ChangePassword, SubmitCredentials, Begin, client, Idle
  <2> QED BY <1>1, <2>2, <2>3, ComesNewest DEF Replaced, WritePCs
<1>7. CASE UNCHANGED vars
  BY <1>2, <1>7 DEF vars, client, Same
<1> QED BY <1>1, <1>3, <1>4, <1>5, <1>6, <1>7, StepsNewest, ServeNewest, RestartNewest
        DEF Next, Surroundings

LEMMA NewestInvariant ==
  Spec => [](OneInv /\ ServerTyped /\ KindInv /\ FreshInv /\ WritesInv /\ NewestInv)
<1> DEFINE Inv == OneInv /\ ServerTyped /\ KindInv /\ FreshInv /\ WritesInv /\ NewestInv
<1>1. Init => Inv
  BY InitOne, InitServer, InitKind, InitFresh, InitWrites, InitNewest
<1>2. Inv /\ [Next]_vars => Inv'
  BY NextOne, NextServer, NextKind, NextFresh, NextWrites, NextNewest
<1> QED BY <1>1, <1>2, PTL DEF Spec

(***************************************************************************)
(* SessionIsNewest holds of every behaviour: unless a refresh is under     *)
(* way, the client has in memory and on the disk the newest token of its   *)
(* session, but for a refresh it never learnt the answer to, however       *)
(* refreshes, sign-ins, faults and restarts interleave.                    *)
(***************************************************************************)
THEOREM TheNewestSessionIsKept == Spec => []SessionIsNewest
<1>1. NewestInv => SessionIsNewest
  <2> SUFFICES ASSUME NewestInv, At({"refreshing", "storing"}) = {}
               PROVE  Newest(session) /\ Newest(disk)
    BY DEF SessionIsNewest, Newest
  <2>1. Pending = {} /\ Replaced = {}
    BY DEF Pending, Replaced, At
  <2> QED BY <2>1 DEF NewestInv, Covered
<1> QED BY <1>1, NewestInvariant, PTL
===============================================================================
