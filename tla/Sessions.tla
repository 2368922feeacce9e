-------------------------------- MODULE Sessions --------------------------------
(******************************************************************************)
(* The API service and the session manager: authenticated requests, the       *)
(* refresh of an expired access token, the renewal of an invalid session by   *)
(* signing in again, and changing the password.                               *)
(*                                                                            *)
(* A token stands for the pair of access and refresh token: the session it    *)
(* belongs to, and how often that was refreshed.  The server is external; it  *)
(* answers 498 to an expired token that may be refreshed, and 401 to one that *)
(* was superseded or whose session is over.                                   *)
(******************************************************************************)
EXTENDS Naturals, Sequences, FiniteSets

CONSTANTS
  Call,        \* the calls that may be under way at once
  Kinds,       \* the kinds of calls considered
  MaxSessions, \* bound: sessions the server creates
  MaxExpired,  \* bound: access tokens that expire
  MaxEnded,    \* bound: sessions that end on the server, revoked or not
  MaxLost,     \* bound: lost requests or responses
  MaxRestarts  \* bound: restarts of the application

Sid == 1..MaxSessions
Token == [sid : Sid, gen : Nat]
Reply == {"none", "ok", "expired", "invalid", "revoked", "lost"}
PC == {"idle", "sent", "refreshing", "storing", "retrying", "params", "signing",
       "rootkey", "user", "session"}

ASSUME KindAssumption == Kinds \subseteq {"request", "change", "signin"}
ASSUME BoundAssumption ==
  /\ MaxSessions \in Nat \ {0}
  /\ {MaxExpired, MaxEnded, MaxLost, MaxRestarts} \subseteq Nat

VARIABLES
  server,         \* the sessions: their generation, whether its token is expired, and
                  \* whether they are alive, over or revoked
  created,        \* how many of them exist
  session,        \* the session in memory
  disk,           \* the stored one
  writes,         \* the calls whose session is being stored, in order
  refreshing,     \* refreshingSession
  authenticating, \* authenticating
  changing,       \* changing
  presented,      \* isSessionRenewChallengePresented
  signedOut,      \* the application signed out, its session being revoked
  calls,          \* where each call is, the token it has sent, the answer to it, and, of
                  \* a sign-in, whether the challenge that asked for it is still there
  unknown,        \* history: the sessions whose newest token this client never stored
  left            \* what remains of the bounds

flags == <<refreshing, authenticating, changing>>
client == <<session, disk, writes, presented, signedOut>>
vars == <<server, created, client, flags, calls, unknown, left>>

At(pcs) == {k \in Call : calls[k].pc \in pcs}

First == [sid |-> 1, gen |-> 0]
Idle == [pc |-> "idle", kind |-> "request", token |-> First, reply |-> "none", asked |-> FALSE]

TypeOK ==
  /\ server \in [Sid -> [gen : Nat, expired : BOOLEAN, status : {"alive", "over", "revoked"}]]
  /\ created \in Sid
  /\ {session, disk} \subseteq Token /\ writes \in Seq(Call)
  /\ {refreshing, authenticating, changing, presented, signedOut} \subseteq BOOLEAN
  /\ calls \in [Call -> [pc : PC, kind : {"request", "change", "signin"}, token : Token,
                         reply : Reply, asked : BOOLEAN]]
  /\ unknown \subseteq Sid
  /\ left \in [{"expired", "ended", "lost", "restarts"} -> Nat]

Init ==
  /\ server = [s \in Sid |-> [gen |-> 0, expired |-> FALSE, status |-> "alive"]]
  /\ created = 1
  /\ session = First /\ disk = First /\ writes = <<>>
  /\ refreshing = FALSE /\ authenticating = FALSE /\ changing = FALSE
  /\ presented = FALSE /\ signedOut = FALSE
  /\ calls = [k \in Call |-> Idle]
  /\ unknown = {}
  /\ left = [expired |-> MaxExpired, ended |-> MaxEnded, lost |-> MaxLost,
             restarts |-> MaxRestarts]

Spend(kind) == left[kind] > 0 /\ left' = [left EXCEPT ![kind] = @ - 1]

Goto(k, pc) == calls' = [calls EXCEPT ![k].pc = pc, ![k].reply = "none"]
Sends(k, pc, token) ==
  calls' = [calls EXCEPT ![k].pc = pc, ![k].reply = "none", ![k].token = token]
Over(k) == calls' = [calls EXCEPT ![k] = Idle]

-------------------------------------------------------------------------------
(***************************************************************************)
(* The server and the network.                                             *)
(***************************************************************************)
Accepts(t) ==
  LET s == server[t.sid]
  IN IF s.status = "revoked" THEN "revoked"
     ELSE IF s.status = "over" \/ s.gen # t.gen THEN "invalid"
     ELSE IF s.expired THEN "expired" ELSE "ok"

Refreshes(t) == server[t.sid].status = "alive" /\ server[t.sid].gen = t.gen

Awaited(k) == calls[k].pc \in {"sent", "refreshing", "retrying", "params", "signing"}
              /\ calls[k].reply = "none"

\* An answer is on its way.  Refreshing replaces both tokens, signing in creates a session.
Serve(k) ==
  LET t == calls[k].token
      Replies(r) == calls' = [calls EXCEPT ![k].reply = r]
  IN /\ Awaited(k)
     /\ CASE calls[k].pc \in {"sent", "retrying"} ->
               Replies(Accepts(t)) /\ UNCHANGED <<server, created>>
          [] calls[k].pc = "refreshing" ->
               IF Refreshes(t)
               THEN /\ server' = [server EXCEPT ![t.sid].gen = @ + 1, ![t.sid].expired = FALSE]
                    /\ Replies("ok") /\ UNCHANGED created
               ELSE Replies(IF server[t.sid].status = "revoked" THEN "revoked" ELSE "invalid")
                    /\ UNCHANGED <<server, created>>
          [] calls[k].pc = "params" ->
               \E r \in {"ok", "invalid"} : Replies(r) /\ UNCHANGED <<server, created>>
          [] calls[k].pc = "signing" ->
               \/ /\ created < MaxSessions
                  /\ created' = created + 1
                  /\ calls' = [calls EXCEPT ![k].reply = "ok",
                                            ![k].token = [sid |-> created + 1, gen |-> 0]]
                  /\ UNCHANGED server
               \/ Replies("invalid") /\ UNCHANGED <<server, created>>
     /\ UNCHANGED <<client, flags, unknown, left>>

\* A request or the answer to it is lost.
Lose(k) ==
  /\ Spend("lost")
  /\ calls[k].pc \in {"sent", "refreshing", "retrying", "params", "signing"}
  /\ calls[k].reply # "lost"
  /\ calls' = [calls EXCEPT ![k].reply = "lost"]
  /\ unknown' = IF calls[k].pc = "refreshing" /\ calls[k].reply = "ok"
                THEN unknown \union {calls[k].token.sid} ELSE unknown
  /\ UNCHANGED <<server, created, client, flags>>

Expire(s) ==
  /\ Spend("expired")
  /\ s <= created
  /\ server' = [server EXCEPT ![s].expired = TRUE]
  /\ UNCHANGED <<created, client, flags, calls, unknown>>

End(s, status) ==
  /\ Spend("ended")
  /\ s <= created
  /\ server[s].status = "alive"
  /\ server' = [server EXCEPT ![s].status = status]
  /\ UNCHANGED <<created, client, flags, calls, unknown>>

-------------------------------------------------------------------------------
(***************************************************************************)
(* Authenticated requests.                                                 *)
(***************************************************************************)

\* preprocessingError.  Variant with a bug first: a refresh under way is not noticed.
NoPreprocessingError == FALSE
PreprocessingError == refreshing

Begin(k, kind) ==
  /\ kind \in Kinds
  /\ ~signedOut
  /\ calls[k] = Idle
  /\ ~PreprocessingError
  /\ calls' = [calls EXCEPT ![k] = [Idle EXCEPT !.pc = "sent", !.kind = kind, !.token = session]]

\* sync, getSessionsList, deleteSession, getItemRevisions, getRevision
Request(k) ==
  /\ Begin(k, "request")
  /\ UNCHANGED <<server, created, client, flags, unknown, left>>

ChangePassword(k) ==
  /\ ~changing
  /\ Begin(k, "change")
  /\ changing' = TRUE
  /\ UNCHANGED <<server, created, client, refreshing, authenticating, unknown, left>>

\* preprocessAuthenticatedErrorResponse and the session manager's observer.  Signing out
\* takes the application down.
Observed(reply) ==
  /\ presented' = (presented \/ reply = "invalid")
  /\ signedOut' = (reply = "revoked")
  /\ UNCHANGED <<session, disk, writes>>

EndsChange(k) == changing' = (changing /\ calls[k].kind # "change")

Answered(k, pcs) == ~signedOut /\ calls[k].pc \in pcs /\ calls[k].reply # "none"

\* The answer to a request.  changePassword does not tell of an invalid session.
Receive(k) ==
  LET reply == calls[k].reply
  IN /\ Answered(k, {"sent"})
     /\ IF calls[k].kind = "request" THEN Observed(reply) ELSE UNCHANGED client
     /\ \/ /\ reply = "expired"
           /\ ~PreprocessingError
           /\ refreshing' = TRUE
           /\ Sends(k, "refreshing", session)
           /\ UNCHANGED <<authenticating, changing>>
        \/ /\ reply = "expired" => PreprocessingError
           /\ ~(reply = "ok" /\ calls[k].kind = "change")
           /\ Over(k)
           /\ EndsChange(k)
           /\ UNCHANGED <<refreshing, authenticating>>
        \/ /\ reply = "ok" /\ calls[k].kind = "change"
           /\ Goto(k, "rootkey")
           /\ changing' = FALSE
           /\ UNCHANGED <<refreshing, authenticating>>
     /\ UNCHANGED <<server, created, unknown, left>>

\* refreshSession: the new session is set at once, its storing awaited.
SetSession(k, t) == session' = t /\ writes' = Append(writes, k)

Refreshed(k) ==
  /\ Answered(k, {"refreshing"})
  /\ calls[k].reply = "ok"
  /\ SetSession(k, [calls[k].token EXCEPT !.gen = @ + 1])
  /\ Goto(k, "storing")
  /\ UNCHANGED <<server, created, disk, presented, signedOut, flags, unknown, left>>

\* The catch of refreshSession.  Variant with a bug first: the flag stays set.
NotRefreshedStuck(k) ==
  /\ Answered(k, {"refreshing"})
  /\ calls[k].reply # "ok"
  /\ Observed(calls[k].reply)
  /\ Over(k)
  /\ EndsChange(k)
  /\ UNCHANGED <<server, created, refreshing, authenticating, unknown, left>>
NotRefreshed(k) ==
  /\ Answered(k, {"refreshing"})
  /\ calls[k].reply # "ok"
  /\ Observed(calls[k].reply)
  /\ refreshing' = FALSE
  /\ Over(k)
  /\ EndsChange(k)
  /\ UNCHANGED <<server, created, authenticating, unknown, left>>

\* setSession writes what it was given; writes complete in order.  Variant with a bug
\* first: nothing is written.
NotWritten(k, t) == writes # <<>> /\ Head(writes) = k /\ writes' = Tail(writes) /\ UNCHANGED disk
Written(k, t) ==
  /\ writes # <<>> /\ Head(writes) = k
  /\ writes' = Tail(writes)
  /\ disk' = t

\* Then the request is made again, with the session there is by now.
SessionStored(k) ==
  /\ ~signedOut
  /\ calls[k].pc = "storing"
  /\ Written(k, [calls[k].token EXCEPT !.gen = @ + 1])
  /\ refreshing' = FALSE
  /\ Sends(k, "retrying", session)
  /\ UNCHANGED <<server, created, session, presented, signedOut, authenticating, changing,
                 unknown, left>>

Retried(k) ==
  /\ Answered(k, {"retrying"})
  /\ IF calls[k].reply = "ok" /\ calls[k].kind = "change" THEN Goto(k, "rootkey") ELSE Over(k)
  /\ EndsChange(k)
  /\ UNCHANGED <<server, created, client, refreshing, authenticating, unknown, left>>

-------------------------------------------------------------------------------
(***************************************************************************)
(* The renewal: the user answers the challenge, and the session manager    *)
(* signs in, asking for the key parameters first.                          *)
(***************************************************************************)
SubmitCredentials(k) ==
  /\ "signin" \in Kinds
  /\ ~signedOut /\ presented
  /\ calls[k] = Idle
  /\ calls' = [calls EXCEPT ![k] = [Idle EXCEPT !.pc = "params", !.kind = "signin",
                                                !.asked = TRUE]]
  /\ UNCHANGED <<server, created, client, flags, unknown, left>>

CancelRenewal ==
  /\ ~signedOut /\ presented
  /\ presented' = FALSE
  /\ calls' = [k \in Call |-> [calls[k] EXCEPT !.asked = FALSE]]
  /\ UNCHANGED <<server, created, session, disk, writes, signedOut, flags, unknown, left>>

\* performSignIn, after the parameters; another sign-in may be under way.
ParamsRetrieved(k) ==
  /\ Answered(k, {"params"})
  /\ IF calls[k].reply = "ok" /\ ~authenticating
     THEN Goto(k, "signing") /\ authenticating' = TRUE
     ELSE Over(k) /\ UNCHANGED authenticating
  /\ UNCHANGED <<server, created, client, refreshing, changing, unknown, left>>

SignInAnswered(k) ==
  /\ Answered(k, {"signing"})
  /\ authenticating' = FALSE
  /\ IF calls[k].reply = "ok" THEN Goto(k, "rootkey") ELSE Over(k)
  /\ UNCHANGED <<server, created, client, refreshing, changing, unknown, left>>

\* handleSuccessAuthResponse: the root key is stored, the user, the session if there is a
\* new one; then the challenge is completed, if it is still there.
RootKeyStored(k) ==
  /\ ~signedOut
  /\ calls[k].pc = "rootkey"
  /\ Goto(k, "user")
  /\ UNCHANGED <<server, created, client, flags, unknown, left>>

UserStored(k) ==
  /\ ~signedOut
  /\ calls[k].pc = "user"
  /\ IF calls[k].kind = "signin"
     THEN SetSession(k, calls[k].token) /\ Goto(k, "session")
     ELSE Over(k) /\ UNCHANGED <<session, writes>>
  /\ UNCHANGED <<server, created, disk, presented, signedOut, flags, unknown, left>>

NewSessionStored(k) ==
  /\ ~signedOut
  /\ calls[k].pc = "session"
  /\ Written(k, calls[k].token)
  /\ presented' = (presented /\ ~calls[k].asked)
  /\ calls' = [j \in Call |-> IF j = k THEN Idle
                            ELSE IF calls[k].asked THEN [calls[j] EXCEPT !.asked = FALSE]
                            ELSE calls[j]]
  /\ UNCHANGED <<server, created, session, signedOut, flags, unknown, left>>

\* The application ends at any moment, and starts from what is stored.
Restart ==
  /\ Spend("restarts")
  /\ ~signedOut
  /\ session' = disk /\ writes' = <<>>
  /\ refreshing' = FALSE /\ authenticating' = FALSE /\ changing' = FALSE
  /\ presented' = FALSE
  /\ calls' = [k \in Call |-> Idle]
  /\ unknown' = unknown \union {calls[k].token.sid : k \in At({"refreshing", "storing"})}
  /\ UNCHANGED <<server, created, disk, signedOut>>

-------------------------------------------------------------------------------
Steps(k) ==
  \/ Receive(k) \/ Refreshed(k) \/ NotRefreshed(k) \/ SessionStored(k) \/ Retried(k)
  \/ ParamsRetrieved(k) \/ SignInAnswered(k)
  \/ RootKeyStored(k) \/ UserStored(k) \/ NewSessionStored(k)
Starts(k) == Request(k) \/ ChangePassword(k) \/ SubmitCredentials(k)
Surroundings ==
  \/ \E s \in Sid : Expire(s) \/ \E status \in {"over", "revoked"} : End(s, status)
  \/ Restart \/ CancelRenewal

Next ==
  \/ \E k \in Call : Steps(k) \/ Serve(k) \/ Lose(k) \/ Starts(k)
  \/ Surroundings

\* The autosync interval makes requests, and every call gets an answer.
Fairness ==
  /\ WF_vars(\E k \in Call : Request(k))
  /\ \A k \in Call : WF_vars(Serve(k)) /\ WF_vars(Steps(k))

Spec == Init /\ [][Next]_vars /\ Fairness

-------------------------------------------------------------------------------
(****************************************************************************)
(* A refresh token is used once: never are two refreshes under way, however *)
(* many requests find the token expired at the same time, and the flag that *)
(* sees to this is set exactly as long as one is.                           *)
(****************************************************************************)
OneRefresh ==
  /\ Cardinality(At({"refreshing", "storing"})) = IF refreshing THEN 1 ELSE 0
  /\ Cardinality(At({"signing"})) = IF authenticating THEN 1 ELSE 0

(****************************************************************************)
(* Once no refresh is being completed, the client, in memory and on the     *)
(* disk, has the newest token of its session: retries, sign-ins that        *)
(* overtake a refresh, and restarts leave it with no token the server has   *)
(* replaced, but for a refresh whose answer was lost or not stored.         *)
(****************************************************************************)
SessionIsNewest ==
  At({"refreshing", "storing"}) = {} =>
    \A t \in {session, disk} : t.sid \in unknown \/ t.gen = server[t.sid].gen

(***************************************************************************)
(* However requests, refreshes, renewals and faults interleave, the client *)
(* again and again has a session the server accepts, or has asked the user *)
(* to sign in, or has signed out.                                          *)
(***************************************************************************)
Recovers == []<>(signedOut \/ presented \/ Accepts(session) = "ok")

(****************************************************************************)
(* The user is asked to sign in only if the session is over: "the session's *)
(* access token and refresh token are expired, user must reauthenticate".   *)
(* No run checks it: the late answer to a request made with the token that  *)
(* a refresh has replaced asks the user too.                                *)
(****************************************************************************)
PromptIsNeeded ==
  [][presented' /\ ~presented => session.sid \in unknown \/ server[session.sid].status # "alive"]_vars
===============================================================================
