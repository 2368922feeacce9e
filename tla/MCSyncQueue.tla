----------------------------- MODULE MCSyncQueue -----------------------------
(* Model values and small option sets for the runs of SyncQueue. *)
EXTENDS SyncQueue

Plain == NoOptions
Forced == [NoOptions EXCEPT !.strategy = "ForceSpawnNew", !.integrity = TRUE]
AllAwaited == [NoOptions EXCEPT !.awaitAll = TRUE, !.integrity = TRUE]

OnlyPlain == {Plain}
OnlyForced == {Forced}
PlainAndForced == {Plain, Forced}
OnlyAwaited == {AllAwaited}

(* The bound on slots cuts no behaviour short: a call that may start another finds one. *)
Slots4 == 1..4
Slots5 == 1..5
Slots9 == 1..9
Slots10 == 1..10
Slots12 == 1..12

SlotsSuffice == Free = {} => \A c \in Call : call[c].pc \notin {"completed", "popped"}

Online == {TRUE}
Offline == {FALSE}
Either == BOOLEAN

NoEnv == {}
Failing == {"fail"}
FailingWithTimer == {"fail", "timer"}
Locking == {"lock"}
Throwing == {"throw"}
Everything == Environment \ {"timer"}
SigningIn == {"signIn", "fail"}
=============================================================================
