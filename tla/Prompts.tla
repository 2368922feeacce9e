-------------------------------- MODULE Prompts --------------------------------
(***************************************************************************)
(* What whoever asks the user for something is promised: a challenge gets  *)
(* one outcome, for good, and is answered only when everything it asks for *)
(* was accepted.  ChallengeService implements this (see Challenges).       *)
(***************************************************************************)
CONSTANTS Challenge, Prompt

VARIABLES
  required, \* what each challenge asks for
  accepted, \* what it was given and took
  outcome   \* new, open, answered or canceled

vars == <<required, accepted, outcome>>

Init ==
  /\ required = [c \in Challenge |-> {}]
  /\ accepted = [c \in Challenge |-> {}]
  /\ outcome = [c \in Challenge |-> "new"]

Ask(c) ==
  /\ outcome[c] = "new"
  /\ \E P \in (SUBSET Prompt) \ {{}} : required' = [required EXCEPT ![c] = P]
  /\ outcome' = [outcome EXCEPT ![c] = "open"]
  /\ UNCHANGED accepted

Accept(c) ==
  /\ outcome[c] = "open"
  /\ \E P \in SUBSET required[c] : accepted' = [accepted EXCEPT ![c] = @ \union P]
  /\ outcome' = [outcome EXCEPT ![c] =
                   IF accepted'[c] = required[c] THEN "answered" ELSE "open"]
  /\ UNCHANGED required

Cancel(c) ==
  /\ outcome[c] = "open"
  /\ outcome' = [outcome EXCEPT ![c] = "canceled"]
  /\ UNCHANGED <<required, accepted>>

Next == \E c \in Challenge : Ask(c) \/ Accept(c) \/ Cancel(c)

Spec == Init /\ [][Next]_vars
===============================================================================
