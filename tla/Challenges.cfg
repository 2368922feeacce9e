SPECIFICATION Spec
CONSTANTS
  Protect = {p1, p2}
  Renew = {r1, r2}
  Migrate = {m1}
  Lengths = {0, 2}
  Slot = {s1, s2}
  MaxChallenges = 2
  MaxSubmissions = 2
  MaxTime = 3
  MaxToggles = 1
SYMMETRY Symmetry
CHECK_DEADLOCK FALSE
INVARIANT GrantsAreEarned
INVARIANT WaitingIsOpen
INVARIANT PresentedIsOpen
INVARIANT SessionHasTimer
 
