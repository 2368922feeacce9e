SPECIFICATION Spec
CONSTANTS
  Call = {k1, k2}
  Kinds = {"request", "change", "signin"}
  MaxSessions = 2
  MaxExpired = 1
  MaxEnded = 1
  MaxLost = 1
  MaxRestarts = 1
CHECK_DEADLOCK FALSE
INVARIANT OneRefresh
INVARIANT SessionIsNewest
PROPERTY Recovers
