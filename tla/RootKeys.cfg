SPECIFICATION Spec
CONSTANTS
  AccountKey = {a1, a2}
  PasscodeKey = {p1, p2}
  ItemsKey = {i1, i2, i3}
  None = None
  Kinds = {"add", "remove", "change", "signin", "register", "password", "signout"}
  EndsAt = {"idle", "request", "root", "synced"}
  MaxOperations = 3
  MaxEnds = 1
  MaxWrites = 1
  MaxFailures = 1
SYMMETRY Symmetry
CHECK_DEADLOCK FALSE
INVARIANT Unlocks
INVARIANT ItemsReadable
INVARIANT NothingIsBare
INVARIANT RootKeyIsAccounts
