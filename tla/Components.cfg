SPECIFICATION Spec
CONSTANTS
  Component = {c1, c2}
  Notes = {n1}
  Tags = {t1}
  Theme = {h1, h2}
  Layerable = {}
  Locked = {n1}
  None = None
  Kinds = {"stream", "stream-context", "save", "duplicate", "delete", "permissions"}
  MaxRequests = 2
  MaxWindows = 2
  MaxEvents = 1
  MaxToggles = 2
SYMMETRY Symmetry
CHECK_DEADLOCK FALSE
INVARIANT RunsWithPermission
 
INVARIANT WindowsAreBridged
INVARIANT OneThemeIsActive
INVARIANT WaitingIsShown
