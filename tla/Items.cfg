SPECIFICATION Spec
CONSTANTS
  Note = {n1, n2}
  Tag = {t1}
  Stored = {n1}
  Stream = {s1, s2}
  None = None
  Deletable = {n1, t1}
  Restores = FALSE
  MaxChanges = 3
SYMMETRY Symmetry
INVARIANT StreamsAgree
INVARIANT DisplayIsCurrent
INVARIANT DeletionUnlinks
