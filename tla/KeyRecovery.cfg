SPECIFICATION Spec
CONSTANTS
  MaxRoot = 3
  MaxElsewhere = 1
  MaxWizards = 1
  MaxEnds = 1
CHECK_DEADLOCK FALSE
INVARIANT NothingForgotten
PROPERTY RootKeyNeverGoesBack
PROPERTY QueueDrains
