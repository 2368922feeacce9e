CONSTANTS
  None = None
  Items = 1
  MaxUuid = 6
  UpLimit = 2
  EditWhileStoring = FALSE
  MaxEdits = 2
  MaxCreates = 0
  MaxDeletes = 0
  MaxRemote = 1
  MaxRemoteDeletes = 1
  MaxFaults = 1
  MaxCrashes = 1
SPECIFICATION Spec
INVARIANTS
  CleanMeansUploaded
  TokenCoversItems
PROPERTIES
  StoredEditsSurvive
  EditsSurvive
CHECK_DEADLOCK FALSE
