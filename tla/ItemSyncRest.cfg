CONSTANTS
  None = None
  Items = 1
  MaxUuid = 3
  UpLimit = 3
  EditWhileStoring = FALSE
  MaxEdits = 1
  MaxCreates = 1
  MaxDeletes = 1
  MaxRemote = 1
  MaxRemoteDeletes = 0
  MaxFaults = 0
  MaxCrashes = 0
SPECIFICATION FairSpec
PROPERTIES
  ConflictIsReal
  Converges
