CONSTANTS
  Call <- Slots12
  None = None
  ExternalOptions <- OnlyForced
  OnlineAtLaunch <- Online
  Env <- FailingWithTimer
  MaxCalls = 1
  MaxEdits = 1
  MaxFaults = 1
  MaxPages = 0
  MaxFlips = 1
  MaxObserverSyncs = 0
  MaxDiscordance = 2
  MaxTries = 2
  Spare = 6
SPECIFICATION FairSpec
INVARIANTS
  SingleFlight
  WaitersAreServed
PROPERTIES
  ForcedRequestIsMade
  SpawnQueueDrains
CHECK_DEADLOCK FALSE
