CONSTANTS
  Call <- Slots9
  None = None
  ExternalOptions <- PlainAndForced
  OnlineAtLaunch <- Online
  Env <- NoEnv
  MaxCalls = 1
  MaxEdits = 1
  MaxFaults = 0
  MaxPages = 0
  MaxFlips = 0
  MaxObserverSyncs = 1
  MaxDiscordance = 2
  MaxTries = 2
  Spare = 6
SPECIFICATION FairSpec
PROPERTIES
  PiggybackCarriesEdits
  EveryCallSettles
  ComesToRest
CHECK_DEADLOCK FALSE
