CONSTANTS
  AsyncModes = {TRUE}
  MaxCheckpoints = 2
  MaxStep = 3
  MaxCrashes = 0
CHECK_DEADLOCK FALSE
SPECIFICATION FairSpec
PROPERTIES
  WaitWaits
