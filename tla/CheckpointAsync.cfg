CONSTANTS
  w1 = w1
  w2 = w2
  Ranks = {0}
  Workers = {w1, w2}
  AsyncSave = TRUE
  Keep = 1
  ValidateBeforeDelete = FALSE
  MaxStep = 3
  MaxVersion = 3
  MaxCrashes = 1
SPECIFICATION FairSpec
INVARIANTS
  NotPendingComplete
PROPERTIES
  PendingDrains
