CONSTANTS
  w1 = w1
  w2 = w2
  Ranks = {0, 1}
  Workers = {w1, w2}
  AsyncSave = FALSE
  Keep = 2
  ValidateBeforeDelete = TRUE
  MaxStep = 4
  MaxVersion = 4
  MaxCrashes = 1
CHECK_DEADLOCK FALSE
SPECIFICATION FairSpec
INVARIANT
  NeverLost
