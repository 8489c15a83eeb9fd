CONSTANTS
  w1 = w1
  w2 = w2
  Ranks = {0}
  Workers = {w1, w2}
  AsyncSave = TRUE
  Keep = 2
  ValidateBeforeDelete = TRUE
  MaxStep = 4
  MaxVersion = 4
  MaxCrashes = 1
CHECK_DEADLOCK FALSE
SPECIFICATION FairSpec
INVARIANT
  StateMatchesStep
