CONSTANTS
  w1 = w1
  w2 = w2
  Ranks = {0}
  Workers = {w1, w2}
  AsyncSave = FALSE
  Keep = 1
  ValidateBeforeDelete = TRUE
  MaxStep = 4
  MaxVersion = 5
  MaxCrashes = 2
SPECIFICATION Spec
INVARIANTS
  TypeOK
  StateMatchesStep
  LatestLoadable
  NeverLost
PROPERTIES
  PublishedImmutable
  AbsSpec
