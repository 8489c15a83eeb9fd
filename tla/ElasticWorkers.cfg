\* Two workers for a pool of one, so that recoveries compete for the place, and
\* one can recover while the failure of either is still handled; three
\* strategies (WaitForRecovery changes no more state than Abort); a second
\* failure of a worker exhausts its restarts.
CONSTANTS
  w1 = w1
  w2 = w2
  Worker = {w1, w2}
  Rank = w1
  None = None
  MinWorkers = 1
  MaxWorkers = 1
  MaxAttempts = 1
  Strategies = {"Abort", "ContinueWithLess", "RestartFailed"}
SPECIFICATION FairSpec
INVARIANTS
  TypeOK
  SomeoneMoves
PROPERTIES
  DeadDetected
