\* Both modes; two checkpoints kept, so that the third save collects; three
\* training steps and a crash anywhere among them.
CONSTANTS
  AsyncModes = {TRUE, FALSE}
  MaxCheckpoints = 2
  MaxStep = 3
  MaxCrashes = 1
SPECIFICATION FairSpec
INVARIANTS
  TypeOK
  ResumesWhole
  RegisteredOnDisk
  NeverLost
PROPERTIES
  WaitReturns
