\* Three ranks and three calls, every program of them: two calls let a fast
\* rank overwrite what a slow one has not read, the third sees what is left.
CONSTANTS
  NumRanks = 3
  MaxCalls = 3
  NoTensor = NoTensor
SPECIFICATION FairSpec
INVARIANTS
  TypeOK
PROPERTIES
  AbsSpec
  EveryCallReturns
