\* Four stages and three micro-batches: stage 0 has a full warmup and no
\* steady state, stages 1 and 2 mix the three phases, stage 3 has no warmup.
\* Two train_step calls, so that a stage can be a step ahead of its neighbour.
CONSTANTS
  NumStages = 4
  NumMicroBatches = 3
  MaxBatches = 4
SPECIFICATION FairSpec
INVARIANTS
  TypeOK
  MatchedGradients
  MatchedActivations
  StashBound
  NoCircularWait
PROPERTIES
  AbsSpec
  AllStepsComplete
