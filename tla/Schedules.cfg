\* Three stages and four micro-batches: the middle stage has a shorter warmup
\* than the outer ones under DualPipe, and stage 0 a steady state under 1F1B.
\* One message is buffered from one rank to another, two iterations follow
\* each other without synchronisation.
CONSTANTS
  NumStages = 3
  NumMicroBatches = 4
  Budgets = {3, 4}
  Capacity = 1
  MaxIterations = 2
  Jobs = {"OneFOneB", "GPipe", "DualPipe", "DualPipeSchedule"}
SPECIFICATION FairSpec
INVARIANTS
  TypeOK
  MatchedPasses
  SchedulesComplete
PROPERTIES
  UnidirectionalCompletes
  AbsSpec
\* A DualPipe job stops at an error, the others when MaxIterations are done.
CHECK_DEADLOCK FALSE
