\* Checkpoints 0, 2, 4 and the final 5; one to three are kept; two crashes or
\* reruns, in either mode of saving.
CONSTANTS
  MaxSteps = 5
  SaveInterval = 2
  Keeps = {1, 2, 3}
  Resume = TRUE
  MaxStarts = 3
SPECIFICATION FairSpec
INVARIANTS
  TypeOK
  StepsInWeights
  OnlyNewestTorn
  ResumeCostsOneInterval
  DoneIsSaved
PROPERTIES
  RunEnds
\* The job is not started again after MaxStarts.
CHECK_DEADLOCK FALSE
