----------------------- MODULE MCDistributedCheckpoint -----------------------
(* Instances of DistributedCheckpoint; the .cfg files give the constants.   *)
EXTENDS DistributedCheckpoint

CONSTANTS w1, w2  \* threads of the executor
=============================================================================
