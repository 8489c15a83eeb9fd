-------------------------- MODULE StableCheckpoint --------------------------
(***************************************************************************)
(* What checkpointing promises a training job (the module docstring of     *)
(* distributed_checkpoint.py: validation before deletion, keep last N,     *)
(* resume with training state restoration): there is one stable training   *)
(* step, save() replaces it at once by the current one, and after a crash  *)
(* the job is exactly where it was at the stable step.                     *)
(***************************************************************************)
EXTENDS Naturals

VARIABLES
  trained,  \* the training steps the state in memory has gone through
  stable    \* the training step load() restores, 0 for none

Init == trained = 0 /\ stable = 0

Train == trained' = trained + 1 /\ UNCHANGED stable

Save == stable' = trained /\ UNCHANGED trained

Recover == trained' = stable /\ UNCHANGED stable

Next == Train \/ Save \/ Recover

Spec == Init /\ [][Next]_<<trained, stable>>
=============================================================================
