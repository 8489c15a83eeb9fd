------------------------- MODULE MicroBatchPipeline -------------------------
(***************************************************************************)
(* What a pipeline-parallel training step promises, whatever schedule and  *)
(* whatever communication it uses (the docstrings of DualPipeScheduler and *)
(* PipelineStage in dualpipe.py):                                          *)
(*   - a micro-batch is forwarded by the stages in order 0, 1, ..., and    *)
(*     its gradient comes back through the stages in the opposite order;   *)
(*   - every stage handles the micro-batches in the order of the data;     *)
(*   - a stage never holds more than Window(s) activations, the memory     *)
(*     bound that distinguishes 1F1B from GPipe;                           *)
(*   - a training step ends on a stage when every gradient of the step has *)
(*     passed it, and only then does the stage begin the next one.         *)
(* A micro-batch is named by its position in the data, 1, 2, ...           *)
(***************************************************************************)
EXTENDS Integers

CONSTANTS
  NumStages,       \* positive; the stages are 0 .. NumStages-1
  NumMicroBatches  \* positive; the micro-batches of one training step

Stage == 0 .. NumStages - 1
LastStage == NumStages - 1

(* The most activations stage s may hold: one per stage from s to the end. *)
Window(s) == IF NumStages - s < NumMicroBatches THEN NumStages - s ELSE NumMicroBatches

VARIABLES
  done,      \* done[s]: micro-batches of the training steps that s has finished
  forwarded, \* forwarded[s]: micro-batches that have passed s forward
  reversed   \* reversed[s]: micro-batches whose gradient has passed s

absVars == <<done, forwarded, reversed>>

Init ==
  /\ done = [s \in Stage |-> 0]
  /\ forwarded = [s \in Stage |-> 0]
  /\ reversed = [s \in Stage |-> 0]

(* The next micro-batch of the step passes s; the previous stage is ahead. *)
PassForward(s) ==
  /\ forwarded[s] < done[s] + NumMicroBatches
  /\ s # 0 => forwarded[s] < forwarded[s - 1]
  /\ forwarded[s] - reversed[s] < Window(s)
  /\ forwarded' = [forwarded EXCEPT ![s] = @ + 1]
  /\ UNCHANGED <<done, reversed>>

(* The gradient of the oldest activation passes s; the next stage is ahead. *)
PassBackward(s) ==
  /\ reversed[s] < forwarded[s]
  /\ s # LastStage => reversed[s] < reversed[s + 1]
  /\ reversed' = [reversed EXCEPT ![s] = @ + 1]
  /\ UNCHANGED <<done, forwarded>>

(* Every micro-batch of the step has passed s in both directions. *)
FinishStep(s) ==
  /\ reversed[s] = done[s] + NumMicroBatches
  /\ done' = [done EXCEPT ![s] = @ + NumMicroBatches]
  /\ UNCHANGED <<forwarded, reversed>>

Next == \E s \in Stage : PassForward(s) \/ PassBackward(s) \/ FinishStep(s)

Spec == Init /\ [][Next]_absVars
=============================================================================
