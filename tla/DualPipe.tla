------------------------------- MODULE DualPipe -------------------------------
(***************************************************************************)
(* src/src/deepseek/torch/training/dualpipe.py: the ranks of one pipeline  *)
(* group, each running DualPipeEngine.train_step over the schedule of      *)
(* DualPipeScheduler._build_schedule, connected by torch.distributed       *)
(* point-to-point messages.                                                *)
(*                                                                         *)
(* A tensor is represented by the position, in the data, of the            *)
(* micro-batch it was computed from (1, 2, ...); None is Python's None.    *)
(* A rank is at the schedule entry pc[s] for micro-batch fwd[s] (forward   *)
(* entries) or bwd[s] (backward entries): _build_schedule depends only on  *)
(* the stage and on these two indices, so the list it returns is walked    *)
(* here without being written out.                                         *)
(***************************************************************************)
EXTENDS Integers, Sequences, FiniteSets

CONSTANTS
  NumStages,       \* config.num_stages: the ranks of the group are 0 .. NumStages-1
  NumMicroBatches, \* config.num_micro_batches
  MaxBatches       \* bound: train_step is called while fewer micro-batches are done

ASSUME DualPipeAssumption ==
  /\ NumStages \in Nat \ {0}
  /\ NumMicroBatches \in Nat \ {0}
  /\ MaxBatches \in Nat

Stage == 0 .. NumStages - 1
MicroBatch == 0 .. NumMicroBatches - 1
FirstStage == 0
LastStage == NumStages - 1
None == 0

VARIABLES
  done,      \* done[s]: micro-batches of the train_step calls that returned on s
  pc,        \* pc[s]: the schedule entry s executes next
  fwd,       \* fwd[s]: forward_idx of that entry
  bwd,       \* bwd[s]: backward_idx of that entry
  inStash,   \* PipelineStage.input_stash
  outStash,  \* PipelineStage.output_stash
  gradOut,   \* MicroBatchState.grad_output (on the last stage: the loss)
  gradIn,    \* MicroBatchState.grad_input
  dataPos,   \* micro-batches taken from data_iterator, on the first stage
  labelPos,  \* label batches taken from labels_iterator, on the last stage
  fchan,     \* fchan[s]: activations isent by s that s + 1 has not received
  bchan      \* bchan[s]: gradients isent by s that s - 1 has not received

stashes == <<inStash, outStash, gradOut, gradIn>>
vars == <<done, pc, fwd, bwd, stashes, dataPos, labelPos, fchan, bchan>>

ForwardEntry == {"RECV_FORWARD", "FORWARD", "SEND_FORWARD"}
BackwardEntry == {"RECV_BACKWARD", "BACKWARD", "SEND_BACKWARD"}
Entry == ForwardEntry \cup BackwardEntry

Empty == [mb \in MicroBatch |-> None]
-----------------------------------------------------------------------------
(* _build_schedule *)

(* Mutation of NumWarmup: one warmup forward too many. *)
NumWarmupOneMore(s) ==
  IF NumStages - s < NumMicroBatches THEN NumStages - s ELSE NumMicroBatches

NumWarmup(s) ==
  IF NumStages - s - 1 < NumMicroBatches THEN NumStages - s - 1 ELSE NumMicroBatches

BeginForward(s) == IF s = FirstStage THEN "FORWARD" ELSE "RECV_FORWARD"

(* Mutation of BeginBackward: the gradient is not received first. *)
BeginBackwardAtOnce(s) == "BACKWARD"

BeginBackward(s) == IF s = LastStage THEN "BACKWARD" ELSE "RECV_BACKWARD"

(* The entry after the forward entries of micro-batch f: another forward in *)
(* the warmup (and the first of the steady state), else a backward.         *)
AfterForward(s, f) ==
  IF f + 1 <= NumWarmup(s) /\ f + 1 < NumMicroBatches
  THEN BeginForward(s) ELSE BeginBackward(s)

(* Mutations of AfterBackward: no cooldown phase; a cooldown one short; an   *)
(* OPTIMIZER_STEP entry, for which train_step has no branch, at the end.    *)
AfterBackwardNoCooldown(s, b) ==
  IF fwd[s] < NumMicroBatches THEN BeginForward(s) ELSE "WAIT_ALL_SENDS"

AfterBackwardOneShort(s, b) ==
  IF fwd[s] < NumMicroBatches THEN BeginForward(s)
  ELSE IF b + 2 < NumMicroBatches THEN BeginBackward(s)
  ELSE "WAIT_ALL_SENDS"

AfterBackwardOptimizer(s, b) ==
  IF fwd[s] < NumMicroBatches THEN BeginForward(s)
  ELSE IF b + 1 < NumMicroBatches THEN BeginBackward(s)
  ELSE "OPTIMIZER_STEP"

(* The entry after the backward entries of micro-batch b: in the steady     *)
(* state the next forward, in the cooldown the next backward, then          *)
(* wait_all_sends.                                                          *)
AfterBackward(s, b) ==
  IF fwd[s] < NumMicroBatches THEN BeginForward(s)
  ELSE IF b + 1 < NumMicroBatches THEN BeginBackward(s)
  ELSE "WAIT_ALL_SENDS"
-----------------------------------------------------------------------------
Init ==
  /\ done = [s \in Stage |-> 0]
  /\ pc = [s \in Stage |-> "IDLE"]
  /\ fwd = [s \in Stage |-> 0]
  /\ bwd = [s \in Stage |-> 0]
  /\ inStash = [s \in Stage |-> Empty]
  /\ outStash = [s \in Stage |-> Empty]
  /\ gradOut = [s \in Stage |-> Empty]
  /\ gradIn = [s \in Stage |-> Empty]
  /\ dataPos = 0
  /\ labelPos = 0
  /\ fchan = [s \in Stage |-> <<>>]
  /\ bchan = [s \in Stage |-> <<>>]

(* train_step is called on s: fresh MicroBatchStates, first schedule entry. *)
BeginStep(s) ==
  /\ pc[s] = "IDLE"
  /\ done[s] < MaxBatches
  /\ pc' = [pc EXCEPT ![s] = BeginForward(s)]
  /\ gradOut' = [gradOut EXCEPT ![s] = Empty]
  /\ gradIn' = [gradIn EXCEPT ![s] = Empty]
  /\ UNCHANGED <<done, fwd, bwd, inStash, outStash, dataPos, labelPos, fchan, bchan>>

(* Mutations: the newest message in flight is received instead of the oldest. *)
RecvForwardNewest(s) ==
  /\ pc[s] = "RECV_FORWARD"
  /\ fchan[s - 1] # <<>>
  /\ inStash' = [inStash EXCEPT ![s][fwd[s]] = fchan[s - 1][Len(fchan[s - 1])]]
  /\ fchan' = [fchan EXCEPT ![s - 1] = SubSeq(@, 1, Len(@) - 1)]
  /\ pc' = [pc EXCEPT ![s] = "FORWARD"]
  /\ UNCHANGED <<done, fwd, bwd, outStash, gradOut, gradIn, dataPos, labelPos, bchan>>

RecvBackwardNewest(s) ==
  /\ pc[s] = "RECV_BACKWARD"
  /\ bchan[s + 1] # <<>>
  /\ gradOut' = [gradOut EXCEPT ![s][bwd[s]] = bchan[s + 1][Len(bchan[s + 1])]]
  /\ bchan' = [bchan EXCEPT ![s + 1] = SubSeq(@, 1, Len(@) - 1)]
  /\ pc' = [pc EXCEPT ![s] = "BACKWARD"]
  /\ UNCHANGED <<done, fwd, bwd, inStash, outStash, gradIn, dataPos, labelPos, fchan>>

(* recv_forward: irecv, wait, stash the received activation. *)
RecvForward(s) ==
  /\ pc[s] = "RECV_FORWARD"
  /\ fchan[s - 1] # <<>>
  /\ inStash' = [inStash EXCEPT ![s][fwd[s]] = Head(fchan[s - 1])]
  /\ fchan' = [fchan EXCEPT ![s - 1] = Tail(@)]
  /\ pc' = [pc EXCEPT ![s] = "FORWARD"]
  /\ UNCHANGED <<done, fwd, bwd, outStash, gradOut, gradIn, dataPos, labelPos, bchan>>

(* The forward pass of micro-batch fwd[s]. The first stage takes its input  *)
(* from data_iterator, the last one a label batch for the loss it stores.   *)
(* forward_step raises when there is no input.                              *)
Forward(s) ==
  LET mb == fwd[s]
      x  == IF s = FirstStage THEN dataPos + 1 ELSE inStash[s][mb]
  IN
  /\ pc[s] = "FORWARD"
  /\ dataPos' = IF s = FirstStage THEN dataPos + 1 ELSE dataPos
  /\ inStash' = [inStash EXCEPT ![s][mb] = x]
  /\ outStash' = [outStash EXCEPT ![s][mb] = x]
  /\ labelPos' = IF s = LastStage THEN labelPos + 1 ELSE labelPos
  /\ gradOut' = IF s = LastStage
                THEN [gradOut EXCEPT ![s][mb] = labelPos + 1] ELSE gradOut
  /\ fwd' = IF s = LastStage THEN [fwd EXCEPT ![s] = @ + 1] ELSE fwd
  /\ pc' = [pc EXCEPT ![s] = IF x = None THEN "RAISED"
                             ELSE IF s = LastStage THEN AfterForward(s, mb)
                             ELSE "SEND_FORWARD"]
  /\ UNCHANGED <<done, bwd, gradIn, fchan, bchan>>

(* send_forward: isend of the output; the handle is waited for at the end. *)
SendForward(s) ==
  /\ pc[s] = "SEND_FORWARD"
  /\ fchan' = [fchan EXCEPT ![s] = Append(@, outStash[s][fwd[s]])]
  /\ fwd' = [fwd EXCEPT ![s] = @ + 1]
  /\ pc' = [pc EXCEPT ![s] = AfterForward(s, fwd[s])]
  /\ UNCHANGED <<done, bwd, stashes, dataPos, labelPos, bchan>>

(* recv_backward: irecv, wait, keep the gradient in the micro-batch state. *)
RecvBackward(s) ==
  /\ pc[s] = "RECV_BACKWARD"
  /\ bchan[s + 1] # <<>>
  /\ gradOut' = [gradOut EXCEPT ![s][bwd[s]] = Head(bchan[s + 1])]
  /\ bchan' = [bchan EXCEPT ![s + 1] = Tail(@)]
  /\ pc' = [pc EXCEPT ![s] = "BACKWARD"]
  /\ UNCHANGED <<done, fwd, bwd, inStash, outStash, gradIn, dataPos, labelPos, fchan>>

(* The backward pass of micro-batch bwd[s]: raises when no output is        *)
(* stashed, otherwise clears both stashes. The last stage ignores the loss  *)
(* in grad_output and starts from its output.                               *)
Backward(s) ==
  LET mb == bwd[s]
      g  == IF s = LastStage THEN outStash[s][mb] ELSE gradOut[s][mb]
  IN
  /\ pc[s] = "BACKWARD"
  /\ gradIn' = [gradIn EXCEPT ![s][mb] = g]
  /\ outStash' = [outStash EXCEPT ![s][mb] = None]
  /\ inStash' = [inStash EXCEPT ![s][mb] = None]
  /\ bwd' = IF s = FirstStage THEN [bwd EXCEPT ![s] = @ + 1] ELSE bwd
  /\ pc' = [pc EXCEPT ![s] = IF outStash[s][mb] = None THEN "RAISED"
                             ELSE IF s = FirstStage THEN AfterBackward(s, mb)
                             ELSE "SEND_BACKWARD"]
  /\ UNCHANGED <<done, fwd, gradOut, dataPos, labelPos, fchan, bchan>>

(* send_backward: isend of the gradient to the previous stage. *)
SendBackward(s) ==
  /\ pc[s] = "SEND_BACKWARD"
  /\ bchan' = [bchan EXCEPT ![s] = Append(@, gradIn[s][bwd[s]])]
  /\ bwd' = [bwd EXCEPT ![s] = @ + 1]
  /\ pc' = [pc EXCEPT ![s] = AfterBackward(s, bwd[s])]
  /\ UNCHANGED <<done, fwd, stashes, dataPos, labelPos, fchan>>

(* wait_all_sends, then train_step returns. A send may be complete before   *)
(* its message is received; it surely is when it is (see CanStep).          *)
WaitAllSends(s) ==
  /\ pc[s] = "WAIT_ALL_SENDS"
  /\ done' = [done EXCEPT ![s] = @ + NumMicroBatches]
  /\ fwd' = [fwd EXCEPT ![s] = 0]
  /\ bwd' = [bwd EXCEPT ![s] = 0]
  /\ gradOut' = [gradOut EXCEPT ![s] = Empty]
  /\ gradIn' = [gradIn EXCEPT ![s] = Empty]
  /\ pc' = [pc EXCEPT ![s] = "IDLE"]
  /\ UNCHANGED <<inStash, outStash, dataPos, labelPos, fchan, bchan>>

StageNext(s) ==
  \/ BeginStep(s)
  \/ RecvForward(s) \/ Forward(s) \/ SendForward(s)
  \/ RecvBackward(s) \/ Backward(s) \/ SendBackward(s)
  \/ WaitAllSends(s)

Finished == \A s \in Stage : pc[s] = "IDLE" /\ done[s] >= MaxBatches

(* The job is over: nothing calls train_step any more. *)
Terminating == Finished /\ UNCHANGED vars

Next == (\E s \in Stage : StageNext(s)) \/ Terminating

Spec == Init /\ [][Next]_vars

(* Rank s is not blocked: its receive has a message, or its sends have all   *)
(* been received, before which wait_all_sends may wait.                     *)
CanStep(s) ==
  \/ pc[s] \in {"FORWARD", "SEND_FORWARD", "BACKWARD", "SEND_BACKWARD"}
  \/ pc[s] = "IDLE" /\ done[s] < MaxBatches
  \/ pc[s] = "RECV_FORWARD" /\ fchan[s - 1] # <<>>
  \/ pc[s] = "RECV_BACKWARD" /\ bchan[s + 1] # <<>>
  \/ pc[s] = "WAIT_ALL_SENDS" /\ fchan[s] = <<>> /\ bchan[s] = <<>>

(* Every rank is a process of its own that runs until it blocks. *)
FairSpec == Spec /\ \A s \in Stage : WF_vars(CanStep(s) /\ StageNext(s))
-----------------------------------------------------------------------------
(* Micro-batches s has forwarded, reversed, received (counted from the      *)
(* start of the job).                                                       *)
Forwarded(s) == done[s] + fwd[s] + (IF pc[s] = "SEND_FORWARD" THEN 1 ELSE 0)
Reversed(s) == done[s] + bwd[s] + (IF pc[s] = "SEND_BACKWARD" THEN 1 ELSE 0)

TypeOK ==
  /\ done \in [Stage -> Nat]
  /\ pc \in [Stage -> Entry \cup {"IDLE", "WAIT_ALL_SENDS", "RAISED"}]
  /\ fwd \in [Stage -> 0 .. NumMicroBatches]
  /\ bwd \in [Stage -> 0 .. NumMicroBatches]
  /\ inStash \in [Stage -> [MicroBatch -> Nat]]
  /\ outStash \in [Stage -> [MicroBatch -> Nat]]
  /\ gradOut \in [Stage -> [MicroBatch -> Nat]]
  /\ gradIn \in [Stage -> [MicroBatch -> Nat]]
  /\ dataPos \in Nat
  /\ labelPos \in Nat
  /\ fchan \in [Stage -> Seq(Nat)]
  /\ bchan \in [Stage -> Seq(Nat)]

(* Messages carry no micro-batch id (isend and irecv are untagged): a        *)
(* gradient, or on the last stage a label batch, is attributed to the       *)
(* micro-batch the receiver's own schedule names. It is always the one the  *)
(* stashed activation was computed from, and no pass ever finds its stash   *)
(* empty (the RuntimeErrors of forward_step and backward_step).             *)
MatchedGradients ==
  \A s \in Stage :
    /\ pc[s] # "RAISED"
    /\ \A mb \in MicroBatch :
         (outStash[s][mb] # None /\ gradOut[s][mb] # None)
            => gradOut[s][mb] = outStash[s][mb]

(* The activation a stage stashes for a micro-batch is that micro-batch of   *)
(* the train_step the stage is in, never one of the step before or after    *)
(* that a faster neighbour has already sent.                                *)
MatchedActivations ==
  \A s \in Stage, mb \in MicroBatch :
    outStash[s][mb] # None => outStash[s][mb] = done[s] + mb + 1

(* The memory bound of 1F1B: stage s stashes at most one activation per      *)
(* stage from s to the end of the pipeline (GPipe would stash them all).    *)
Stashed(s) == {mb \in MicroBatch : outStash[s][mb] # None}
StashBound == \A s \in Stage : Cardinality(Stashed(s)) <= NumStages - s

(* Some rank can execute its next schedule entry, even where sends complete  *)
(* only when they are received: no circular wait between blocking receives   *)
(* and wait_all_sends.                                                       *)
NoCircularWait == Finished \/ \E s \in Stage : CanStep(s)

(* Every stage completes every training step. *)
AllStepsComplete == <>[]Finished

(* The engine implements the abstract pipeline. *)
Abs == INSTANCE MicroBatchPipeline WITH
         forwarded <- [s \in Stage |-> Forwarded(s)],
         reversed <- [s \in Stage |-> Reversed(s)]
AbsSpec == Abs!Spec
=============================================================================
