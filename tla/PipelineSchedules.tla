-------------------------- MODULE PipelineSchedules --------------------------
(***************************************************************************)
(* src/rust-src/src/distributed/pipeline.rs: the schedulers OneFOneB, GPipe *)
(* and DualPipe, each pulled by next_action on every stage of a pipeline    *)
(* group, and the messages and stored activations of the passes they order. *)
(*                                                                         *)
(* A job is one of                                                         *)
(*   "OneFOneB", "GPipe"  the scheduler, PipelineStage and the functions   *)
(*                        send_forward ... recv_backward, put together by  *)
(*                        the caller (the crate has no such caller);       *)
(*   "DualPipe"           DualPipeEngine::train_step;                      *)
(*   "DualPipeSchedule"   DualPipeScheduler pulled alone, as its test does. *)
(* A tensor is the micro-batch it was computed from and its direction.     *)
(***************************************************************************)
EXTENDS Integers, Sequences

CONSTANTS
  NumStages,       \* config.num_stages
  NumMicroBatches, \* config.num_micro_batches
  Budgets,         \* values of max_memory_bytes of ActivationBuffer, in activations
  Capacity,        \* messages the communicator buffers from one rank to another
  MaxIterations,   \* bound: iterations of the training loop
  Jobs             \* the jobs considered

ASSUME SchedulesAssumption ==
  /\ NumStages \in Nat \ {0}
  /\ NumMicroBatches \in Nat \ {0}
  /\ Budgets \subseteq Nat
  /\ Capacity \in Nat \ {0}
  /\ MaxIterations \in Nat
  /\ Jobs \subseteq {"OneFOneB", "GPipe", "DualPipe", "DualPipeSchedule"}
  /\ Jobs \cap {"DualPipe", "DualPipeSchedule"} # {} => NumMicroBatches >= 2

Stage == 0 .. NumStages - 1
Stream == {"regular", "reverse"}
MicroBatch == 0 .. NumMicroBatches - 1
Link == {l \in Stage \X Stage : l[1] - l[2] \in {1, -1}}
Tensor == [of : MicroBatch, dir : {"activation", "gradient"}]

VARIABLES
  job,     \* the job all stages run
  budget,  \* ActivationBuffer.max_memory_bytes
  done,    \* done[s]: iterations completed by s
  phase,   \* DualPipeScheduler.phase
  steps,   \* DualPipeScheduler.steps_in_phase
  fwd,     \* fwd[s][x]: forward_idx of stream x
  bwd,     \* bwd[s][x]: backward_idx of stream x
  ops,     \* ops[s]: what is left to do of the action s has pulled
  stash,   \* stash[s][x]: activations stored for the backward passes
  chan,    \* chan[<<a, b>>]: tensors sent by a that b has not received
  last,    \* last[s]: what the latest backward pass of s was computed from
  failed   \* stages whose iteration returned an error

vars == <<job, budget, done, phase, steps, fwd, bwd, ops, stash, chan, last, failed>>
schedule == <<phase, steps, fwd, bwd>>

Bidirectional == job \in {"DualPipe", "DualPipeSchedule"}
Streams == IF Bidirectional THEN Stream ELSE {"regular"}

(* The neighbour a forward pass of stream x receives from, or sends to.  *)
Upstream(s, x) == IF x = "regular" THEN s - 1 ELSE s + 1
Downstream(s, x) == IF x = "regular" THEN s + 1 ELSE s - 1

(* micro_batches_per_stream, and the micro-batch of index i of a stream. *)
PerStream == IF Bidirectional THEN NumMicroBatches \div 2 ELSE NumMicroBatches
MicroBatchOf(x, i) == IF x = "regular" THEN i ELSE PerStream + i
-----------------------------------------------------------------------------
(* The phases of the schedulers *)

(* Mutation of NumWarmup: one warmup forward too many. *)
NumWarmupOneMore(s) == NumStages - s

(* num_warmup_steps of OneFOneBScheduler *)
NumWarmup(s) == NumStages - s - 1

(* warmup_steps of DualPipeScheduler *)
WarmupSteps(s) == IF NumStages - s - 1 < s THEN s ELSE NumStages - s - 1

(* warmup_done and steady_forward_done are functions of forward_idx.     *)
OneFOneBPhase(s) ==
  IF fwd[s]["regular"] >= NumMicroBatches THEN "Cooldown"
  ELSE IF fwd[s]["regular"] < NumWarmup(s) THEN "Warmup" ELSE "Steady"

(* Mutation of GPipePhase: in_backward_phase is set one forward too late. *)
GPipePhaseNeverFlips(s) ==
  IF fwd[s]["regular"] <= NumMicroBatches THEN "Warmup" ELSE "Cooldown"

GPipePhase(s) == IF fwd[s]["regular"] < NumMicroBatches THEN "Warmup" ELSE "Cooldown"

(* Mutation of SteadySteps: one short. *)
SteadyStepsOneShort(s) == IF PerStream > WarmupSteps(s) THEN PerStream - WarmupSteps(s) - 1 ELSE 0

(* warmup_action falls through to steady_action, and that to cooldown_action. *)
SteadySteps(s) == IF PerStream > WarmupSteps(s) THEN PerStream - WarmupSteps(s) ELSE 0

DualPipePhase(s) ==
  IF phase[s] = "Warmup" /\ steps[s] < WarmupSteps(s) THEN "Warmup"
  ELSE IF \/ phase[s] = "Warmup" /\ SteadySteps(s) > 0
          \/ phase[s] = "Steady" /\ steps[s] < SteadySteps(s) THEN "Steady"
  ELSE "Cooldown"

Phase(s) == IF Bidirectional THEN DualPipePhase(s)
            ELSE IF job = "OneFOneB" THEN OneFOneBPhase(s) ELSE GPipePhase(s)

(* The streams that the next action of s passes forward, and backward.   *)
ForwardStreams(s) ==
  {x \in Streams : Phase(s) \in {"Warmup", "Steady"} /\ fwd[s][x] < PerStream}

(* Mutation of BackwardStreams: no end. *)
BackwardStreamsEndless(s) == {x \in Streams : Phase(s) \in {"Steady", "Cooldown"}}

BackwardStreams(s) ==
  {x \in Streams : Phase(s) \in {"Steady", "Cooldown"} /\ bwd[s][x] < PerStream}

(* next_action returns Done. *)
IsDone(s) == ForwardStreams(s) = {} /\ BackwardStreams(s) = {} /\ Phase(s) = "Cooldown"

(* The passes of an action, in the order train_step executes them.       *)
Pass(d, x, i) == [do |-> d, stream |-> x, of |-> MicroBatchOf(x, i)]
ForwardPass(s, x) == IF x \in ForwardStreams(s) THEN <<Pass("forward", x, fwd[s][x])>> ELSE <<>>
BackwardPass(s, x) == IF x \in BackwardStreams(s) THEN <<Pass("backward", x, bwd[s][x])>> ELSE <<>>
Passes(s) == (ForwardPass(s, "regular") \o ForwardPass(s, "reverse"))
               \o (BackwardPass(s, "regular") \o BackwardPass(s, "reverse"))
-----------------------------------------------------------------------------
NoPass == [of |-> 0, activation |-> 0, gradient |-> [of |-> 0, dir |-> "gradient"]]
Fresh == [s \in Stage |-> [x \in Stream |-> 0]]

Init ==
  /\ job \in Jobs
  /\ budget \in Budgets
  /\ done = [s \in Stage |-> 0]
  /\ phase = [s \in Stage |-> "Warmup"]
  /\ steps = [s \in Stage |-> 0]
  /\ fwd = Fresh
  /\ bwd = Fresh
  /\ ops = [s \in Stage |-> <<>>]
  /\ stash = [s \in Stage |-> [x \in Stream |-> <<>>]]
  /\ chan = [l \in Link |-> <<>>]
  /\ last = [s \in Stage |-> NoPass]
  /\ failed = {}

(* next_action, when it returns passes to execute (none of them: a bubble). *)
NextAction(s) ==
  /\ s \notin failed /\ ops[s] = <<>> /\ done[s] < MaxIterations /\ ~IsDone(s)
  /\ ops' = [ops EXCEPT ![s] = Passes(s)]
  /\ fwd' = [fwd EXCEPT ![s] = [x \in Stream |-> IF x \in ForwardStreams(s) THEN @[x] + 1 ELSE @[x]]]
  /\ bwd' = [bwd EXCEPT ![s] = [x \in Stream |-> IF x \in BackwardStreams(s) THEN @[x] + 1 ELSE @[x]]]
  /\ phase' = [phase EXCEPT ![s] = IF Bidirectional THEN Phase(s) ELSE @]
  /\ steps' = [steps EXCEPT ![s] = IF ~Bidirectional THEN @
                                   ELSE IF Phase(s) = phase[s] THEN @ + 1 ELSE 1]
  /\ UNCHANGED <<job, budget, done, stash, chan, last, failed>>

(* next_action returns Done: the iteration is over, its activations are      *)
(* cleared, and the next one begins with reset.                             *)
EndIteration(s) ==
  /\ s \notin failed /\ ops[s] = <<>> /\ done[s] < MaxIterations /\ IsDone(s)
  /\ done' = [done EXCEPT ![s] = @ + 1]
  /\ phase' = [phase EXCEPT ![s] = "Warmup"]
  /\ steps' = [steps EXCEPT ![s] = 0]
  /\ fwd' = [fwd EXCEPT ![s] = Fresh[s]]
  /\ bwd' = [bwd EXCEPT ![s] = Fresh[s]]
  /\ stash' = IF job = "DualPipe"
              THEN [stash EXCEPT ![s] = [x \in Stream |-> <<>>]] ELSE stash
  /\ UNCHANGED <<job, budget, ops, chan, last, failed>>

(* The scheduler alone: nobody executes the passes. *)
Discard(s) ==
  /\ job = "DualPipeSchedule"
  /\ ops[s] # <<>>
  /\ ops' = [ops EXCEPT ![s] = <<>>]
  /\ UNCHANGED <<job, budget, done, schedule, stash, chan, last, failed>>

Executes(s, what) ==
  /\ job # "DualPipeSchedule"
  /\ s \notin failed
  /\ ops[s] # <<>>
  /\ Head(ops[s]).do = what

(* What is left to do after the pass: if there is a stage `to`, first send.  *)
Then(s, to, t) ==
  IF to \in Stage THEN <<[do |-> "send", to |-> to, tensor |-> t]>> \o Tail(ops[s])
  ELSE Tail(ops[s])

Received(from, s) == [chan EXCEPT ![<<from, s>>] = Tail(@)]
Fail(s) == failed' = failed \cup {s} /\ UNCHANGED <<ops, stash, last>>

(* A forward pass: its input comes from the loader or from upstream; the     *)
(* activation is stored, within the budget of ActivationBuffer; the output   *)
(* is sent downstream or gives the loss.                                    *)
Forward(s) ==
  /\ Executes(s, "forward")
  /\ LET p == Head(ops[s])
         from == Upstream(s, p.stream)
         input == IF from \in Stage THEN Head(chan[<<from, s>>]).of ELSE p.of
         stored == Len(stash[s]["regular"]) + Len(stash[s]["reverse"])
     IN /\ from \in Stage => chan[<<from, s>>] # <<>>
        /\ chan' = IF from \in Stage THEN Received(from, s) ELSE chan
        /\ \/ /\ job = "DualPipe" /\ stored >= budget
              /\ Fail(s)
           \/ /\ job = "DualPipe" => stored < budget
              /\ stash' = [stash EXCEPT ![s][p.stream] = Append(@, input)]
              /\ ops' = [ops EXCEPT ![s] = Then(s, Downstream(s, p.stream),
                                                [of |-> input, dir |-> "activation"])]
              /\ UNCHANGED <<last, failed>>
  /\ UNCHANGED <<job, budget, done, schedule>>

(* Mutation of Backward: the newest activation is popped. *)
PopNewest(q) == q[Len(q)]

(* pop_activation, pop_regular, pop_reverse: the oldest activation. *)
Pop(q) == Head(q)

(* A backward pass. train_step receives a gradient on every stage, and where *)
(* there is no next stage receive_backward returns an error; a caller of the *)
(* other schedulers starts from the loss there. An empty stash is an error.  *)
Backward(s) ==
  /\ Executes(s, "backward")
  /\ LET p == Head(ops[s])
         from == Downstream(s, p.stream)
         stored == stash[s][p.stream]
         gradient == IF from \in Stage THEN Head(chan[<<from, s>>])
                     ELSE [of |-> Pop(stored), dir |-> "gradient"]
     IN /\ from \in Stage => chan[<<from, s>>] # <<>>
        /\ chan' = IF from \in Stage THEN Received(from, s) ELSE chan
        /\ \/ /\ stored = <<>> \/ (job = "DualPipe" /\ from \notin Stage)
              /\ Fail(s)
           \/ /\ stored # <<>> /\ (job = "DualPipe" => from \in Stage)
              /\ stash' = [stash EXCEPT ![s][p.stream] = Tail(@)]
              /\ last' = [last EXCEPT ![s] = [of |-> p.of, activation |-> Pop(stored),
                                              gradient |-> gradient]]
              /\ ops' = [ops EXCEPT ![s] = Then(s, Upstream(s, p.stream),
                                                [of |-> gradient.of, dir |-> "gradient"])]
              /\ UNCHANGED failed
  /\ UNCHANGED <<job, budget, done, schedule>>

(* communicator.send: the tensor waits in the link for its receiver. *)
Send(s) ==
  /\ Executes(s, "send")
  /\ LET p == Head(ops[s])
     IN /\ Len(chan[<<s, p.to>>]) < Capacity
        /\ chan' = [chan EXCEPT ![<<s, p.to>>] = Append(@, p.tensor)]
  /\ ops' = [ops EXCEPT ![s] = Tail(@)]
  /\ UNCHANGED <<job, budget, done, schedule, stash, last, failed>>

StageNext(s) ==
  NextAction(s) \/ EndIteration(s) \/ Discard(s) \/ Forward(s) \/ Backward(s) \/ Send(s)

Next == \E s \in Stage : StageNext(s)

Spec == Init /\ [][Next]_vars

(* Every stage is a process of its own that runs until it blocks. *)
FairSpec == Spec /\ \A s \in Stage : WF_vars(StageNext(s))
-----------------------------------------------------------------------------
TypeOK ==
  /\ job \in Jobs
  /\ budget \in Budgets
  /\ done \in [Stage -> 0 .. MaxIterations]
  /\ phase \in [Stage -> {"Warmup", "Steady", "Cooldown"}]
  /\ steps \in [Stage -> Nat]
  /\ fwd \in [Stage -> [Stream -> 0 .. NumMicroBatches]]
  /\ bwd \in [Stage -> [Stream -> 0 .. NumMicroBatches]]
  /\ \A s \in Stage : \A i \in DOMAIN ops[s] :
       ops[s][i].do \in {"forward", "backward", "send"}
  /\ stash \in [Stage -> [Stream -> Seq(MicroBatch)]]
  /\ chan \in [Link -> Seq(Tensor)]
  /\ last \in [Stage -> [of : MicroBatch, activation : MicroBatch, gradient : Tensor]]
  /\ failed \in SUBSET Stage

(* Messages and stored activations carry no micro-batch id that a pass would *)
(* look at: a backward pass takes the oldest activation and the next message *)
(* of the link. It nevertheless gets those of its own micro-batch, and a     *)
(* gradient where it expects one, at every stage under 1F1B and GPipe. (It   *)
(* says nothing of the DualPipe scheduler, where no backward pass returns.)  *)
MatchedPasses ==
  \A s \in Stage :
    last[s].activation = last[s].of /\ last[s].gradient = [of |-> last[s].of, dir |-> "gradient"]

(* Schedules put the backward pass of a micro-batch after its forward pass,  *)
(* and when one is done both streams have passed all of their micro-batches *)
(* in both directions (what the schedulers' tests assert for one stage).    *)
SchedulesComplete ==
  \A s \in Stage, x \in Streams :
    /\ bwd[s][x] <= fwd[s][x]
    /\ IsDone(s) => fwd[s][x] = PerStream /\ bwd[s][x] = PerStream

(* With the two unidirectional schedules every stage completes every         *)
(* iteration, with only Capacity messages buffered between two ranks.       *)
UnidirectionalCompletes ==
  job \in {"OneFOneB", "GPipe"} => <>(\A s \in Stage : done[s] = MaxIterations)

(* Passes of stage s that have been executed under OneFOneB. *)
Executed(s, what, pulled) ==
  IF job # "OneFOneB" THEN 0
  ELSE done[s] * NumMicroBatches + pulled[s]["regular"]
         - (IF \E i \in DOMAIN ops[s] : ops[s][i].do = what THEN 1 ELSE 0)

(* A pipeline run by OneFOneB implements the abstract pipeline; stage s      *)
(* never stores more than NumStages - s activations ("Simpler but higher     *)
(* memory usage than 1F1B." is said of GPipe, pipeline.rs:307).              *)
Abs == INSTANCE MicroBatchPipeline WITH
         done <- [s \in Stage |-> IF job = "OneFOneB" THEN done[s] * NumMicroBatches ELSE 0],
         forwarded <- [s \in Stage |-> Executed(s, "forward", fwd)],
         reversed <- [s \in Stage |-> Executed(s, "backward", bwd)]
AbsSpec == Abs!Spec
=============================================================================
