----------------------- MODULE PipelineSchedules_proofs -----------------------
(***************************************************************************)
(* Proofs about PipelineSchedules for every number of stages and of micro-  *)
(* batches, every capacity of the links and every memory budget.           *)
(*                                                                         *)
(* Base says where a stage is in its schedule and what is left of the       *)
(* action it has pulled. Under OneFOneB and GPipe (Chained) the tensors on  *)
(* a link, and the activations in a stash, are of consecutive micro-batches,*)
(* from the one its reader expects to the one its writer adds next. Under   *)
(* DualPipe (Stuck) no stage has passed anything backward yet: a stage is   *)
(* never further ahead of its neighbours than its neighbours are of it.     *)
(* Counted adds how many micro-batches have passed each stage over all the  *)
(* iterations: two neighbours differ by what is on the link between them,   *)
(* from which the refinement of MicroBatchPipeline by OneFOneB follows.     *)
(***************************************************************************)
EXTENDS PipelineSchedules, SequenceTheorems, TLAPS

PassOp == [do : {"forward", "backward"}, stream : Stream, of : MicroBatch]
SendOp == [do : {"send"}, to : Stage, tensor : Tensor]
Op == PassOp \cup SendOp

(* The order of the passes of an action, and the micro-batch of one of them. *)
Rank(o) == (IF o.do = "forward" THEN 0 ELSE 2) + (IF o.stream = "regular" THEN 1 ELSE 2)
IndexOf(o, f, b) ==
  MicroBatchOf(o.stream, IF o.do = "forward" THEN f[o.stream] - 1 ELSE b[o.stream] - 1)

(* What is left of the action last pulled, with the indices f and b.        *)
Remaining(q, s, f, b) ==
  /\ \A i \in 1 .. Len(q) : q[i] \in SendOp => i = 1 /\ <<s, q[i].to>> \in Link
  /\ \A i \in 1 .. Len(q) : q[i] \in PassOp => q[i].stream \in Streams /\ q[i].of = IndexOf(q[i], f, b)
  /\ \A i, j \in 1 .. Len(q) : i < j /\ q[i] \in PassOp /\ q[j] \in PassOp => Rank(q[i]) < Rank(q[j])

Has(q, d, x) == \E i \in 1 .. Len(q) : q[i] \in PassOp /\ q[i].do = d /\ q[i].stream = x
Pending(s, d, x) == Has(ops[s], d, x)

Typed == TypeOK /\ ops \in [Stage -> Seq(Op)]

(* Where stage s is in its schedule. *)
Sched(s) ==
  /\ \A x \in Streams : fwd[s][x] <= PerStream /\ bwd[s][x] <= fwd[s][x]
  /\ Bidirectional =>
       /\ fwd[s]["regular"] = fwd[s]["reverse"] /\ bwd[s]["regular"] = bwd[s]["reverse"]
       /\ phase[s] = "Warmup" =>
            /\ steps[s] <= WarmupSteps(s) /\ bwd[s]["regular"] = 0
            /\ fwd[s]["regular"] = IF steps[s] < PerStream THEN steps[s] ELSE PerStream
       /\ phase[s] = "Steady" =>
            /\ WarmupSteps(s) + steps[s] <= PerStream
            /\ fwd[s]["regular"] = WarmupSteps(s) + steps[s] /\ bwd[s]["regular"] = steps[s]
       /\ phase[s] = "Cooldown" => fwd[s]["regular"] = PerStream
  /\ job = "OneFOneB" => fwd[s]["regular"] - bwd[s]["regular"] <= NumWarmup(s)

Base == Typed /\ \A s \in Stage : Sched(s) /\ Remaining(ops[s], s, fwd[s], bwd[s])
-----------------------------------------------------------------------------
Unidirectional == job \in {"OneFOneB", "GPipe"}

Succ(m) == IF m + 1 = NumMicroBatches THEN 0 ELSE m + 1
Wrap(k) == IF k = NumMicroBatches THEN 0 ELSE k

(* The micro-batch that s passes forward, and backward, next.               *)
FwdNext(s) == IF Pending(s, "forward", "regular") THEN fwd[s]["regular"] - 1 ELSE Wrap(fwd[s]["regular"])
BwdNext(s) == IF Pending(s, "backward", "regular") THEN bwd[s]["regular"] - 1 ELSE Wrap(bwd[s]["regular"])

Sending(s, dir) == Len(ops[s]) > 0 /\ ops[s][1] \in SendOp /\ ops[s][1].tensor.dir = dir
(* The micro-batch whose activation, and whose gradient, s sends next.      *)
ActNext(s) == IF Sending(s, "activation") THEN ops[s][1].tensor.of ELSE FwdNext(s)
GradNext(s) == IF Sending(s, "gradient") THEN ops[s][1].tensor.of ELSE BwdNext(s)

(* q is a, Succ(a), ..., up to the predecessor of b. *)
Chain(q, a, b) ==
  /\ Len(q) = 0 => a = b
  /\ Len(q) > 0 => q[1] = a /\ b = Succ(q[Len(q)])
  /\ \A i \in 1 .. Len(q) : i < Len(q) => q[i + 1] = Succ(q[i])

TensorChain(q, d, a, b) ==
  /\ Len(q) = 0 => a = b
  /\ Len(q) > 0 => q[1].of = a /\ b = Succ(q[Len(q)].of)
  /\ \A i \in 1 .. Len(q) : i < Len(q) => q[i + 1].of = Succ(q[i].of)
  /\ \A i \in 1 .. Len(q) : q[i].dir = d

Bit(b) == IF b THEN 1 ELSE 0

LocalChain(s) ==
  /\ Chain(stash[s]["regular"], BwdNext(s), FwdNext(s))
  /\ Len(stash[s]["regular"]) = (fwd[s]["regular"] - Bit(Pending(s, "forward", "regular")))
                                 - (bwd[s]["regular"] - Bit(Pending(s, "backward", "regular")))
  /\ Sending(s, "activation") => ops[s][1].to = s + 1 /\ Succ(ops[s][1].tensor.of) = FwdNext(s)
  /\ Sending(s, "gradient") => ops[s][1].to = s - 1 /\ Succ(ops[s][1].tensor.of) = BwdNext(s)
  /\ last[s].activation = last[s].of /\ last[s].gradient = [of |-> last[s].of, dir |-> "gradient"]

(* The activations on the way from s to the next stage, and the gradients   *)
(* on the way to the stage before.                                          *)
ActLink(s) ==
  s + 1 \in Stage => TensorChain(chan[<<s, s + 1>>], "activation", FwdNext(s + 1), ActNext(s))
GradLink(s) ==
  s - 1 \in Stage => TensorChain(chan[<<s, s - 1>>], "gradient", BwdNext(s - 1), GradNext(s))

Chained == Unidirectional => \A s \in Stage : LocalChain(s) /\ ActLink(s) /\ GradLink(s)
-----------------------------------------------------------------------------
SendingTo(s, t) == Len(ops[s]) > 0 /\ ops[s][1] \in SendOp /\ ops[s][1].to = t

LocalStuck(s) ==
  /\ done[s] = 0 /\ last[s] = NoPass
  /\ \A x \in Stream : Len(stash[s][x]) = fwd[s][x] - Bit(Pending(s, "forward", x))
  /\ Pending(s, "forward", "regular") => Pending(s, "forward", "reverse")
  /\ Pending(s, "backward", "reverse") => Pending(s, "backward", "regular")
  /\ bwd[s]["regular"] > 0 => Pending(s, "backward", "regular")

(* What a has sent of stream x, is sending and has not stored yet are the    *)
(* activations that its neighbour downstream lacks.                         *)
Flow(a, x) ==
  LET b == Downstream(a, x) IN
  b \in Stage =>
    Len(stash[b][x]) + Len(chan[<<a, b>>]) + Bit(SendingTo(a, b)) <= Len(stash[a][x])

Stuck == job = "DualPipe" => \A s \in Stage : LocalStuck(s) /\ \A x \in Stream : Flow(s, x)

Alone == job = "DualPipeSchedule" => \A s \in Stage : last[s] = NoPass

IInv == Base /\ Chained /\ Stuck /\ Alone
-----------------------------------------------------------------------------
(* Sequences *)

LEMMA PairFacts ==
  ASSUME NEW S, NEW e \in S, NEW f \in S
  PROVE  <<e>> \o <<f>> = <<e, f>>
<1>1. /\ <<e>> \in Seq(S) /\ <<f>> \in Seq(S) /\ <<e, f>> \in Seq(S)
      /\ Len(<<e>>) = 1 /\ Len(<<f>>) = 1 /\ Len(<<e, f>>) = 2
  OBVIOUS
<1>2. /\ <<e>> \o <<f>> \in Seq(S) /\ Len(<<e>> \o <<f>>) = 2
      /\ \A i \in 1 .. 2 : (<<e>> \o <<f>>)[i] = IF i <= 1 THEN <<e>>[i] ELSE <<f>>[i - 1]
  BY <1>1, ConcatProperties
<1>3. \A i \in 1 .. 2 : (<<e>> \o <<f>>)[i] = <<e, f>>[i]
  BY <1>2
<1>4. QED
  BY <1>1, <1>2, <1>3, SeqEqual

LEMMA PairsFacts ==
  ASSUME NEW S, NEW e \in S, NEW f \in S, NEW g \in S, NEW h \in S
  PROVE  <<e, f>> \o <<g, h>> = <<e, f, g, h>>
<1>1. /\ <<e, f>> \in Seq(S) /\ <<g, h>> \in Seq(S) /\ <<e, f, g, h>> \in Seq(S)
      /\ Len(<<e, f>>) = 2 /\ Len(<<g, h>>) = 2 /\ Len(<<e, f, g, h>>) = 4
  OBVIOUS
<1>2. /\ <<e, f>> \o <<g, h>> \in Seq(S) /\ Len(<<e, f>> \o <<g, h>>) = 4
      /\ \A i \in 1 .. 4 : (<<e, f>> \o <<g, h>>)[i] = IF i <= 2 THEN <<e, f>>[i] ELSE <<g, h>>[i - 2]
  BY <1>1, ConcatProperties
<1>3. \A i \in 1 .. 4 : (<<e, f>> \o <<g, h>>)[i] = <<e, f, g, h>>[i]
  BY <1>2
<1>4. QED
  BY <1>1, <1>2, <1>3, SeqEqual

LEMMA TailFacts ==
  ASSUME NEW S, NEW q \in Seq(S), q # <<>>
  PROVE  /\ Len(q) \in Nat /\ Len(q) >= 1 /\ Head(q) = q[1] /\ q[1] \in S
         /\ Tail(q) \in Seq(S) /\ Len(Tail(q)) = Len(q) - 1
         /\ \A i \in 1 .. Len(Tail(q)) : Tail(q)[i] = q[i + 1] /\ i + 1 \in 1 .. Len(q)
<1>1. Len(q) \in Nat /\ Len(q) >= 1
  BY EmptySeq, LenProperties
<1>2. Head(q) = q[1] /\ q[1] \in S
  BY <1>1, ElementOfSeq
<1>3. /\ Tail(q) \in Seq(S) /\ Len(Tail(q)) = Len(q) - 1
      /\ \A i \in 1 .. Len(Tail(q)) : Tail(q)[i] = q[i + 1]
  BY HeadTailProperties
<1>4. QED
  BY <1>1, <1>2, <1>3

(* The head of q replaced by e. *)
LEMMA ReplacedFacts ==
  ASSUME NEW S, NEW q \in Seq(S), q # <<>>, NEW e \in S
  PROVE  /\ <<e>> \o Tail(q) \in Seq(S) /\ Len(<<e>> \o Tail(q)) = Len(q)
         /\ (<<e>> \o Tail(q))[1] = e
         /\ \A i \in 2 .. Len(q) : (<<e>> \o Tail(q))[i] = q[i]
<1>1. <<e>> \in Seq(S) /\ Len(<<e>>) = 1 /\ <<e>>[1] = e
  OBVIOUS
<1>2. /\ Len(q) \in Nat /\ Len(q) >= 1 /\ Tail(q) \in Seq(S) /\ Len(Tail(q)) = Len(q) - 1
      /\ \A i \in 1 .. Len(Tail(q)) : Tail(q)[i] = q[i + 1]
  BY TailFacts
<1>3. /\ <<e>> \o Tail(q) \in Seq(S) /\ Len(<<e>> \o Tail(q)) = 1 + (Len(q) - 1)
      /\ \A i \in 1 .. 1 + (Len(q) - 1) :
           (<<e>> \o Tail(q))[i] = IF i <= 1 THEN <<e>>[i] ELSE Tail(q)[i - 1]
  <2>1. /\ <<e>> \o Tail(q) \in Seq(S) /\ Len(<<e>> \o Tail(q)) = Len(<<e>>) + Len(Tail(q))
        /\ \A i \in 1 .. Len(<<e>>) + Len(Tail(q)) :
             (<<e>> \o Tail(q))[i] = IF i <= Len(<<e>>) THEN <<e>>[i] ELSE Tail(q)[i - Len(<<e>>)]
    BY <1>1, <1>2, ConcatProperties
  <2>2. QED
    BY <1>1, <1>2, <2>1
<1>4. 1 + (Len(q) - 1) = Len(q)
  BY <1>2
<1>5. \A i \in 2 .. Len(q) : (<<e>> \o Tail(q))[i] = q[i]
  <2> SUFFICES ASSUME NEW i \in 2 .. Len(q) PROVE (<<e>> \o Tail(q))[i] = q[i]
    OBVIOUS
  <2>1. i \in 1 .. Len(q) /\ ~(i <= 1) /\ i - 1 \in 1 .. Len(Tail(q)) /\ (i - 1) + 1 = i
    BY <1>2
  <2>2. QED
    BY <1>2, <1>3, <1>4, <2>1
<1>6. (<<e>> \o Tail(q))[1] = e
  BY <1>1, <1>2, <1>3, <1>4
<1>7. QED
  BY <1>3, <1>4, <1>5, <1>6

LEMMA AppendFacts ==
  ASSUME NEW S, NEW q \in Seq(S), NEW e \in S
  PROVE  /\ Append(q, e) \in Seq(S) /\ Len(Append(q, e)) = Len(q) + 1 /\ Len(q) \in Nat
         /\ \A i \in 1 .. Len(q) : Append(q, e)[i] = q[i]
         /\ Append(q, e)[Len(q) + 1] = e
BY AppendProperties, LenProperties
-----------------------------------------------------------------------------
(* Types *)

LEMMA Constants ==
  ASSUME Typed
  PROVE  /\ NumStages \in Nat /\ NumStages >= 1 /\ NumMicroBatches \in Nat /\ NumMicroBatches >= 1
         /\ Capacity \in Nat /\ Capacity >= 1 /\ MaxIterations \in Nat
         /\ PerStream \in Nat /\ PerStream >= 1 /\ PerStream <= NumMicroBatches
         /\ Bidirectional => PerStream + PerStream <= NumMicroBatches
         /\ ~Bidirectional => PerStream = NumMicroBatches
         /\ job \in {"OneFOneB", "GPipe", "DualPipe", "DualPipeSchedule"}
<1>1. job \in Jobs /\ Jobs \subseteq {"OneFOneB", "GPipe", "DualPipe", "DualPipeSchedule"}
  BY SchedulesAssumption DEF Typed, TypeOK
<1>2. Bidirectional => NumMicroBatches >= 2
  BY <1>1, SchedulesAssumption DEF Bidirectional
<1>3. NumMicroBatches \in Nat /\ NumMicroBatches >= 1
  BY SchedulesAssumption
<1>4. \A n \in Nat : n >= 2 => n \div 2 \in Nat /\ n \div 2 >= 1 /\ n \div 2 <= n /\ (n \div 2) + (n \div 2) <= n
  OBVIOUS
<1>5. QED
  BY <1>1, <1>2, <1>3, <1>4, SchedulesAssumption DEF PerStream

LEMMA StageTypes ==
  /\ \A s \in Stage : s \in Int /\ s \in Nat /\ s >= 0 /\ s < NumStages
  /\ \A s \in Int : 0 <= s /\ s < NumStages => s \in Stage
  /\ \A s \in Stage, u \in Stage : u = s + 1 \/ u = s - 1 => <<s, u>> \in Link /\ <<u, s>> \in Link
  /\ \A s, u : <<s, u>> \in Link => s \in Stage /\ u \in Stage /\ (u = s + 1 \/ u = s - 1)
<1>1. NumStages \in Nat
  BY SchedulesAssumption
<1>2. \A s \in Stage : s \in Int /\ s \in Nat /\ s >= 0 /\ s < NumStages
  BY <1>1 DEF Stage
<1>3. \A s \in Int : 0 <= s /\ s < NumStages => s \in Stage
  BY <1>1 DEF Stage
<1>4. \A s \in Stage, u \in Stage : u = s + 1 \/ u = s - 1 => <<s, u>> \in Link /\ <<u, s>> \in Link
  BY <1>2 DEF Link
<1>5. \A s, u : <<s, u>> \in Link => s \in Stage /\ u \in Stage /\ (u = s + 1 \/ u = s - 1)
  BY <1>2 DEF Link
<1>6. QED
  BY <1>2, <1>3, <1>4, <1>5

LEMMA OpFacts ==
  /\ \A o \in PassOp : o \in Op /\ o \notin SendOp /\ o.do # "send" /\ o.do \in {"forward", "backward"}
                       /\ o.stream \in Stream /\ o.of \in MicroBatch
  /\ \A o \in SendOp : o \in Op /\ o \notin PassOp /\ o.do = "send" /\ o.to \in Stage /\ o.tensor \in Tensor
  /\ \A o \in Op : o \in PassOp \/ o \in SendOp
BY DEF Op, PassOp, SendOp

LEMMA IndexTypes ==
  ASSUME Typed, NEW s \in Stage
  PROVE  /\ \A x \in Stream : fwd[s][x] \in Nat /\ bwd[s][x] \in Nat
         /\ ops[s] \in Seq(Op) /\ Len(ops[s]) \in Nat /\ \A i \in 1 .. Len(ops[s]) : ops[s][i] \in Op
         /\ steps[s] \in Nat /\ done[s] \in Nat /\ phase[s] \in {"Warmup", "Steady", "Cooldown"}
         /\ \A x \in Stream : stash[s][x] \in Seq(MicroBatch) /\ Len(stash[s][x]) \in Nat
         /\ \A l \in Link : chan[l] \in Seq(Tensor) /\ Len(chan[l]) \in Nat
<1>1. \A k \in 0 .. NumMicroBatches : k \in Nat
  BY SchedulesAssumption
<1>2. \A x \in Stream : fwd[s][x] \in Nat /\ bwd[s][x] \in Nat
  BY <1>1 DEF Typed, TypeOK
<1>3. ops[s] \in Seq(Op)
  BY DEF Typed
<1>4. Len(ops[s]) \in Nat /\ \A i \in 1 .. Len(ops[s]) : ops[s][i] \in Op
  BY <1>3, LenProperties, ElementOfSeq
<1>5. steps[s] \in Nat /\ done[s] \in Nat /\ phase[s] \in {"Warmup", "Steady", "Cooldown"}
  BY SchedulesAssumption DEF Typed, TypeOK
<1>6. \A x \in Stream : stash[s][x] \in Seq(MicroBatch)
  BY DEF Typed, TypeOK
<1>7. \A l \in Link : chan[l] \in Seq(Tensor)
  BY DEF Typed, TypeOK
<1>8. QED
  BY <1>2, <1>3, <1>4, <1>5, <1>6, <1>7, LenProperties
-----------------------------------------------------------------------------
(* What an action pulls *)

LEMMA PhaseNames ==
  ASSUME NEW s
  PROVE  /\ Phase(s) \in {"Warmup", "Steady", "Cooldown"}
         /\ DualPipePhase(s) \in {"Warmup", "Steady", "Cooldown"}
BY DEF Phase, OneFOneBPhase, GPipePhase, DualPipePhase

LEMMA StreamFacts ==
  /\ Stream = {"regular", "reverse"}
  /\ Streams \subseteq Stream /\ "regular" \in Streams
  /\ Bidirectional => Streams = Stream
  /\ ~Bidirectional => Streams = {"regular"}
BY DEF Stream, Streams

(* The streams an action passes forward and backward have passes left. *)
LEMMA PullTypes ==
  ASSUME Typed, NEW s \in Stage
  PROVE  /\ \A x \in ForwardStreams(s) : x \in Streams /\ x \in Stream /\ fwd[s][x] < PerStream
         /\ \A x \in BackwardStreams(s) : x \in Streams /\ x \in Stream /\ bwd[s][x] < PerStream
BY StreamFacts DEF ForwardStreams, BackwardStreams

LEMMA WarmupTypes ==
  ASSUME Typed, NEW s \in Stage
  PROVE  /\ WarmupSteps(s) \in Nat /\ NumWarmup(s) \in Nat /\ SteadySteps(s) \in Nat
         /\ SteadySteps(s) > 0 => WarmupSteps(s) + SteadySteps(s) = PerStream
         /\ SteadySteps(s) = 0 => PerStream <= WarmupSteps(s)
<1>1. s \in Nat /\ s < NumStages /\ NumStages \in Nat /\ PerStream \in Nat
  BY StageTypes, Constants
<1>2. WarmupSteps(s) \in Nat /\ NumWarmup(s) \in Nat
  BY <1>1 DEF WarmupSteps, NumWarmup
<1>3. QED
  BY <1>1, <1>2 DEF SteadySteps

(* Both streams of a bidirectional job are passed together; the backward     *)
(* index never gets ahead of the forward one; nothing is left at the end.    *)
LEMMA PullFacts ==
  ASSUME Typed, NEW s \in Stage, Sched(s)
  PROVE  /\ Bidirectional => ForwardStreams(s) \in {{}, Stream} /\ BackwardStreams(s) \in {{}, Stream}
         /\ ~Bidirectional => ForwardStreams(s) \in {{}, {"regular"}} /\ BackwardStreams(s) \in {{}, {"regular"}}
         /\ \A x \in BackwardStreams(s) : x \in ForwardStreams(s) \/ bwd[s][x] < fwd[s][x]
         /\ Phase(s) = "Cooldown" => \A x \in Streams : fwd[s][x] = PerStream
         /\ IsDone(s) => \A x \in Streams : fwd[s][x] = PerStream /\ bwd[s][x] = PerStream
         /\ Phase(s) = "Steady" => fwd[s]["regular"] < PerStream /\ bwd[s]["regular"] < PerStream
         /\ ForwardStreams(s) = IF Phase(s) \in {"Warmup", "Steady"} /\ fwd[s]["regular"] < PerStream THEN Streams ELSE {}
         /\ BackwardStreams(s) = IF Phase(s) \in {"Steady", "Cooldown"} /\ bwd[s]["regular"] < PerStream THEN Streams ELSE {}
<1> DEFINE f == fwd[s]["regular"]
           b == bwd[s]["regular"]
<1>1. /\ \A x \in Stream : fwd[s][x] \in Nat /\ bwd[s][x] \in Nat
      /\ \A x \in Streams : fwd[s][x] <= PerStream /\ bwd[s][x] <= fwd[s][x]
      /\ PerStream \in Nat /\ f \in Nat /\ b \in Nat /\ f <= PerStream /\ b <= f
  BY IndexTypes, Constants, StreamFacts DEF Sched
<1>2. Bidirectional => fwd[s]["reverse"] = f /\ bwd[s]["reverse"] = b
  BY DEF Sched
<1>3. Phase(s) = "Cooldown" => f = PerStream
  <2>1. CASE ~Bidirectional
    BY <1>1, <2>1, Constants DEF Phase, OneFOneBPhase, GPipePhase
  <2>2. CASE Bidirectional
    <3>1. steps[s] \in Nat /\ phase[s] \in {"Warmup", "Steady", "Cooldown"}
      BY IndexTypes
    <3>2. CASE phase[s] = "Warmup"
      BY <1>1, <2>2, <3>1, <3>2, WarmupTypes DEF Phase, DualPipePhase, Sched
    <3>3. CASE phase[s] = "Steady"
      BY <1>1, <2>2, <3>1, <3>3, WarmupTypes DEF Phase, DualPipePhase, Sched
    <3>4. CASE phase[s] = "Cooldown"
      BY <2>2, <3>4 DEF Sched
    <3>5. QED
      BY <3>1, <3>2, <3>3, <3>4
  <2>3. QED
    BY <2>1, <2>2
<1>4. Phase(s) = "Steady" => f < PerStream /\ b < PerStream
  <2>1. CASE ~Bidirectional
    BY <1>1, <2>1, Constants DEF Phase, OneFOneBPhase, GPipePhase
  <2>2. CASE Bidirectional
    <3>1. steps[s] \in Nat /\ phase[s] \in {"Warmup", "Steady", "Cooldown"}
      BY IndexTypes
    <3>2. CASE phase[s] = "Warmup"
      BY <1>1, <2>2, <3>1, <3>2, WarmupTypes DEF Phase, DualPipePhase, Sched
    <3>3. CASE phase[s] = "Steady"
      BY <1>1, <2>2, <3>1, <3>3, WarmupTypes DEF Phase, DualPipePhase, Sched
    <3>4. CASE phase[s] = "Cooldown"
      BY <2>2, <3>4 DEF Phase, DualPipePhase
    <3>5. QED
      BY <3>1, <3>2, <3>3, <3>4
  <2>3. QED
    BY <2>1, <2>2
<1>5. /\ \A x \in Streams : fwd[s][x] = f /\ bwd[s][x] = b
      /\ Phase(s) \in {"Warmup", "Steady", "Cooldown"}
  BY <1>2, StreamFacts, PhaseNames
<1> HIDE DEF f, b
<1>6. ForwardStreams(s) = IF Phase(s) \in {"Warmup", "Steady"} /\ f < PerStream THEN Streams ELSE {}
  BY <1>5 DEF ForwardStreams
<1>7. BackwardStreams(s) = IF Phase(s) \in {"Steady", "Cooldown"} /\ b < PerStream THEN Streams ELSE {}
  BY <1>5 DEF BackwardStreams
<1>8. \A x \in BackwardStreams(s) : x \in ForwardStreams(s) \/ bwd[s][x] < fwd[s][x]
  <2>1. b < PerStream /\ Phase(s) = "Cooldown" => b < f
    BY <1>3
  <2>2. QED
    BY <1>4, <1>5, <1>6, <1>7, <2>1
<1>9. IsDone(s) => \A x \in Streams : fwd[s][x] = PerStream /\ bwd[s][x] = PerStream
  <2>1. IsDone(s) => Phase(s) = "Cooldown" /\ ~(b < PerStream)
    BY <1>7, StreamFacts DEF IsDone
  <2>2. QED
    BY <1>1, <1>3, <1>5, <2>1
<1>10. QED
  BY <1>3, <1>4, <1>5, <1>6, <1>7, <1>8, <1>9, StreamFacts DEF f, b

(* f and b are the indices of stage s after it has pulled an action. *)
Advanced(s, f, b) ==
  /\ \A x \in Stream : f[x] = IF x \in ForwardStreams(s) THEN fwd[s][x] + 1 ELSE fwd[s][x]
  /\ \A x \in Stream : b[x] = IF x \in BackwardStreams(s) THEN bwd[s][x] + 1 ELSE bwd[s][x]

(* The passes of an action, in their order. *)
LEMMA PassesFacts ==
  ASSUME Typed, NEW s \in Stage, Sched(s), NEW f, NEW b, Advanced(s, f, b)
  PROVE  /\ Passes(s) \in Seq(Op)
         /\ Remaining(Passes(s), s, f, b)
         /\ \A x \in Stream : Has(Passes(s), "forward", x) <=> x \in ForwardStreams(s)
         /\ \A x \in Stream : Has(Passes(s), "backward", x) <=> x \in BackwardStreams(s)
         /\ \A i \in 1 .. Len(Passes(s)) : Passes(s)[i] \in PassOp
<1> DEFINE F(x) == Pass("forward", x, fwd[s][x])
           B(x) == Pass("backward", x, bwd[s][x])
<1>1. \A x \in ForwardStreams(s) : /\ F(x) \in PassOp /\ F(x).do = "forward" /\ F(x).stream = x /\ F(x).of = IndexOf(F(x), f, b)
                                   /\ x \in Streams
  <2> SUFFICES ASSUME NEW x \in ForwardStreams(s)
               PROVE  /\ F(x) \in PassOp /\ F(x).do = "forward" /\ F(x).stream = x /\ F(x).of = IndexOf(F(x), f, b)
                      /\ x \in Streams
    OBVIOUS
  <2>1. x \in Streams /\ x \in Stream /\ fwd[s][x] < PerStream /\ fwd[s][x] \in Nat
    BY PullTypes, IndexTypes
  <2>2. MicroBatchOf(x, fwd[s][x]) \in MicroBatch
    <3>1. PerStream \in Nat /\ NumMicroBatches \in Nat /\ PerStream <= NumMicroBatches
          /\ (Bidirectional => PerStream + PerStream <= NumMicroBatches)
      BY Constants
    <3>2. x = "regular" \/ (x = "reverse" /\ Bidirectional)
      BY <2>1, StreamFacts
    <3>3. QED
      BY <2>1, <3>1, <3>2 DEF MicroBatchOf, MicroBatch
  <2>3. f[x] - 1 = fwd[s][x]
    BY <2>1 DEF Advanced
  <2>4. F(x) \in PassOp /\ F(x).do = "forward" /\ F(x).stream = x /\ F(x).of = MicroBatchOf(x, fwd[s][x])
    BY <2>1, <2>2 DEF Pass, PassOp
  <2>5. QED
    BY <2>1, <2>3, <2>4 DEF IndexOf
<1>2. \A x \in BackwardStreams(s) : /\ B(x) \in PassOp /\ B(x).do = "backward" /\ B(x).stream = x /\ B(x).of = IndexOf(B(x), f, b)
                                    /\ x \in Streams
  <2> SUFFICES ASSUME NEW x \in BackwardStreams(s)
               PROVE  /\ B(x) \in PassOp /\ B(x).do = "backward" /\ B(x).stream = x /\ B(x).of = IndexOf(B(x), f, b)
                      /\ x \in Streams
    OBVIOUS
  <2>1. x \in Streams /\ x \in Stream /\ bwd[s][x] < PerStream /\ bwd[s][x] \in Nat
    BY PullTypes, IndexTypes
  <2>2. MicroBatchOf(x, bwd[s][x]) \in MicroBatch
    <3>1. PerStream \in Nat /\ NumMicroBatches \in Nat /\ PerStream <= NumMicroBatches
          /\ (Bidirectional => PerStream + PerStream <= NumMicroBatches)
      BY Constants
    <3>2. x = "regular" \/ (x = "reverse" /\ Bidirectional)
      BY <2>1, StreamFacts
    <3>3. QED
      BY <2>1, <3>1, <3>2 DEF MicroBatchOf, MicroBatch
  <2>3. b[x] - 1 = bwd[s][x]
    BY <2>1 DEF Advanced
  <2>4. B(x) \in PassOp /\ B(x).do = "backward" /\ B(x).stream = x /\ B(x).of = MicroBatchOf(x, bwd[s][x])
    BY <2>1, <2>2 DEF Pass, PassOp
  <2>5. QED
    BY <2>1, <2>3, <2>4 DEF IndexOf
<1> DEFINE fr == F("regular")
           fx == F("reverse")
           br == B("regular")
           bx == B("reverse")
           q == Passes(s)
<1>3. /\ "regular" \in ForwardStreams(s) => fr \in PassOp /\ fr.do = "forward" /\ fr.stream = "regular" /\ fr.of = IndexOf(fr, f, b)
      /\ "reverse" \in ForwardStreams(s) => fx \in PassOp /\ fx.do = "forward" /\ fx.stream = "reverse" /\ fx.of = IndexOf(fx, f, b)
      /\ "regular" \in BackwardStreams(s) => br \in PassOp /\ br.do = "backward" /\ br.stream = "regular" /\ br.of = IndexOf(br, f, b)
      /\ "reverse" \in BackwardStreams(s) => bx \in PassOp /\ bx.do = "backward" /\ bx.stream = "reverse" /\ bx.of = IndexOf(bx, f, b)
      /\ "reverse" \in ForwardStreams(s) \/ "reverse" \in BackwardStreams(s) => Bidirectional
  BY <1>1, <1>2, StreamFacts
<1>4. /\ ForwardPass(s, "regular") = IF "regular" \in ForwardStreams(s) THEN <<fr>> ELSE <<>>
      /\ ForwardPass(s, "reverse") = IF "reverse" \in ForwardStreams(s) THEN <<fx>> ELSE <<>>
      /\ BackwardPass(s, "regular") = IF "regular" \in BackwardStreams(s) THEN <<br>> ELSE <<>>
      /\ BackwardPass(s, "reverse") = IF "reverse" \in BackwardStreams(s) THEN <<bx>> ELSE <<>>
  BY DEF ForwardPass, BackwardPass
<1> HIDE DEF fr, fx, br, bx, F, B
<1>5. /\ "reverse" \in ForwardStreams(s) => "regular" \in ForwardStreams(s)
      /\ "reverse" \in BackwardStreams(s) => "regular" \in BackwardStreams(s)
      /\ Bidirectional => ("regular" \in ForwardStreams(s) => "reverse" \in ForwardStreams(s))
      /\ Bidirectional => ("regular" \in BackwardStreams(s) => "reverse" \in BackwardStreams(s))
      /\ ~Bidirectional => "reverse" \notin ForwardStreams(s) /\ "reverse" \notin BackwardStreams(s)
  BY PullFacts, StreamFacts
<1> DEFINE a == ForwardPass(s, "regular") \o ForwardPass(s, "reverse")
           c == BackwardPass(s, "regular") \o BackwardPass(s, "reverse")
<1>6. a = IF "reverse" \in ForwardStreams(s) THEN <<fr, fx>>
          ELSE IF "regular" \in ForwardStreams(s) THEN <<fr>> ELSE <<>>
  <2>1. CASE "reverse" \in ForwardStreams(s)
    <3>1. fr \in PassOp /\ fx \in PassOp
      BY <1>3, <1>5, <2>1
    <3>2. <<fr>> \o <<fx>> = <<fr, fx>>
      BY <3>1, PairFacts
    <3>3. QED
      BY <1>4, <1>5, <2>1, <3>2
  <2>2. CASE "reverse" \notin ForwardStreams(s) /\ "regular" \in ForwardStreams(s)
    <3>1. <<fr>> \in Seq(PassOp)
      BY <1>3, <2>2
    <3>2. QED
      BY <1>4, <2>2, <3>1, ConcatEmptySeq
  <2>3. CASE "reverse" \notin ForwardStreams(s) /\ "regular" \notin ForwardStreams(s)
    <3>1. <<>> \o <<>> = <<>>
      BY EmptySeq, ConcatEmptySeq
    <3>2. QED
      BY <1>4, <2>3, <3>1
  <2>4. QED
    BY <2>1, <2>2, <2>3
<1>7. c = IF "reverse" \in BackwardStreams(s) THEN <<br, bx>>
          ELSE IF "regular" \in BackwardStreams(s) THEN <<br>> ELSE <<>>
  <2>1. CASE "reverse" \in BackwardStreams(s)
    <3>1. br \in PassOp /\ bx \in PassOp
      BY <1>3, <1>5, <2>1
    <3>2. <<br>> \o <<bx>> = <<br, bx>>
      BY <3>1, PairFacts
    <3>3. QED
      BY <1>4, <1>5, <2>1, <3>2
  <2>2. CASE "reverse" \notin BackwardStreams(s) /\ "regular" \in BackwardStreams(s)
    <3>1. <<br>> \in Seq(PassOp)
      BY <1>3, <2>2
    <3>2. QED
      BY <1>4, <2>2, <3>1, ConcatEmptySeq
  <2>3. CASE "reverse" \notin BackwardStreams(s) /\ "regular" \notin BackwardStreams(s)
    <3>1. <<>> \o <<>> = <<>>
      BY EmptySeq, ConcatEmptySeq
    <3>2. QED
      BY <1>4, <2>3, <3>1
  <2>4. QED
    BY <2>1, <2>2, <2>3
<1>8. q = a \o c
  BY DEF Passes
<1> HIDE DEF a, c, q
<1> DEFINE FR == "regular" \in ForwardStreams(s)
           FX == "reverse" \in ForwardStreams(s)
           BR == "regular" \in BackwardStreams(s)
           BX == "reverse" \in BackwardStreams(s)
<1> HIDE DEF FR, FX, BR, BX
<1>9. \/ q = <<>> /\ ~FR /\ ~FX /\ ~BR /\ ~BX
      \/ q = <<fr>> /\ FR /\ ~FX /\ ~BR /\ ~BX
      \/ q = <<br>> /\ ~FR /\ ~FX /\ BR /\ ~BX
      \/ q = <<fr, br>> /\ FR /\ ~FX /\ BR /\ ~BX
      \/ q = <<fr, fx>> /\ FR /\ FX /\ ~BR /\ ~BX
      \/ q = <<br, bx>> /\ ~FR /\ ~FX /\ BR /\ BX
      \/ q = <<fr, fx, br, bx>> /\ FR /\ FX /\ BR /\ BX
  <2>1. CASE ~FR /\ ~FX
    <3>1. a = <<>> /\ c \in Seq(PassOp)
      BY <1>3, <1>6, <1>7, <1>5, <2>1 DEF FR, FX
    <3>2. q = c
      BY <1>8, <3>1, ConcatEmptySeq
    <3>3. QED
      BY <1>5, <1>7, <2>1, <3>2 DEF FR, FX, BR, BX
  <2>2. CASE ~BR /\ ~BX
    <3>1. c = <<>> /\ a \in Seq(PassOp)
      BY <1>3, <1>6, <1>7, <1>5, <2>2 DEF BR, BX
    <3>2. q = a
      BY <1>8, <3>1, ConcatEmptySeq
    <3>3. QED
      BY <1>5, <1>6, <2>2, <3>2 DEF FR, FX, BR, BX
  <2>3. CASE FR /\ BR /\ ~FX /\ ~BX
    <3>1. a = <<fr>> /\ c = <<br>> /\ fr \in PassOp /\ br \in PassOp
      BY <1>3, <1>6, <1>7, <2>3 DEF FR, FX, BR, BX
    <3>2. QED
      BY <1>8, <2>3, <3>1, PairFacts
  <2>4. CASE FR /\ BR /\ FX /\ BX
    <3>1. a = <<fr, fx>> /\ c = <<br, bx>> /\ fr \in PassOp /\ br \in PassOp /\ fx \in PassOp /\ bx \in PassOp
      BY <1>3, <1>6, <1>7, <2>4 DEF FR, FX, BR, BX
    <3>2. QED
      BY <1>8, <2>4, <3>1, PairsFacts
  <2>5. QED
    BY <1>5, <2>1, <2>2, <2>3, <2>4 DEF FR, FX, BR, BX
<1>10. QED
  <2>1. /\ FR => fr \in PassOp /\ fr.do = "forward" /\ fr.stream = "regular" /\ fr.of = IndexOf(fr, f, b)
        /\ FX => fx \in PassOp /\ fx.do = "forward" /\ fx.stream = "reverse" /\ fx.of = IndexOf(fx, f, b)
        /\ BR => br \in PassOp /\ br.do = "backward" /\ br.stream = "regular" /\ br.of = IndexOf(br, f, b)
        /\ BX => bx \in PassOp /\ bx.do = "backward" /\ bx.stream = "reverse" /\ bx.of = IndexOf(bx, f, b)
        /\ "regular" \in Streams /\ (FX \/ BX => "reverse" \in Streams)
    BY <1>3, StreamFacts DEF FR, FX, BR, BX
  <2>2. q \in Seq(Op)
    <3>1. (FR => fr \in Op) /\ (FX => fx \in Op) /\ (BR => br \in Op) /\ (BX => bx \in Op)
      BY <2>1, OpFacts
    <3>2. /\ <<>> \in Seq(Op)
          /\ \A x \in Op : <<x>> \in Seq(Op)
          /\ \A x, y \in Op : <<x, y>> \in Seq(Op)
          /\ \A x, y, z, w \in Op : <<x, y, z, w>> \in Seq(Op)
      OBVIOUS
    <3>3. QED
      BY <1>9, <3>1, <3>2, Zenon
  <2>3. \A i \in 1 .. Len(q) : q[i] \in PassOp
    BY <1>9, <2>1
  <2>4. \A i \in 1 .. Len(q) : q[i].stream \in Streams /\ q[i].of = IndexOf(q[i], f, b)
    BY <1>9, <2>1
  <2>5. \A i, j \in 1 .. Len(q) : i < j => Rank(q[i]) < Rank(q[j])
    <3>1. (FR => Rank(fr) = 1) /\ (FX => Rank(fx) = 2) /\ (BR => Rank(br) = 3) /\ (BX => Rank(bx) = 4)
      BY <2>1 DEF Rank
    <3>2. QED
      BY <1>9, <3>1
  <2>6. Remaining(q, s, f, b)
    BY <2>3, <2>4, <2>5, OpFacts DEF Remaining
  <2>7. /\ Has(q, "forward", "regular") <=> FR
        /\ Has(q, "forward", "reverse") <=> FX
        /\ Has(q, "backward", "regular") <=> BR
        /\ Has(q, "backward", "reverse") <=> BX
    <3>1. \A d, x : Has(q, d, x) <=> \E i \in 1 .. Len(q) : q[i].do = d /\ q[i].stream = x
      BY <2>3 DEF Has
    <3>2. CASE q = <<>> /\ ~FR /\ ~FX /\ ~BR /\ ~BX
      BY <3>1, <3>2
    <3>3. CASE \/ q = <<fr>> /\ FR /\ ~FX /\ ~BR /\ ~BX
               \/ q = <<br>> /\ ~FR /\ ~FX /\ BR /\ ~BX
      BY <2>1, <3>1, <3>3
    <3>4. CASE q = <<fr, br>> /\ FR /\ ~FX /\ BR /\ ~BX
      BY <2>1, <3>1, <3>4
    <3>5. CASE q = <<fr, fx>> /\ FR /\ FX /\ ~BR /\ ~BX
      BY <2>1, <3>1, <3>5
    <3>6. CASE q = <<br, bx>> /\ ~FR /\ ~FX /\ BR /\ BX
      BY <2>1, <3>1, <3>6
    <3>7. CASE q = <<fr, fx, br, bx>> /\ FR /\ FX /\ BR /\ BX
      <4>1. Len(q) = 4 /\ q[1] = fr /\ q[2] = fx /\ q[3] = br /\ q[4] = bx
        BY <3>7
      <4>2. 1 \in 1 .. Len(q) /\ 2 \in 1 .. Len(q) /\ 3 \in 1 .. Len(q) /\ 4 \in 1 .. Len(q)
        BY <4>1
      <4>3. QED
        BY <2>1, <3>1, <3>7, <4>1, <4>2
    <3>8. QED
      BY <1>9, <3>2, <3>3, <3>4, <3>5, <3>6, <3>7
  <2>8. QED
    BY <2>2, <2>3, <2>6, <2>7, StreamFacts DEF q, FR, FX, BR, BX
-----------------------------------------------------------------------------
(* The steps of one stage leave the others alone *)

Same(u) == /\ job' = job /\ fwd'[u] = fwd[u] /\ bwd'[u] = bwd[u]
           /\ phase'[u] = phase[u] /\ steps'[u] = steps[u] /\ ops'[u] = ops[u]

LEMMA JobFrame ==
  ASSUME job' = job
  PROVE  /\ Bidirectional' = Bidirectional /\ Streams' = Streams /\ PerStream' = PerStream
         /\ \A s : WarmupSteps(s)' = WarmupSteps(s) /\ NumWarmup(s)' = NumWarmup(s)
         /\ \A o, f, b : IndexOf(o, f, b)' = IndexOf(o, f, b)
BY DEF Bidirectional, Streams, PerStream, WarmupSteps, NumWarmup, IndexOf, MicroBatchOf

LEMMA RemainingFrame ==
  ASSUME job' = job, NEW q, NEW s, NEW f, NEW b
  PROVE  Remaining(q, s, f, b)' <=> Remaining(q, s, f, b)
BY JobFrame DEF Remaining

LEMMA BaseFrame ==
  ASSUME NEW u \in Stage, Same(u), Sched(u), Remaining(ops[u], u, fwd[u], bwd[u])
  PROVE  Sched(u)' /\ Remaining(ops[u], u, fwd[u], bwd[u])'
<1>1. /\ job' = job /\ fwd'[u] = fwd[u] /\ bwd'[u] = bwd[u]
      /\ phase'[u] = phase[u] /\ steps'[u] = steps[u] /\ ops'[u] = ops[u]
  BY DEF Same
<1>2. /\ Bidirectional' = Bidirectional /\ Streams' = Streams /\ PerStream' = PerStream
      /\ WarmupSteps(u)' = WarmupSteps(u) /\ NumWarmup(u)' = NumWarmup(u)
  BY <1>1, JobFrame
<1>3. Sched(u)'
  BY <1>1, <1>2 DEF Sched
<1>4. Remaining(ops'[u], u, fwd'[u], bwd'[u]) <=> Remaining(ops[u], u, fwd[u], bwd[u])
  BY <1>1
<1>5. Remaining(ops'[u], u, fwd'[u], bwd'[u])
  BY <1>4
<1>6. \A q, f, b : Remaining(q, u, f, b)' <=> Remaining(q, u, f, b)
  <2> TAKE q, f, b
  <2>1. QED
    BY <1>1, RemainingFrame
<1>7. QED
  BY <1>3, <1>5, <1>6

(* When only the stage s moves. *)
LEMMA BaseStep ==
  ASSUME Base, NEW s \in Stage, Typed', \A u \in Stage : u # s => Same(u),
         Sched(s)', Remaining(ops[s], s, fwd[s], bwd[s])'
  PROVE  Base'
BY BaseFrame DEF Base
-----------------------------------------------------------------------------
(* What is left after a pass *)

(* r is q without its head, or with a send in its place. *)
Next1(q, r) ==
  \/ Len(r) = Len(q) - 1 /\ \A i \in 1 .. Len(r) : r[i] = q[i + 1] /\ i + 1 \in 1 .. Len(q)
  \/ Len(r) = Len(q) /\ r[1] \in SendOp /\ \A i \in 2 .. Len(q) : r[i] = q[i]

LEMMA DroppedFacts ==
  ASSUME NEW q \in Seq(Op), q # <<>>, NEW r, NEW s, NEW f, NEW b, Remaining(q, s, f, b),
         Next1(q, r), r \in Seq(Op),
         \A i \in 1 .. Len(r) : r[i] \in SendOp => <<s, r[i].to>> \in Link
  PROVE  /\ Remaining(r, s, f, b)
         /\ \A d, x : Has(r, d, x) <=> Has(q, d, x) /\ ~(q[1] \in PassOp /\ q[1].do = d /\ q[1].stream = x)
<1>1. /\ Len(q) \in Nat /\ Len(q) >= 1 /\ Len(r) \in Nat
      /\ \A i \in 1 .. Len(q) : q[i] \in Op
      /\ \A i \in 1 .. Len(r) : r[i] \in Op
  BY TailFacts, LenProperties, ElementOfSeq
<1>2. \A i \in 1 .. Len(r) : r[i] \in PassOp => \E j \in 1 .. Len(q) : j > 1 /\ r[i] = q[j]
  <2> SUFFICES ASSUME NEW i \in 1 .. Len(r), r[i] \in PassOp
               PROVE  \E j \in 1 .. Len(q) : j > 1 /\ r[i] = q[j]
    OBVIOUS
  <2>1. CASE Len(r) = Len(q) - 1 /\ \A k \in 1 .. Len(r) : r[k] = q[k + 1] /\ k + 1 \in 1 .. Len(q)
    <3>1. i + 1 \in 1 .. Len(q) /\ r[i] = q[i + 1] /\ i + 1 > 1
      BY <1>1, <2>1
    <3>2. QED
      BY <3>1
  <2>2. CASE Len(r) = Len(q) /\ r[1] \in SendOp /\ \A k \in 2 .. Len(q) : r[k] = q[k]
    <3>1. i # 1
      BY <2>2, OpFacts
    <3>2. i \in 2 .. Len(q) /\ i \in 1 .. Len(q) /\ i > 1
      BY <1>1, <2>2, <3>1
    <3>3. QED
      BY <2>2, <3>2
  <2>3. QED
    BY <2>1, <2>2 DEF Next1
<1>3. \A j \in 1 .. Len(q) : j > 1 => \E i \in 1 .. Len(r) : r[i] = q[j]
  <2> SUFFICES ASSUME NEW j \in 1 .. Len(q), j > 1
               PROVE  \E i \in 1 .. Len(r) : r[i] = q[j]
    OBVIOUS
  <2>1. CASE Len(r) = Len(q) - 1 /\ \A k \in 1 .. Len(r) : r[k] = q[k + 1] /\ k + 1 \in 1 .. Len(q)
    <3>1. j - 1 \in 1 .. Len(r) /\ (j - 1) + 1 = j
      BY <1>1, <2>1
    <3>2. QED
      BY <2>1, <3>1
  <2>2. CASE Len(r) = Len(q) /\ r[1] \in SendOp /\ \A k \in 2 .. Len(q) : r[k] = q[k]
    <3>1. j \in 2 .. Len(q) /\ j \in 1 .. Len(r)
      BY <1>1, <2>2
    <3>2. QED
      BY <2>2, <3>1
  <2>3. QED
    BY <2>1, <2>2 DEF Next1
<1>4. \A i \in 1 .. Len(r) : r[i] \in SendOp => i = 1
  <2> SUFFICES ASSUME NEW i \in 1 .. Len(r), r[i] \in SendOp PROVE i = 1
    OBVIOUS
  <2>1. CASE Len(r) = Len(q) - 1 /\ \A k \in 1 .. Len(r) : r[k] = q[k + 1] /\ k + 1 \in 1 .. Len(q)
    <3>1. i + 1 \in 1 .. Len(q) /\ r[i] = q[i + 1] /\ i + 1 # 1
      BY <1>1, <2>1
    <3>2. QED
      BY <3>1 DEF Remaining
  <2>2. CASE Len(r) = Len(q) /\ r[1] \in SendOp /\ \A k \in 2 .. Len(q) : r[k] = q[k]
    <3>1. ASSUME i # 1 PROVE FALSE
      <4>1. i \in 2 .. Len(q) /\ i \in 1 .. Len(q)
        BY <1>1, <2>2, <3>1
      <4>2. q[i] \in SendOp
        BY <2>2, <4>1
      <4>3. QED
        BY <3>1, <4>1, <4>2 DEF Remaining
    <3>2. QED
      BY <3>1
  <2>3. QED
    BY <2>1, <2>2 DEF Next1
<1>5. \A i \in 1 .. Len(r) : r[i] \in PassOp => r[i].stream \in Streams /\ r[i].of = IndexOf(r[i], f, b)
  BY <1>2 DEF Remaining
<1>6. \A i, j \in 1 .. Len(r) : i < j /\ r[i] \in PassOp /\ r[j] \in PassOp => Rank(r[i]) < Rank(r[j])
  <2> SUFFICES ASSUME NEW i \in 1 .. Len(r), NEW j \in 1 .. Len(r), i < j, r[i] \in PassOp, r[j] \in PassOp
               PROVE  Rank(r[i]) < Rank(r[j])
    OBVIOUS
  <2>1. CASE Len(r) = Len(q) - 1 /\ \A k \in 1 .. Len(r) : r[k] = q[k + 1] /\ k + 1 \in 1 .. Len(q)
    <3>1. i + 1 \in 1 .. Len(q) /\ r[i] = q[i + 1] /\ j + 1 \in 1 .. Len(q) /\ r[j] = q[j + 1] /\ i + 1 < j + 1
      BY <1>1, <2>1
    <3>2. QED
      BY <3>1 DEF Remaining
  <2>2. CASE Len(r) = Len(q) /\ r[1] \in SendOp /\ \A k \in 2 .. Len(q) : r[k] = q[k]
    <3>1. i # 1
      BY <2>2, OpFacts
    <3>2. i \in 2 .. Len(q) /\ i \in 1 .. Len(q) /\ j \in 2 .. Len(q) /\ j \in 1 .. Len(q)
      BY <1>1, <2>2, <3>1
    <3>3. r[i] = q[i] /\ r[j] = q[j]
      BY <2>2, <3>2
    <3>4. QED
      BY <3>2, <3>3 DEF Remaining
  <2>3. QED
    BY <2>1, <2>2 DEF Next1
<1>7. \A d, x : Has(r, d, x) <=> Has(q, d, x) /\ ~(q[1] \in PassOp /\ q[1].do = d /\ q[1].stream = x)
  <2> SUFFICES ASSUME NEW d, NEW x
               PROVE  Has(r, d, x) <=> Has(q, d, x) /\ ~(q[1] \in PassOp /\ q[1].do = d /\ q[1].stream = x)
    OBVIOUS
  <2>0. 1 \in 1 .. Len(q)
    BY <1>1
  <2>1. ASSUME Has(r, d, x) PROVE Has(q, d, x) /\ ~(q[1] \in PassOp /\ q[1].do = d /\ q[1].stream = x)
    <3>1. PICK i \in 1 .. Len(r) : r[i] \in PassOp /\ r[i].do = d /\ r[i].stream = x
      BY <2>1 DEF Has
    <3>2. PICK j \in 1 .. Len(q) : j > 1 /\ r[i] = q[j]
      BY <1>2, <3>1
    <3>3. Has(q, d, x)
      BY <3>1, <3>2 DEF Has
    <3>4. ASSUME q[1] \in PassOp, q[1].do = d, q[1].stream = x PROVE FALSE
      <4>1. Rank(q[1]) < Rank(q[j]) /\ Rank(q[1]) = Rank(q[j])
        BY <2>0, <3>1, <3>2, <3>4 DEF Remaining, Rank
      <4>2. Rank(q[1]) \in Int
        BY DEF Rank
      <4>3. QED
        BY <4>1, <4>2
    <3>5. QED
      BY <3>3, <3>4
  <2>2. ASSUME Has(q, d, x), ~(q[1] \in PassOp /\ q[1].do = d /\ q[1].stream = x) PROVE Has(r, d, x)
    <3>1. PICK j \in 1 .. Len(q) : q[j] \in PassOp /\ q[j].do = d /\ q[j].stream = x
      BY <2>2 DEF Has
    <3>2. j > 1
      BY <1>1, <2>2, <3>1
    <3>3. PICK i \in 1 .. Len(r) : r[i] = q[j]
      BY <1>3, <3>2
    <3>4. QED
      BY <3>1, <3>3 DEF Has
  <2>3. QED
    BY <2>1, <2>2
<1>8. QED
  BY <1>4, <1>5, <1>6, <1>7 DEF Remaining

(* What Then leaves. *)
LEMMA ThenFacts ==
  ASSUME Base, NEW s \in Stage, ops[s] # <<>>, NEW to, NEW t \in Tensor, to \in Stage => <<s, to>> \in Link
  PROVE  LET r == Then(s, to, t) IN
         /\ r \in Seq(Op) /\ Next1(ops[s], r)
         /\ \A i \in 1 .. Len(r) : r[i] \in SendOp => <<s, r[i].to>> \in Link
         /\ to \in Stage => r[1] = [do |-> "send", to |-> to, tensor |-> t] /\ r[1] \in SendOp /\ Len(r) >= 1
         /\ to \notin Stage => r = Tail(ops[s])
<1>1. /\ ops[s] \in Seq(Op) /\ Len(ops[s]) \in Nat /\ Len(ops[s]) >= 1
      /\ Tail(ops[s]) \in Seq(Op) /\ Len(Tail(ops[s])) = Len(ops[s]) - 1
      /\ \A i \in 1 .. Len(Tail(ops[s])) : Tail(ops[s])[i] = ops[s][i + 1] /\ i + 1 \in 1 .. Len(ops[s])
  BY IndexTypes, TailFacts DEF Base
<1>2. \A i \in 1 .. Len(ops[s]) : ops[s][i] \in SendOp => i = 1
  BY DEF Base, Remaining
<1>3. CASE to \in Stage
  <2> DEFINE e == [do |-> "send", to |-> to, tensor |-> t]
             r == Then(s, to, t)
  <2>1. e \in SendOp /\ e \in Op /\ e.to = to
    BY <1>3 DEF SendOp, Op
  <2>2. r = <<e>> \o Tail(ops[s])
    BY <1>3 DEF Then
  <2>3. e \in SendOp /\ e \in Op /\ e.to = to /\ <<s, to>> \in Link
    BY <1>3, <2>1
  <2> HIDE DEF e, r
  <2>4. r \in Seq(Op) /\ Len(r) = Len(ops[s]) /\ r[1] = e /\ \A i \in 2 .. Len(ops[s]) : r[i] = ops[s][i]
    BY <1>1, <2>2, <2>3, ReplacedFacts
  <2>5. Next1(ops[s], r)
    BY <2>3, <2>4 DEF Next1
  <2>6. \A i \in 1 .. Len(r) : r[i] \in SendOp => <<s, r[i].to>> \in Link
    <3> SUFFICES ASSUME NEW i \in 1 .. Len(r), r[i] \in SendOp PROVE <<s, r[i].to>> \in Link
      OBVIOUS
    <3>1. i # 1 => i \in 2 .. Len(ops[s]) /\ i \in 1 .. Len(ops[s])
      BY <1>1, <2>4
    <3>2. i = 1
      BY <1>2, <2>4, <3>1
    <3>3. QED
      BY <2>3, <2>4, <3>2
  <2>7. QED
    BY <1>1, <1>3, <2>3, <2>4, <2>5, <2>6 DEF e, r
<1>4. CASE to \notin Stage
  <2>1. Then(s, to, t) = Tail(ops[s])
    BY <1>4 DEF Then
  <2>2. Next1(ops[s], Tail(ops[s]))
    BY <1>1 DEF Next1
  <2>3. \A i \in 1 .. Len(Tail(ops[s])) : Tail(ops[s])[i] \in SendOp => <<s, Tail(ops[s])[i].to>> \in Link
    BY <1>1 DEF Base, Remaining
  <2>4. QED
    BY <1>1, <1>4, <2>1, <2>2, <2>3
<1>5. QED
  BY <1>3, <1>4
-----------------------------------------------------------------------------
(* Base is inductive *)

LEMMA InitBase == Init => Base
<1> SUFFICES ASSUME Init PROVE Base
  OBVIOUS
<1>1. /\ NumMicroBatches \in Nat /\ NumMicroBatches >= 1 /\ MaxIterations \in Nat
      /\ Budgets \subseteq Nat /\ 0 \in MicroBatch
  BY SchedulesAssumption DEF MicroBatch
<1>2. NoPass \in [of : MicroBatch, activation : MicroBatch, gradient : Tensor]
  BY <1>1 DEF NoPass, Tensor
<1>3. Fresh \in [Stage -> [Stream -> 0 .. NumMicroBatches]]
  BY <1>1 DEF Fresh
<1>4. ops = [s \in Stage |-> <<>>] /\ ops \in [Stage -> Seq(Op)]
  BY DEF Init
<1>5. TypeOK
  <2>1. /\ done \in [Stage -> 0 .. MaxIterations]
        /\ phase \in [Stage -> {"Warmup", "Steady", "Cooldown"}]
        /\ steps \in [Stage -> Nat]
    BY <1>1 DEF Init
  <2>2. /\ stash \in [Stage -> [Stream -> Seq(MicroBatch)]]
        /\ chan \in [Link -> Seq(Tensor)]
    BY DEF Init
  <2>3. last \in [Stage -> [of : MicroBatch, activation : MicroBatch, gradient : Tensor]]
    BY <1>2 DEF Init
  <2>4. \A s \in Stage : \A i \in DOMAIN ops[s] : ops[s][i].do \in {"forward", "backward", "send"}
    BY <1>4
  <2>5. QED
    BY <1>3, <2>1, <2>2, <2>3, <2>4 DEF Init, TypeOK
<1>6. Typed
  BY <1>4, <1>5 DEF Typed
<1>7. ASSUME NEW s \in Stage PROVE Sched(s) /\ Remaining(ops[s], s, fwd[s], bwd[s])
  <2>1. /\ \A x \in Stream : fwd[s][x] = 0 /\ bwd[s][x] = 0
        /\ phase[s] = "Warmup" /\ steps[s] = 0
    BY DEF Init, Fresh
  <2>2. /\ PerStream \in Nat /\ PerStream >= 1 /\ WarmupSteps(s) \in Nat /\ NumWarmup(s) \in Nat
        /\ Streams \subseteq Stream /\ Stream = {"regular", "reverse"}
    BY <1>6, Constants, WarmupTypes, StreamFacts
  <2>3. Sched(s)
    BY <2>1, <2>2 DEF Sched
  <2>4. Len(ops[s]) = 0
    BY <1>4
  <2>5. QED
    BY <2>3, <2>4 DEF Remaining
<1>8. QED
  BY <1>6, <1>7 DEF Base

(* What pulling an action changes. *)
LEMMA NextActionFacts ==
  ASSUME Base, NEW s \in Stage, NextAction(s)
  PROVE  /\ ops[s] = <<>> /\ ops'[s] = Passes(s)
         /\ \A x \in Stream : fwd'[s][x] = IF x \in ForwardStreams(s) THEN fwd[s][x] + 1 ELSE fwd[s][x]
         /\ \A x \in Stream : bwd'[s][x] = IF x \in BackwardStreams(s) THEN bwd[s][x] + 1 ELSE bwd[s][x]
         /\ phase'[s] = IF Bidirectional THEN Phase(s) ELSE phase[s]
         /\ steps'[s] = IF ~Bidirectional THEN steps[s] ELSE IF Phase(s) = phase[s] THEN steps[s] + 1 ELSE 1
         /\ \A u \in Stage : u # s => Same(u)
         /\ job' = job
         /\ Passes(s) \in Seq(Op)
         /\ Remaining(Passes(s), s, fwd'[s], bwd'[s])
         /\ \A x \in Stream : Has(ops'[s], "forward", x) <=> x \in ForwardStreams(s)
         /\ \A x \in Stream : Has(ops'[s], "backward", x) <=> x \in BackwardStreams(s)
         /\ \A i \in 1 .. Len(ops'[s]) : ops'[s][i] \in PassOp
<1>1. Typed /\ Sched(s)
  BY DEF Base
<1>2. ops \in [Stage -> Seq(Op)] /\ DOMAIN ops = Stage
  BY <1>1 DEF Typed
<1>3. /\ DOMAIN fwd = Stage /\ DOMAIN bwd = Stage /\ DOMAIN phase = Stage /\ DOMAIN steps = Stage
  BY <1>1 DEF Typed, TypeOK
<1>4. /\ ops[s] = <<>> /\ job' = job
      /\ ops' = [ops EXCEPT ![s] = Passes(s)]
      /\ fwd' = [fwd EXCEPT ![s] = [x \in Stream |-> IF x \in ForwardStreams(s) THEN fwd[s][x] + 1 ELSE fwd[s][x]]]
      /\ bwd' = [bwd EXCEPT ![s] = [x \in Stream |-> IF x \in BackwardStreams(s) THEN bwd[s][x] + 1 ELSE bwd[s][x]]]
      /\ phase' = [phase EXCEPT ![s] = IF Bidirectional THEN Phase(s) ELSE phase[s]]
      /\ steps' = [steps EXCEPT ![s] = IF ~Bidirectional THEN steps[s]
                                       ELSE IF Phase(s) = phase[s] THEN steps[s] + 1 ELSE 1]
  BY DEF NextAction
<1>5. /\ \A x \in Stream : fwd'[s][x] = IF x \in ForwardStreams(s) THEN fwd[s][x] + 1 ELSE fwd[s][x]
      /\ \A x \in Stream : bwd'[s][x] = IF x \in BackwardStreams(s) THEN bwd[s][x] + 1 ELSE bwd[s][x]
  BY <1>3, <1>4
<1>6. /\ phase'[s] = IF Bidirectional THEN Phase(s) ELSE phase[s]
      /\ steps'[s] = IF ~Bidirectional THEN steps[s] ELSE IF Phase(s) = phase[s] THEN steps[s] + 1 ELSE 1
      /\ ops'[s] = Passes(s)
  BY <1>2, <1>3, <1>4
<1>7. \A u \in Stage : u # s => Same(u)
  BY <1>2, <1>3, <1>4 DEF Same
<1>8. /\ Passes(s) \in Seq(Op)
      /\ Remaining(Passes(s), s, fwd'[s], bwd'[s])
      /\ \A x \in Stream : Has(Passes(s), "forward", x) <=> x \in ForwardStreams(s)
      /\ \A x \in Stream : Has(Passes(s), "backward", x) <=> x \in BackwardStreams(s)
      /\ \A i \in 1 .. Len(Passes(s)) : Passes(s)[i] \in PassOp
  <2>1. PICK f, b : f = fwd'[s] /\ b = bwd'[s]
    OBVIOUS
  <2>2. Advanced(s, f, b)
    BY <1>5, <2>1 DEF Advanced
  <2>3. /\ Passes(s) \in Seq(Op)
        /\ Remaining(Passes(s), s, f, b)
        /\ \A x \in Stream : Has(Passes(s), "forward", x) <=> x \in ForwardStreams(s)
        /\ \A x \in Stream : Has(Passes(s), "backward", x) <=> x \in BackwardStreams(s)
        /\ \A i \in 1 .. Len(Passes(s)) : Passes(s)[i] \in PassOp
    BY <1>1, <2>2, PassesFacts
  <2>4. QED
    BY <2>1, <2>3
<1>9. QED
  BY <1>4, <1>5, <1>6, <1>7, <1>8

LEMMA NextActionSched ==
  ASSUME Base, NEW s \in Stage, NextAction(s)
  PROVE  /\ Sched(s)'
         /\ \A x \in Stream : fwd'[s][x] \in 0 .. NumMicroBatches /\ bwd'[s][x] \in 0 .. NumMicroBatches
<1> DEFINE f == fwd[s]["regular"]
           b == bwd[s]["regular"]
           w == WarmupSteps(s)
           ph == Phase(s)
           p == PerStream
           B == Bidirectional
<1>1. Typed /\ Sched(s)
  BY DEF Base
<1>2. /\ \A x \in Stream : fwd'[s][x] = IF x \in ForwardStreams(s) THEN fwd[s][x] + 1 ELSE fwd[s][x]
      /\ \A x \in Stream : bwd'[s][x] = IF x \in BackwardStreams(s) THEN bwd[s][x] + 1 ELSE bwd[s][x]
      /\ phase'[s] = IF B THEN ph ELSE phase[s]
      /\ steps'[s] = IF ~B THEN steps[s] ELSE IF ph = phase[s] THEN steps[s] + 1 ELSE 1
      /\ job' = job
  BY NextActionFacts
<1>3. /\ Bidirectional' = B /\ Streams' = Streams /\ PerStream' = p
      /\ WarmupSteps(s)' = w /\ NumWarmup(s)' = NumWarmup(s)
  BY <1>2, JobFrame
<1>4. /\ \A x \in Stream : fwd[s][x] \in Nat /\ bwd[s][x] \in Nat
      /\ steps[s] \in Nat /\ phase[s] \in {"Warmup", "Steady", "Cooldown"}
      /\ \A x \in Stream : fwd[s][x] \in 0 .. NumMicroBatches /\ bwd[s][x] \in 0 .. NumMicroBatches
  BY <1>1, IndexTypes DEF Typed, TypeOK
<1>5. /\ p \in Nat /\ p >= 1 /\ p <= NumMicroBatches /\ NumMicroBatches \in Nat
      /\ w \in Nat /\ NumWarmup(s) \in Nat /\ SteadySteps(s) \in Nat
      /\ SteadySteps(s) > 0 => w + SteadySteps(s) = p
      /\ Streams \subseteq Stream /\ "regular" \in Streams /\ (B => "reverse" \in Streams)
  BY <1>1, Constants, WarmupTypes, StreamFacts
<1>6. \A x \in Streams : fwd[s][x] = f /\ bwd[s][x] = b /\ f <= p /\ b <= f
  BY <1>1, StreamFacts DEF Sched
<1>7. /\ ForwardStreams(s) = IF ph \in {"Warmup", "Steady"} /\ f < p THEN Streams ELSE {}
      /\ BackwardStreams(s) = IF ph \in {"Steady", "Cooldown"} /\ b < p THEN Streams ELSE {}
      /\ ph = "Cooldown" => f = p
      /\ ph = "Steady" => f < p /\ b < p
      /\ ph \in {"Warmup", "Steady", "Cooldown"}
  BY <1>1, <1>5, PullFacts, PhaseNames
<1>8. \A x \in Streams : /\ fwd'[s][x] = IF ph \in {"Warmup", "Steady"} /\ f < p THEN f + 1 ELSE f
                         /\ bwd'[s][x] = IF ph \in {"Steady", "Cooldown"} /\ b < p THEN b + 1 ELSE b
  BY <1>2, <1>5, <1>6, <1>7
<1>9. f \in Nat /\ b \in Nat /\ f <= p /\ b <= f
  BY <1>4, <1>5, <1>6
<1>10. /\ B /\ phase[s] = "Warmup" => steps[s] <= w /\ b = 0 /\ f = IF steps[s] < p THEN steps[s] ELSE p
       /\ B /\ phase[s] = "Steady" => w + steps[s] <= p /\ f = w + steps[s] /\ b = steps[s]
       /\ B => ph = DualPipePhase(s)
       /\ job = "OneFOneB" => f - b <= NumWarmup(s) /\ ph = OneFOneBPhase(s)
  BY <1>1 DEF Sched, Phase, Bidirectional
<1>11. /\ ph = "Warmup" /\ B => phase[s] = "Warmup" /\ steps[s] < w
       /\ ph = "Steady" /\ B => (phase[s] = "Warmup" /\ SteadySteps(s) > 0 /\ ~(steps[s] < w))
                               \/ (phase[s] = "Steady" /\ steps[s] < SteadySteps(s))
       /\ ph = "Warmup" /\ job = "OneFOneB" => f < NumWarmup(s)
  BY <1>10 DEF DualPipePhase, OneFOneBPhase
<1> HIDE DEF f, b, w, ph, p, B
<1> DEFINE f1 == IF ph \in {"Warmup", "Steady"} /\ f < p THEN f + 1 ELSE f
           b1 == IF ph \in {"Steady", "Cooldown"} /\ b < p THEN b + 1 ELSE b
<1>12. f1 \in Nat /\ b1 \in Nat /\ f1 <= p /\ b1 <= f1
  BY <1>5, <1>7, <1>9
<1>13. B /\ phase'[s] = "Warmup" => /\ steps'[s] <= w /\ b1 = 0
                                    /\ f1 = IF steps'[s] < p THEN steps'[s] ELSE p
  BY <1>2, <1>4, <1>5, <1>7, <1>9, <1>10, <1>11
<1>14. ASSUME B, phase'[s] = "Steady"
       PROVE  w + steps'[s] <= p /\ f1 = w + steps'[s] /\ b1 = steps'[s]
  <2>1. ph = "Steady" /\ f1 = f + 1 /\ b1 = b + 1
    BY <1>2, <1>7, <1>14
  <2>2. CASE phase[s] = "Warmup"
    <3>1. steps'[s] = 1 /\ steps[s] = w /\ w + SteadySteps(s) = p /\ SteadySteps(s) > 0 /\ b = 0
      BY <1>2, <1>4, <1>5, <1>10, <1>11, <1>14, <2>1, <2>2
    <3>2. f = w
      BY <1>4, <1>5, <1>10, <1>14, <2>2, <3>1
    <3>3. QED
      BY <1>5, <2>1, <3>1, <3>2
  <2>3. CASE phase[s] = "Steady"
    <3>1. steps'[s] = steps[s] + 1 /\ steps[s] < SteadySteps(s) /\ f = w + steps[s] /\ b = steps[s]
      BY <1>2, <1>10, <1>11, <1>14, <2>1, <2>3
    <3>2. QED
      BY <1>4, <1>5, <2>1, <3>1
  <2>4. QED
    BY <1>11, <1>14, <2>1, <2>2, <2>3
<1>15. B /\ phase'[s] = "Cooldown" => f1 = p
  BY <1>2, <1>7
<1>16. job = "OneFOneB" => f1 - b1 <= NumWarmup(s)
  BY <1>5, <1>7, <1>9, <1>10, <1>11
<1>17. \A x \in Streams : fwd'[s][x] = f1 /\ bwd'[s][x] = b1
  BY <1>8
<1> HIDE DEF f1, b1
<1>18. \A x \in Stream : fwd'[s][x] \in 0 .. NumMicroBatches /\ bwd'[s][x] \in 0 .. NumMicroBatches
  <2> SUFFICES ASSUME NEW x \in Stream
               PROVE  fwd'[s][x] \in 0 .. NumMicroBatches /\ bwd'[s][x] \in 0 .. NumMicroBatches
    OBVIOUS
  <2>1. CASE x \in Streams
    BY <1>5, <1>12, <1>17, <2>1
  <2>2. CASE x \notin Streams
    BY <1>2, <1>4, <1>7, <2>2
  <2>3. QED
    BY <2>1, <2>2
<1>19. Sched(s)'
  <2>1. /\ \A x \in Streams : fwd'[s][x] <= p /\ bwd'[s][x] <= fwd'[s][x]
        /\ B => fwd'[s]["regular"] = fwd'[s]["reverse"] /\ bwd'[s]["regular"] = bwd'[s]["reverse"]
        /\ fwd'[s]["regular"] = f1 /\ bwd'[s]["regular"] = b1
    BY <1>5, <1>12, <1>17
  <2>2. QED
    BY <1>2, <1>3, <1>13, <1>14, <1>15, <1>16, <2>1 DEF Sched
<1>20. QED
  BY <1>18, <1>19
-----------------------------------------------------------------------------
(* The steps, stage by stage and link by link *)

(* One tensor received by s from the stage `from`, if there is such a stage. *)
Taken(from, s) ==
  /\ from \in Stage => chan[<<from, s>>] # <<>> /\ chan'[<<from, s>>] = Tail(chan[<<from, s>>])
  /\ \A l \in Link : l # <<from, s>> => chan'[l] = chan[l]

Stored(s, x, q) ==
  /\ stash'[s][x] = q
  /\ \A u \in Stage, y \in Stream : u # s \/ y # x => stash'[u][y] = stash[u][y]

Left(s, r) ==
  /\ ops'[s] = r
  /\ \A u \in Stage : u # s => ops'[u] = ops[u]

LEMMA OpsTyped ==
  ASSUME NEW o \in [Stage -> Seq(Op)]
  PROVE  \A s \in Stage : \A i \in DOMAIN o[s] : o[s][i].do \in {"forward", "backward", "send"}
<1> SUFFICES ASSUME NEW s \in Stage, NEW i \in DOMAIN o[s]
             PROVE  o[s][i].do \in {"forward", "backward", "send"}
  OBVIOUS
<1>1. o[s] \in Seq(Op)
  OBVIOUS
<1>2. o[s][i] \in Op
  BY <1>1, ElementOfSeq, LenProperties
<1>3. QED
  BY <1>2, OpFacts

LEMMA Neighbours ==
  ASSUME NEW s \in Stage, NEW x \in Stream, NEW n, n = Upstream(s, x) \/ n = Downstream(s, x)
  PROVE  n \in Int /\ (n = s + 1 \/ n = s - 1) /\ (n \in Stage => <<n, s>> \in Link /\ <<s, n>> \in Link)
BY StageTypes DEF Upstream, Downstream

LEMMA TakenFacts ==
  ASSUME Base, NEW s \in Stage, NEW from, from \in Stage => <<from, s>> \in Link,
         from \in Stage => chan[<<from, s>>] # <<>>,
         chan' = IF from \in Stage THEN Received(from, s) ELSE chan
  PROVE  /\ Taken(from, s) /\ chan' \in [Link -> Seq(Tensor)]
         /\ from \in Stage => /\ Head(chan[<<from, s>>]) = chan[<<from, s>>][1]
                              /\ chan[<<from, s>>][1] \in Tensor
<1>1. chan \in [Link -> Seq(Tensor)]
  BY DEF Base, Typed, TypeOK
<1>2. CASE from \in Stage
  <2> DEFINE l == <<from, s>>
  <2>1. l \in Link /\ chan[l] \in Seq(Tensor) /\ chan[l] # <<>> /\ chan' = [chan EXCEPT ![l] = Tail(chan[l])]
    BY <1>1, <1>2 DEF Received
  <2> HIDE DEF l
  <2>2. Tail(chan[l]) \in Seq(Tensor) /\ Head(chan[l]) = chan[l][1] /\ chan[l][1] \in Tensor
    BY <2>1, TailFacts
  <2>3. /\ chan' \in [Link -> Seq(Tensor)] /\ chan'[l] = Tail(chan[l])
        /\ \A k \in Link : k # l => chan'[k] = chan[k]
    BY <1>1, <2>1, <2>2
  <2>4. QED
    BY <1>2, <2>1, <2>2, <2>3 DEF Taken, l
<1>3. CASE from \notin Stage
  BY <1>1, <1>3 DEF Taken
<1>4. QED
  BY <1>2, <1>3

LEMMA PassFacts ==
  ASSUME Base, NEW s \in Stage, NEW what \in {"forward", "backward"}, Executes(s, what)
  PROVE  /\ ops[s] # <<>> /\ ops[s] \in Seq(Op) /\ Len(ops[s]) \in Nat /\ Len(ops[s]) >= 1 /\ Head(ops[s]) = ops[s][1]
         /\ ops[s][1] \in PassOp /\ ops[s][1].do = what /\ ops[s][1].stream \in Streams
         /\ ops[s][1].of = IndexOf(ops[s][1], fwd[s], bwd[s]) /\ ops[s][1].of \in MicroBatch
         /\ Has(ops[s], what, ops[s][1].stream)
<1>1. ops[s] # <<>> /\ ops[s] \in Seq(Op) /\ Head(ops[s]).do = what
  BY IndexTypes DEF Executes, Base
<1>2. Len(ops[s]) \in Nat /\ Len(ops[s]) >= 1 /\ Head(ops[s]) = ops[s][1] /\ ops[s][1] \in Op
  BY <1>1, TailFacts
<1>3. ops[s][1] \in PassOp /\ ops[s][1].do = what /\ ops[s][1].of \in MicroBatch
  BY <1>1, <1>2, OpFacts
<1>4. 1 \in 1 .. Len(ops[s])
  BY <1>2
<1>5. ops[s][1].stream \in Streams /\ ops[s][1].of = IndexOf(ops[s][1], fwd[s], bwd[s])
  BY <1>3, <1>4 DEF Base, Remaining
<1>6. Has(ops[s], what, ops[s][1].stream)
  BY <1>3, <1>4 DEF Has
<1>7. QED
  BY <1>1, <1>2, <1>3, <1>5, <1>6

(* A forward pass of stream x with input i. *)
Forwarded(s, x, i) ==
  /\ i \in MicroBatch
  /\ i = IF Upstream(s, x) \in Stage THEN chan[<<Upstream(s, x), s>>][1].of ELSE ops[s][1].of
  /\ Stored(s, x, Append(stash[s][x], i)) /\ stash' \in [Stage -> [Stream -> Seq(MicroBatch)]]
  /\ Left(s, Then(s, Downstream(s, x), [of |-> i, dir |-> "activation"]))
  /\ ops' \in [Stage -> Seq(Op)]
  /\ failed' = failed

LEMMA ForwardFacts ==
  ASSUME Base, NEW s \in Stage, Forward(s)
  PROVE  /\ Executes(s, "forward")
         /\ Taken(Upstream(s, ops[s][1].stream), s) /\ chan' \in [Link -> Seq(Tensor)]
         /\ UNCHANGED <<job, budget, done, schedule, last>>
         /\ \/ job = "DualPipe" /\ UNCHANGED <<ops, stash>> /\ failed' = failed \cup {s}
            \/ \E i : Forwarded(s, ops[s][1].stream, i)
<1> DEFINE x == ops[s][1].stream
           from == Upstream(s, x)
           i == IF from \in Stage THEN Head(chan[<<from, s>>]).of ELSE ops[s][1].of
           t == [of |-> i, dir |-> "activation"]
<1>1. Executes(s, "forward")
  BY DEF Forward
<1>2. /\ ops[s] # <<>> /\ Head(ops[s]) = ops[s][1] /\ x \in Stream /\ ops[s][1].of \in MicroBatch
  BY <1>1, PassFacts, StreamFacts
<1>3. from \in Stage => <<from, s>> \in Link
  BY <1>2, Neighbours
<1>4. /\ from \in Stage => chan[<<from, s>>] # <<>>
      /\ chan' = IF from \in Stage THEN Received(from, s) ELSE chan
      /\ UNCHANGED <<job, budget, done, schedule>>
      /\ \/ job = "DualPipe" /\ Fail(s)
         \/ /\ stash' = [stash EXCEPT ![s][x] = Append(@, i)]
            /\ ops' = [ops EXCEPT ![s] = Then(s, Downstream(s, x), t)]
            /\ UNCHANGED <<last, failed>>
  BY <1>2 DEF Forward
<1> HIDE DEF x
<1>5. /\ Taken(from, s) /\ chan' \in [Link -> Seq(Tensor)]
      /\ from \in Stage => Head(chan[<<from, s>>]) = chan[<<from, s>>][1] /\ chan[<<from, s>>][1] \in Tensor
  BY <1>3, <1>4, TakenFacts
<1>6. i \in MicroBatch /\ i = IF from \in Stage THEN chan[<<from, s>>][1].of ELSE ops[s][1].of
  BY <1>2, <1>5 DEF Tensor
<1> HIDE DEF i
<1>7. t \in Tensor
  BY <1>6 DEF Tensor
<1>8. CASE job = "DualPipe" /\ Fail(s)
  BY <1>1, <1>4, <1>5, <1>8 DEF Fail, x
<1>9. CASE /\ stash' = [stash EXCEPT ![s][x] = Append(@, i)]
           /\ ops' = [ops EXCEPT ![s] = Then(s, Downstream(s, x), t)]
           /\ UNCHANGED <<last, failed>>
  <2>1. stash \in [Stage -> [Stream -> Seq(MicroBatch)]] /\ ops \in [Stage -> Seq(Op)]
    BY DEF Base, Typed, TypeOK
  <2>2. stash[s][x] \in Seq(MicroBatch) /\ Append(stash[s][x], i) \in Seq(MicroBatch)
    BY <1>2, <1>6, <2>1, AppendFacts
  <2>3. Stored(s, x, Append(stash[s][x], i)) /\ stash' \in [Stage -> [Stream -> Seq(MicroBatch)]]
    BY <1>2, <1>9, <2>1, <2>2 DEF Stored
  <2>4. Downstream(s, x) \in Stage => <<s, Downstream(s, x)>> \in Link
    BY <1>2, Neighbours
  <2>5. Then(s, Downstream(s, x), t) \in Seq(Op)
    BY <1>2, <1>7, <2>4, ThenFacts
  <2>6. Left(s, Then(s, Downstream(s, x), t)) /\ ops' \in [Stage -> Seq(Op)]
    BY <1>9, <2>1, <2>5 DEF Left
  <2>7. Forwarded(s, x, i)
    BY <1>6, <1>9, <2>3, <2>6 DEF Forwarded
  <2>8. QED
    BY <1>1, <1>4, <1>5, <1>9, <2>7 DEF x
<1>10. QED
  BY <1>4, <1>8, <1>9

(* A backward pass of stream x from the gradient g. *)
Reversed(s, x, g) ==
  /\ g \in Tensor
  /\ stash[s][x] # <<>>
  /\ g = IF Downstream(s, x) \in Stage THEN chan[<<Downstream(s, x), s>>][1]
         ELSE [of |-> stash[s][x][1], dir |-> "gradient"]
  /\ job = "DualPipe" => Downstream(s, x) \in Stage
  /\ Stored(s, x, Tail(stash[s][x])) /\ stash' \in [Stage -> [Stream -> Seq(MicroBatch)]]
  /\ last'[s] = [of |-> ops[s][1].of, activation |-> stash[s][x][1], gradient |-> g]
  /\ \A u \in Stage : u # s => last'[u] = last[u]
  /\ last' \in [Stage -> [of : MicroBatch, activation : MicroBatch, gradient : Tensor]]
  /\ Left(s, Then(s, Upstream(s, x), [of |-> g.of, dir |-> "gradient"]))
  /\ ops' \in [Stage -> Seq(Op)]
  /\ failed' = failed

LEMMA BackwardFacts ==
  ASSUME Base, NEW s \in Stage, Backward(s)
  PROVE  /\ Executes(s, "backward")
         /\ Taken(Downstream(s, ops[s][1].stream), s) /\ chan' \in [Link -> Seq(Tensor)]
         /\ UNCHANGED <<job, budget, done, schedule>>
         /\ \/ /\ stash[s][ops[s][1].stream] = <<>> \/ job = "DualPipe"
               /\ UNCHANGED <<ops, stash, last>> /\ failed' = failed \cup {s}
            \/ \E g : Reversed(s, ops[s][1].stream, g)
<1> DEFINE x == ops[s][1].stream
           from == Downstream(s, x)
           q == stash[s][x]
           g == IF from \in Stage THEN Head(chan[<<from, s>>]) ELSE [of |-> Pop(q), dir |-> "gradient"]
           t == [of |-> g.of, dir |-> "gradient"]
<1>1. Executes(s, "backward")
  BY DEF Backward
<1>2. ops[s] # <<>> /\ Head(ops[s]) = ops[s][1] /\ x \in Stream /\ ops[s][1].of \in MicroBatch
  BY <1>1, PassFacts, StreamFacts
<1>3. from \in Stage => <<from, s>> \in Link
  BY <1>2, Neighbours
<1>4. /\ from \in Stage => chan[<<from, s>>] # <<>>
      /\ chan' = IF from \in Stage THEN Received(from, s) ELSE chan
      /\ UNCHANGED <<job, budget, done, schedule>>
      /\ \/ /\ q = <<>> \/ job = "DualPipe"
            /\ Fail(s)
         \/ /\ q # <<>> /\ (job = "DualPipe" => from \in Stage)
            /\ stash' = [stash EXCEPT ![s][x] = Tail(@)]
            /\ last' = [last EXCEPT ![s] = [of |-> ops[s][1].of, activation |-> Pop(q), gradient |-> g]]
            /\ ops' = [ops EXCEPT ![s] = Then(s, Upstream(s, x), t)]
            /\ UNCHANGED failed
  BY <1>2 DEF Backward
<1> HIDE DEF x
<1>5. /\ Taken(from, s) /\ chan' \in [Link -> Seq(Tensor)]
      /\ from \in Stage => Head(chan[<<from, s>>]) = chan[<<from, s>>][1] /\ chan[<<from, s>>][1] \in Tensor
  BY <1>3, <1>4, TakenFacts
<1>6. CASE (q = <<>> \/ job = "DualPipe") /\ Fail(s)
  BY <1>1, <1>4, <1>5, <1>6 DEF Fail, x
<1>7. CASE /\ q # <<>> /\ (job = "DualPipe" => from \in Stage)
           /\ stash' = [stash EXCEPT ![s][x] = Tail(@)]
           /\ last' = [last EXCEPT ![s] = [of |-> ops[s][1].of, activation |-> Pop(q), gradient |-> g]]
           /\ ops' = [ops EXCEPT ![s] = Then(s, Upstream(s, x), t)]
           /\ UNCHANGED failed
  <2>1. /\ stash \in [Stage -> [Stream -> Seq(MicroBatch)]] /\ ops \in [Stage -> Seq(Op)]
        /\ last \in [Stage -> [of : MicroBatch, activation : MicroBatch, gradient : Tensor]]
    BY DEF Base, Typed, TypeOK
  <2>2. q \in Seq(MicroBatch)
    BY <1>2, <2>1
  <2>3. Tail(q) \in Seq(MicroBatch) /\ Pop(q) = q[1] /\ q[1] \in MicroBatch
    BY <1>7, <2>2, TailFacts DEF Pop
  <2>4. g \in Tensor /\ g = IF from \in Stage THEN chan[<<from, s>>][1] ELSE [of |-> q[1], dir |-> "gradient"]
    BY <1>5, <2>3 DEF Tensor
  <2>5. Stored(s, x, Tail(q)) /\ stash' \in [Stage -> [Stream -> Seq(MicroBatch)]]
    BY <1>2, <1>7, <2>1, <2>3 DEF Stored
  <2> HIDE DEF g
  <2>6. t \in Tensor
    BY <2>4 DEF Tensor
  <2>7. Upstream(s, x) \in Stage => <<s, Upstream(s, x)>> \in Link
    BY <1>2, Neighbours
  <2>8. Then(s, Upstream(s, x), t) \in Seq(Op)
    BY <1>2, <2>6, <2>7, ThenFacts
  <2>9. Left(s, Then(s, Upstream(s, x), t)) /\ ops' \in [Stage -> Seq(Op)]
    BY <1>7, <2>1, <2>8 DEF Left
  <2>10. /\ last'[s] = [of |-> ops[s][1].of, activation |-> q[1], gradient |-> g]
         /\ \A u \in Stage : u # s => last'[u] = last[u]
         /\ last' \in [Stage -> [of : MicroBatch, activation : MicroBatch, gradient : Tensor]]
    <3> DEFINE v == [of |-> ops[s][1].of, activation |-> q[1], gradient |-> g]
    <3>1. v \in [of : MicroBatch, activation : MicroBatch, gradient : Tensor]
      BY <1>2, <2>3, <2>4
    <3>2. last' = [last EXCEPT ![s] = v]
      BY <1>7, <2>3
    <3> HIDE DEF v
    <3>3. last'[s] = v /\ (\A u \in Stage : u # s => last'[u] = last[u])
          /\ last' \in [Stage -> [of : MicroBatch, activation : MicroBatch, gradient : Tensor]]
      BY <2>1, <3>1, <3>2
    <3>4. QED
      BY <3>3 DEF v
  <2>11. Reversed(s, x, g)
    BY <1>7, <2>4, <2>5, <2>9, <2>10 DEF Reversed
  <2>12. QED
    BY <1>1, <1>4, <1>5, <2>11 DEF x
<1>8. QED
  BY <1>4, <1>6, <1>7

(* The tensor at the head of ops[s] goes out. *)
Sent(s, p) ==
  /\ p = ops[s][1] /\ p \in SendOp /\ <<s, p.to>> \in Link /\ p.to \in Stage
  /\ chan'[<<s, p.to>>] = Append(chan[<<s, p.to>>], p.tensor)
  /\ \A l \in Link : l # <<s, p.to>> => chan'[l] = chan[l]
  /\ chan' \in [Link -> Seq(Tensor)]
  /\ Left(s, Tail(ops[s])) /\ ops' \in [Stage -> Seq(Op)]

LEMMA SendFacts ==
  ASSUME Base, NEW s \in Stage, Send(s)
  PROVE  /\ Executes(s, "send") /\ ops[s] # <<>>
         /\ Sent(s, ops[s][1])
         /\ UNCHANGED <<job, budget, done, schedule, stash, last, failed>>
<1>1. Executes(s, "send") /\ ops[s] # <<>> /\ Head(ops[s]).do = "send" /\ ops[s] \in Seq(Op)
  BY IndexTypes DEF Send, Executes, Base
<1>2. /\ Len(ops[s]) \in Nat /\ Len(ops[s]) >= 1 /\ Head(ops[s]) = ops[s][1] /\ ops[s][1] \in Op
      /\ Tail(ops[s]) \in Seq(Op)
  BY <1>1, TailFacts
<1>3. ops[s][1] \in SendOp /\ ops[s][1].to \in Stage /\ ops[s][1].tensor \in Tensor
  BY <1>1, <1>2, OpFacts
<1>4. 1 \in 1 .. Len(ops[s])
  BY <1>2
<1>5. <<s, ops[s][1].to>> \in Link
  BY <1>3, <1>4 DEF Base, Remaining
<1> DEFINE p == ops[s][1]
           l == <<s, p.to>>
<1>6. /\ chan' = [chan EXCEPT ![l] = Append(chan[l], p.tensor)]
      /\ ops' = [ops EXCEPT ![s] = Tail(ops[s])]
      /\ UNCHANGED <<job, budget, done, schedule, stash, last, failed>>
  BY <1>2 DEF Send
<1>7. chan \in [Link -> Seq(Tensor)] /\ ops \in [Stage -> Seq(Op)]
  BY DEF Base, Typed, TypeOK
<1>8. l \in Link /\ chan[l] \in Seq(Tensor)
  BY <1>5, <1>7
<1>9. Append(chan[l], p.tensor) \in Seq(Tensor)
  BY <1>3, <1>8, AppendFacts
<1>10. /\ Left(s, Tail(ops[s])) /\ ops' \in [Stage -> Seq(Op)]
  BY <1>2, <1>6, <1>7 DEF Left
<1>11. /\ chan'[l] = Append(chan[l], p.tensor)
       /\ \A k \in Link : k # l => chan'[k] = chan[k]
       /\ chan' \in [Link -> Seq(Tensor)]
  <2> HIDE DEF l, p
  <2>1. QED
    BY <1>6, <1>7, <1>8, <1>9
<1>12. QED
  BY <1>1, <1>3, <1>5, <1>6, <1>10, <1>11 DEF Sent
-----------------------------------------------------------------------------
(* Every step keeps Base *)

(* An action that works off the head of ops[s]. *)
LEMMA LeftBase ==
  ASSUME Base, NEW s \in Stage, job' = job, UNCHANGED schedule, Typed', NEW r, Left(s, r),
         ops[s] # <<>>, Next1(ops[s], r), r \in Seq(Op),
         \A i \in 1 .. Len(r) : r[i] \in SendOp => <<s, r[i].to>> \in Link
  PROVE  /\ Base'
         /\ \A d, x : Has(r, d, x) <=> Has(ops[s], d, x)
                                       /\ ~(ops[s][1] \in PassOp /\ ops[s][1].do = d /\ ops[s][1].stream = x)
<1>1. /\ fwd' = fwd /\ bwd' = bwd /\ phase' = phase /\ steps' = steps
      /\ ops'[s] = r /\ \A u \in Stage : u # s => ops'[u] = ops[u]
  BY DEF schedule, Left
<1>2. ops[s] \in Seq(Op) /\ Remaining(ops[s], s, fwd[s], bwd[s]) /\ Sched(s)
  BY IndexTypes DEF Base
<1>3. /\ Remaining(r, s, fwd[s], bwd[s])
      /\ \A d, x : Has(r, d, x) <=> Has(ops[s], d, x)
                                    /\ ~(ops[s][1] \in PassOp /\ ops[s][1].do = d /\ ops[s][1].stream = x)
  BY <1>2, DroppedFacts
<1>4. \A u \in Stage : u # s => Same(u)
  BY <1>1 DEF Same
<1>5. /\ Bidirectional' = Bidirectional /\ Streams' = Streams /\ PerStream' = PerStream
      /\ WarmupSteps(s)' = WarmupSteps(s) /\ NumWarmup(s)' = NumWarmup(s)
  BY JobFrame
<1>6. Sched(s)'
  BY <1>1, <1>2, <1>5 DEF Sched
<1>7. Remaining(ops[s], s, fwd[s], bwd[s])'
  <2>1. \A q, f, b : Remaining(q, s, f, b)' <=> Remaining(q, s, f, b)
    <3> TAKE q, f, b
    <3>1. QED
      BY RemainingFrame
  <2>2. Remaining(ops'[s], s, fwd'[s], bwd'[s])
    BY <1>1, <1>3
  <2>3. QED
    BY <2>1, <2>2
<1>8. QED
  BY <1>3, <1>4, <1>6, <1>7, BaseStep

LEMMA TypedStep ==
  ASSUME Typed, job' = job, budget' = budget,
         done' \in [Stage -> 0 .. MaxIterations],
         phase' \in [Stage -> {"Warmup", "Steady", "Cooldown"}],
         steps' \in [Stage -> Nat],
         fwd' \in [Stage -> [Stream -> 0 .. NumMicroBatches]],
         bwd' \in [Stage -> [Stream -> 0 .. NumMicroBatches]],
         ops' \in [Stage -> Seq(Op)],
         stash' \in [Stage -> [Stream -> Seq(MicroBatch)]],
         chan' \in [Link -> Seq(Tensor)],
         last' \in [Stage -> [of : MicroBatch, activation : MicroBatch, gradient : Tensor]],
         failed' \in SUBSET Stage
  PROVE  Typed'
<1>1. PICK o : o = ops'
  OBVIOUS
<1>2. \A s \in Stage : \A i \in DOMAIN o[s] : o[s][i].do \in {"forward", "backward", "send"}
  BY <1>1, OpsTyped
<1>3. QED
  BY <1>1, <1>2 DEF Typed, TypeOK

LEMMA NextActionBase == ASSUME Base, NEW s \in Stage, NextAction(s) PROVE Base'
<1>1. Typed /\ TypeOK /\ ops \in [Stage -> Seq(Op)]
  BY DEF Base, Typed
<1>2. /\ Sched(s)'
      /\ \A x \in Stream : fwd'[s][x] \in 0 .. NumMicroBatches /\ bwd'[s][x] \in 0 .. NumMicroBatches
  BY NextActionSched
<1>3. /\ ops'[s] = Passes(s) /\ Passes(s) \in Seq(Op) /\ job' = job
      /\ Remaining(Passes(s), s, fwd'[s], bwd'[s])
      /\ \A u \in Stage : u # s => Same(u)
      /\ \A x \in Stream : fwd'[s][x] = IF x \in ForwardStreams(s) THEN fwd[s][x] + 1 ELSE fwd[s][x]
      /\ \A x \in Stream : bwd'[s][x] = IF x \in BackwardStreams(s) THEN bwd[s][x] + 1 ELSE bwd[s][x]
  BY NextActionFacts
<1>4. ops' \in [Stage -> Seq(Op)]
  BY <1>1, <1>3 DEF NextAction
<1>5. fwd' \in [Stage -> [Stream -> 0 .. NumMicroBatches]]
  <2> DEFINE row == [x \in Stream |-> IF x \in ForwardStreams(s) THEN fwd[s][x] + 1 ELSE fwd[s][x]]
  <2>1. row \in [Stream -> 0 .. NumMicroBatches]
    BY <1>2, <1>3
  <2>2. fwd' = [fwd EXCEPT ![s] = row]
    BY DEF NextAction
  <2> HIDE DEF row
  <2>3. QED
    BY <1>1, <2>1, <2>2 DEF TypeOK
<1>6. bwd' \in [Stage -> [Stream -> 0 .. NumMicroBatches]]
  <2> DEFINE row == [x \in Stream |-> IF x \in BackwardStreams(s) THEN bwd[s][x] + 1 ELSE bwd[s][x]]
  <2>1. row \in [Stream -> 0 .. NumMicroBatches]
    BY <1>2, <1>3
  <2>2. bwd' = [bwd EXCEPT ![s] = row]
    BY DEF NextAction
  <2> HIDE DEF row
  <2>3. QED
    BY <1>1, <2>1, <2>2 DEF TypeOK
<1>7. phase' \in [Stage -> {"Warmup", "Steady", "Cooldown"}]
  <2>1. phase[s] \in {"Warmup", "Steady", "Cooldown"} /\ Phase(s) \in {"Warmup", "Steady", "Cooldown"}
    BY <1>1, PhaseNames, IndexTypes
  <2>2. QED
    BY <1>1, <2>1 DEF NextAction, TypeOK
<1>8. steps' \in [Stage -> Nat]
  <2> DEFINE n == IF ~Bidirectional THEN steps[s] ELSE IF Phase(s) = phase[s] THEN steps[s] + 1 ELSE 1
  <2>1. n \in Nat
    BY <1>1, IndexTypes
  <2>2. steps' = [steps EXCEPT ![s] = n]
    BY DEF NextAction
  <2> HIDE DEF n
  <2>3. QED
    BY <1>1, <2>1, <2>2 DEF TypeOK
<1>9. Typed'
  <2>1. UNCHANGED <<job, budget, done, stash, chan, last, failed>>
    BY DEF NextAction
  <2>2. QED
    BY <1>1, <1>4, <1>5, <1>6, <1>7, <1>8, <2>1, TypedStep DEF TypeOK
<1>10. Remaining(ops[s], s, fwd[s], bwd[s])'
  <2>1. \A q, f, b : Remaining(q, s, f, b)' <=> Remaining(q, s, f, b)
    <3> TAKE q, f, b
    <3>1. QED
      BY <1>3, RemainingFrame
  <2>2. Remaining(ops'[s], s, fwd'[s], bwd'[s])
    BY <1>3
  <2>3. QED
    BY <2>1, <2>2
<1>11. QED
  BY <1>2, <1>3, <1>9, <1>10, BaseStep

LEMMA EndIterationBase ==
  ASSUME Base, NEW s \in Stage, EndIteration(s)
  PROVE  /\ Base'
         /\ ops' = ops /\ \A x \in Stream : fwd'[s][x] = 0 /\ bwd'[s][x] = 0
<1>1. Typed /\ TypeOK /\ ops[s] = <<>> /\ ops' = ops
  BY DEF Base, Typed, EndIteration
<1>2. NumMicroBatches \in Nat /\ MaxIterations \in Nat /\ done[s] \in Nat /\ done[s] < MaxIterations
  BY <1>1, Constants, IndexTypes DEF EndIteration
<1>3. Fresh[s] = [x \in Stream |-> 0] /\ Fresh[s] \in [Stream -> 0 .. NumMicroBatches]
  BY <1>2 DEF Fresh
<1>4. /\ done' \in [Stage -> 0 .. MaxIterations]
      /\ phase' \in [Stage -> {"Warmup", "Steady", "Cooldown"}]
      /\ steps' \in [Stage -> Nat]
  BY <1>1, <1>2 DEF EndIteration, TypeOK
<1>5. fwd' \in [Stage -> [Stream -> 0 .. NumMicroBatches]] /\ bwd' \in [Stage -> [Stream -> 0 .. NumMicroBatches]]
  BY <1>1, <1>3 DEF EndIteration, TypeOK
<1>6. stash' \in [Stage -> [Stream -> Seq(MicroBatch)]]
  <2>1. [x \in Stream |-> <<>>] \in [Stream -> Seq(MicroBatch)]
    OBVIOUS
  <2>2. QED
    BY <1>1, <2>1 DEF EndIteration, TypeOK
<1>7. Typed'
  <2>1. UNCHANGED <<job, budget, ops, chan, last, failed>>
    BY DEF EndIteration
  <2>2. QED
    BY <1>1, <1>4, <1>5, <1>6, <2>1, TypedStep DEF Typed, TypeOK
<1>8. /\ \A x \in Stream : fwd'[s][x] = 0 /\ bwd'[s][x] = 0
      /\ phase'[s] = "Warmup" /\ steps'[s] = 0 /\ job' = job
      /\ \A u \in Stage : u # s => Same(u)
  BY <1>1, <1>3 DEF EndIteration, TypeOK, Same
<1>9. Sched(s)'
  <2>1. /\ PerStream \in Nat /\ PerStream >= 1 /\ WarmupSteps(s) \in Nat /\ NumWarmup(s) \in Nat
        /\ Streams \subseteq Stream /\ Stream = {"regular", "reverse"}
    BY <1>1, Constants, WarmupTypes, StreamFacts
  <2>2. /\ Bidirectional' = Bidirectional /\ Streams' = Streams /\ PerStream' = PerStream
        /\ WarmupSteps(s)' = WarmupSteps(s) /\ NumWarmup(s)' = NumWarmup(s)
    BY <1>8, JobFrame
  <2>3. QED
    BY <1>8, <2>1, <2>2 DEF Sched
<1>10. Remaining(ops[s], s, fwd[s], bwd[s])'
  BY <1>1 DEF Remaining
<1>11. QED
  BY <1>1, <1>7, <1>8, <1>9, <1>10, BaseStep

LEMMA DiscardBase == ASSUME Base, NEW s \in Stage, Discard(s) PROVE Base'
<1>1. Typed /\ TypeOK /\ ops \in [Stage -> Seq(Op)]
  BY DEF Base, Typed
<1>2. /\ ops' = [ops EXCEPT ![s] = <<>>] /\ <<>> \in Seq(Op)
      /\ UNCHANGED <<job, budget, done, schedule, stash, chan, last, failed>>
  BY DEF Discard
<1>3. ops' \in [Stage -> Seq(Op)] /\ ops'[s] = <<>>
  BY <1>1, <1>2
<1>4. Typed'
  BY <1>1, <1>2, <1>3, TypedStep DEF TypeOK, schedule
<1>5. \A u \in Stage : u # s => Same(u)
  BY <1>1, <1>2 DEF Same, schedule
<1>6. Sched(s)'
  <2>1. /\ Bidirectional' = Bidirectional /\ Streams' = Streams /\ PerStream' = PerStream
        /\ WarmupSteps(s)' = WarmupSteps(s) /\ NumWarmup(s)' = NumWarmup(s)
    BY <1>2, JobFrame
  <2>2. Sched(s)
    BY DEF Base
  <2>3. QED
    BY <1>2, <2>1, <2>2 DEF Sched, schedule
<1>7. Remaining(ops[s], s, fwd[s], bwd[s])'
  BY <1>3 DEF Remaining
<1>8. QED
  BY <1>4, <1>5, <1>6, <1>7, BaseStep

(* A pass takes itself off ops[s], and may leave a send there.              *)
LEMMA PassStep ==
  ASSUME Base, NEW s \in Stage, NEW what \in {"forward", "backward"}, Executes(s, what),
         job' = job, UNCHANGED schedule, Typed', NEW to, NEW t \in Tensor,
         to \in Stage => <<s, to>> \in Link, Left(s, Then(s, to, t))
  PROVE  /\ Base'
         /\ \A d, x : Has(ops'[s], d, x) <=> Has(ops[s], d, x) /\ ~(d = what /\ x = ops[s][1].stream)
         /\ to \in Stage => /\ ops'[s][1] = [do |-> "send", to |-> to, tensor |-> t]
                            /\ ops'[s][1] \in SendOp /\ Len(ops'[s]) >= 1
         /\ to \notin Stage => ops'[s] = Tail(ops[s]) /\ \A i \in 1 .. Len(ops'[s]) : ops'[s][i] \notin SendOp
<1>1. /\ ops[s] # <<>> /\ ops[s][1] \in PassOp /\ ops[s][1].do = what
      /\ ops[s] \in Seq(Op) /\ Len(ops[s]) \in Nat
  BY PassFacts
<1>2. PICK r : r = Then(s, to, t)
  OBVIOUS
<1>3. /\ r \in Seq(Op) /\ Next1(ops[s], r)
      /\ \A i \in 1 .. Len(r) : r[i] \in SendOp => <<s, r[i].to>> \in Link
      /\ to \in Stage => r[1] = [do |-> "send", to |-> to, tensor |-> t] /\ r[1] \in SendOp /\ Len(r) >= 1
      /\ to \notin Stage => r = Tail(ops[s])
  BY <1>1, <1>2, ThenFacts
<1>4. Left(s, r) /\ ops'[s] = r
  BY <1>2 DEF Left
<1>5. /\ Base'
      /\ \A d, x : Has(r, d, x) <=> Has(ops[s], d, x)
                                    /\ ~(ops[s][1] \in PassOp /\ ops[s][1].do = d /\ ops[s][1].stream = x)
  BY <1>1, <1>3, <1>4, LeftBase
<1>6. to \notin Stage => \A i \in 1 .. Len(r) : r[i] \notin SendOp
  <2> SUFFICES ASSUME to \notin Stage, NEW i \in 1 .. Len(r) PROVE r[i] \notin SendOp
    OBVIOUS
  <2>1. r = Tail(ops[s])
    BY <1>3
  <2>2. r[i] = ops[s][i + 1] /\ i + 1 \in 1 .. Len(ops[s]) /\ i + 1 # 1
    BY <1>1, <2>1, TailFacts
  <2>3. QED
    BY <2>2 DEF Base, Remaining
<1>7. QED
  BY <1>1, <1>3, <1>4, <1>5, <1>6

LEMMA ForwardBase == ASSUME Base, NEW s \in Stage, Forward(s) PROVE Base'
<1>1. Typed /\ TypeOK /\ failed \in SUBSET Stage
  BY DEF Base, Typed, TypeOK
<1>2. /\ Executes(s, "forward") /\ chan' \in [Link -> Seq(Tensor)]
      /\ UNCHANGED <<job, budget, done, schedule, last>>
      /\ \/ job = "DualPipe" /\ UNCHANGED <<ops, stash>> /\ failed' = failed \cup {s}
         \/ \E i : Forwarded(s, ops[s][1].stream, i)
  BY ForwardFacts
<1>3. CASE UNCHANGED <<ops, stash>> /\ failed' = failed \cup {s}
  <2>1. Typed'
    <3>1. failed' \in SUBSET Stage
      BY <1>1, <1>3
    <3>2. QED
      BY <1>1, <1>2, <1>3, <3>1, TypedStep DEF Typed, TypeOK, schedule
  <2>2. \A u \in Stage : Same(u)
    BY <1>2, <1>3 DEF Same, schedule
  <2>3. \A u \in Stage : Sched(u)' /\ Remaining(ops[u], u, fwd[u], bwd[u])'
    <3> TAKE u \in Stage
    <3>1. QED
      BY <2>2, BaseFrame DEF Base
  <2>4. QED
    BY <2>1, <2>3 DEF Base
<1>4. CASE \E i : Forwarded(s, ops[s][1].stream, i)
  <2> DEFINE x == ops[s][1].stream
  <2>1. PICK i : Forwarded(s, x, i)
    BY <1>4
  <2>2. x \in Stream
    BY <1>2, PassFacts, StreamFacts
  <2>3. Downstream(s, x) \in Stage => <<s, Downstream(s, x)>> \in Link
    BY <2>2, Neighbours
  <2>4. Typed'
    BY <1>1, <1>2, <2>1, TypedStep DEF Forwarded, Typed, TypeOK, schedule
  <2>5. [of |-> i, dir |-> "activation"] \in Tensor
    BY <2>1 DEF Forwarded, Tensor
  <2>6. QED
    BY <1>2, <2>1, <2>3, <2>4, <2>5, PassStep DEF Forwarded
<1>5. QED
  BY <1>2, <1>3, <1>4

LEMMA BackwardBase == ASSUME Base, NEW s \in Stage, Backward(s) PROVE Base'
<1>1. Typed /\ TypeOK /\ failed \in SUBSET Stage
  BY DEF Base, Typed, TypeOK
<1>2. /\ Executes(s, "backward") /\ chan' \in [Link -> Seq(Tensor)]
      /\ UNCHANGED <<job, budget, done, schedule>>
      /\ \/ UNCHANGED <<ops, stash, last>> /\ failed' = failed \cup {s}
         \/ \E g : Reversed(s, ops[s][1].stream, g)
  BY BackwardFacts
<1>3. CASE UNCHANGED <<ops, stash, last>> /\ failed' = failed \cup {s}
  <2>1. Typed'
    <3>1. failed' \in SUBSET Stage
      BY <1>1, <1>3
    <3>2. QED
      BY <1>1, <1>2, <1>3, <3>1, TypedStep DEF Typed, TypeOK, schedule
  <2>2. \A u \in Stage : Same(u)
    BY <1>2, <1>3 DEF Same, schedule
  <2>3. \A u \in Stage : Sched(u)' /\ Remaining(ops[u], u, fwd[u], bwd[u])'
    <3> TAKE u \in Stage
    <3>1. QED
      BY <2>2, BaseFrame DEF Base
  <2>4. QED
    BY <2>1, <2>3 DEF Base
<1>4. CASE \E g : Reversed(s, ops[s][1].stream, g)
  <2> DEFINE x == ops[s][1].stream
  <2>1. PICK g : Reversed(s, x, g)
    BY <1>4
  <2>2. x \in Stream
    BY <1>2, PassFacts, StreamFacts
  <2>3. Upstream(s, x) \in Stage => <<s, Upstream(s, x)>> \in Link
    BY <2>2, Neighbours
  <2>4. Typed'
    BY <1>1, <1>2, <2>1, TypedStep DEF Reversed, Typed, TypeOK, schedule
  <2>5. [of |-> g.of, dir |-> "gradient"] \in Tensor
    BY <2>1 DEF Reversed, Tensor
  <2>6. QED
    BY <1>2, <2>1, <2>3, <2>4, <2>5, PassStep DEF Reversed
<1>5. QED
  BY <1>2, <1>3, <1>4

LEMMA SendBase ==
  ASSUME Base, NEW s \in Stage, Send(s)
  PROVE  /\ Base'
         /\ \A d, x : Has(ops'[s], d, x) <=> Has(ops[s], d, x)
         /\ \A i \in 1 .. Len(ops'[s]) : ops'[s][i] \notin SendOp
<1>1. Typed /\ TypeOK /\ ops[s] # <<>> /\ ops[s] \in Seq(Op)
  BY SendFacts, IndexTypes DEF Base, Typed
<1>2. Sent(s, ops[s][1]) /\ UNCHANGED <<job, budget, done, schedule, stash, last, failed>>
  BY SendFacts
<1>3. Typed'
  BY <1>1, <1>2, TypedStep DEF Sent, TypeOK, schedule
<1>4. PICK r : r = Tail(ops[s])
  OBVIOUS
<1>5. /\ r \in Seq(Op) /\ Len(r) = Len(ops[s]) - 1 /\ Len(ops[s]) \in Nat
      /\ \A i \in 1 .. Len(r) : r[i] = ops[s][i + 1] /\ i + 1 \in 1 .. Len(ops[s])
  BY <1>1, <1>4, TailFacts
<1>6. Next1(ops[s], r)
  BY <1>5 DEF Next1
<1>7. \A i \in 1 .. Len(r) : r[i] \notin SendOp
  <2> SUFFICES ASSUME NEW i \in 1 .. Len(r) PROVE r[i] \notin SendOp
    OBVIOUS
  <2>1. r[i] = ops[s][i + 1] /\ i + 1 \in 1 .. Len(ops[s]) /\ i + 1 # 1
    BY <1>5
  <2>2. QED
    BY <2>1 DEF Base, Remaining
<1>8. Left(s, r) /\ ops'[s] = r
  BY <1>2, <1>4 DEF Sent, Left
<1>9. /\ Base'
      /\ \A d, x : Has(r, d, x) <=> Has(ops[s], d, x)
                                    /\ ~(ops[s][1] \in PassOp /\ ops[s][1].do = d /\ ops[s][1].stream = x)
  BY <1>1, <1>2, <1>3, <1>5, <1>6, <1>7, <1>8, LeftBase
<1>10. ops[s][1] \notin PassOp
  BY <1>2, OpFacts DEF Sent
<1>11. QED
  BY <1>7, <1>8, <1>9, <1>10

LEMMA BaseInductive == Base /\ [Next]_vars => Base'
<1> SUFFICES ASSUME Base, [Next]_vars PROVE Base'
  OBVIOUS
<1>1. CASE Next
  <2>1. PICK s \in Stage : StageNext(s)
    BY <1>1 DEF Next
  <2>2. QED
    BY <2>1, NextActionBase, EndIterationBase, DiscardBase, ForwardBase, BackwardBase, SendBase DEF StageNext
<1>2. CASE UNCHANGED vars
  <2>1. Typed'
    BY <1>2 DEF Base, Typed, TypeOK, vars
  <2>2. \A u \in Stage : Same(u)
    BY <1>2 DEF Same, vars
  <2>3. \A u \in Stage : Sched(u)' /\ Remaining(ops[u], u, fwd[u], bwd[u])'
    <3> TAKE u \in Stage
    <3>1. QED
      BY <2>2, BaseFrame DEF Base
  <2>4. QED
    BY <2>1, <2>3 DEF Base
<1>3. QED
  BY <1>1, <1>2

(* Where every stage is in its schedule and in its action: Base always holds. *)
THEOREM BaseInvariance == Spec => []Base
<1>1. Init => Base
  BY InitBase
<1>2. Base /\ [Next]_vars => Base'
  BY BaseInductive
<1>3. QED
  BY <1>1, <1>2, PTL DEF Spec

(* The variables of the schedulers, the links and the stashes keep their types. *)
THEOREM TypeCorrect == Spec => []TypeOK
<1>1. Base => TypeOK
  BY DEF Base, Typed
<1>2. QED
  BY <1>1, BaseInvariance, PTL

(* Every scheduler orders the backward pass of a micro-batch after its        *)
(* forward pass, and a scheduler that returns Done has returned all the       *)
(* passes of every stream, for every number of stages and micro-batches.     *)
THEOREM SchedulesAreComplete == Spec => []SchedulesComplete
<1>1. Base => SchedulesComplete
  <2> SUFFICES ASSUME Base, NEW s \in Stage, NEW x \in Streams
               PROVE  /\ bwd[s][x] <= fwd[s][x]
                      /\ IsDone(s) => fwd[s][x] = PerStream /\ bwd[s][x] = PerStream
    BY DEF SchedulesComplete
  <2>1. Typed /\ Sched(s)
    BY DEF Base
  <2>2. bwd[s][x] <= fwd[s][x]
    BY <2>1 DEF Sched
  <2>3. IsDone(s) => fwd[s][x] = PerStream /\ bwd[s][x] = PerStream
    BY <2>1, PullFacts
  <2>4. QED
    BY <2>2, <2>3
<1>2. QED
  BY <1>1, BaseInvariance, PTL
-----------------------------------------------------------------------------
(* DualPipe: no backward pass has its gradient *)

(* The passes left are in order, so the one at the head comes before them. *)
LEMMA HeadFirst ==
  ASSUME Base, NEW s \in Stage, NEW what \in {"forward", "backward"}, Executes(s, what)
  PROVE  /\ what = "backward" => \A y \in Stream : ~Pending(s, "forward", y)
         /\ ops[s][1].stream = "reverse" => ~Pending(s, what, "regular")
<1>1. /\ ops[s][1] \in PassOp /\ ops[s][1].do = what /\ ops[s][1].stream \in Stream
      /\ Len(ops[s]) \in Nat /\ 1 \in 1 .. Len(ops[s])
  BY PassFacts, StreamFacts
<1>2. \A j \in 1 .. Len(ops[s]) : j # 1 /\ ops[s][j] \in PassOp => Rank(ops[s][1]) < Rank(ops[s][j])
  <2>1. \A j \in 1 .. Len(ops[s]) : j # 1 => 1 < j
    BY <1>1
  <2>2. QED
    BY <1>1, <2>1 DEF Base, Remaining
<1>3. \A o \in PassOp : /\ Rank(o) \in Int
                        /\ o.do = "forward" => Rank(o) <= 2
                        /\ o.do = "backward" => Rank(o) >= 3
                        /\ o.do = "forward" /\ o.stream = "regular" => Rank(o) = 1
                        /\ o.do = "backward" /\ o.stream = "regular" => Rank(o) = 3
                        /\ o.stream = "reverse" => Rank(o) \in {2, 4}
  BY OpFacts DEF Rank
<1>4. ASSUME what = "backward", NEW y \in Stream, Pending(s, "forward", y) PROVE FALSE
  <2>1. PICK j \in 1 .. Len(ops[s]) : ops[s][j] \in PassOp /\ ops[s][j].do = "forward"
    BY <1>4 DEF Pending, Has
  <2>2. j # 1
    BY <1>1, <1>4, <2>1
  <2>3. Rank(ops[s][1]) < Rank(ops[s][j])
    BY <1>2, <2>1, <2>2
  <2>4. Rank(ops[s][1]) >= 3 /\ Rank(ops[s][j]) <= 2 /\ Rank(ops[s][1]) \in Int /\ Rank(ops[s][j]) \in Int
    BY <1>1, <1>3, <1>4, <2>1
  <2>5. QED
    BY <2>3, <2>4
<1>5. ASSUME ops[s][1].stream = "reverse", Pending(s, what, "regular") PROVE FALSE
  <2>1. PICK j \in 1 .. Len(ops[s]) : ops[s][j] \in PassOp /\ ops[s][j].do = what /\ ops[s][j].stream = "regular"
    BY <1>5 DEF Pending, Has
  <2>2. j # 1
    BY <1>5, <2>1
  <2>3. Rank(ops[s][1]) < Rank(ops[s][j])
    BY <1>2, <2>1, <2>2
  <2>4. CASE what = "forward"
    <3>1. Rank(ops[s][j]) = 1 /\ Rank(ops[s][1]) \in {2, 4}
      BY <1>1, <1>3, <1>5, <2>1, <2>4
    <3>2. QED
      BY <2>3, <3>1
  <2>5. CASE what = "backward"
    <3>1. Rank(ops[s][j]) = 3 /\ Rank(ops[s][1]) \in {2, 4} /\ Rank(ops[s][1]) >= 3
      BY <1>1, <1>3, <1>5, <2>1, <2>5
    <3>2. QED
      BY <2>3, <3>1
  <2>6. QED
    BY <2>4, <2>5
<1>6. QED
  BY <1>4, <1>5

LEMMA NothingLeft ==
  ASSUME NEW s \in Stage, ops[s] = <<>>
  PROVE  (\A d, x : ~Pending(s, d, x)) /\ Len(ops[s]) = 0
BY DEF Pending, Has

(* Receiving a gradient would take a neighbour that is further ahead. *)
LEMMA NoGradient ==
  ASSUME Base, Stuck, job = "DualPipe", NEW s \in Stage, Backward(s)
  PROVE  UNCHANGED <<job, done, schedule, ops, stash, chan, last>>
<1> DEFINE x == ops[s][1].stream
           t == s + 1
<1>1. /\ Executes(s, "backward") /\ Taken(Downstream(s, x), s) /\ chan' \in [Link -> Seq(Tensor)]
      /\ UNCHANGED <<job, budget, done, schedule>>
      /\ \/ UNCHANGED <<ops, stash, last>>
         \/ \E g : Reversed(s, x, g)
  BY BackwardFacts
<1>2. LocalStuck(s) /\ Typed /\ Sched(s) /\ Bidirectional /\ Stream = {"regular", "reverse"}
  BY DEF Stuck, Base, Bidirectional, Stream
<1>3. x \in Stream /\ Pending(s, "backward", x)
  BY <1>1, PassFacts, StreamFacts DEF Pending
<1>4. x = "regular"
  BY <1>1, <1>2, <1>3, HeadFirst DEF LocalStuck
<1>5. Downstream(s, x) = t /\ s \in Int
  BY <1>4, StageTypes DEF Downstream
<1>6. ASSUME t \in Stage PROVE FALSE
  <2>1. <<t, s>> \in Link /\ <<s, t>> \in Link
    BY <1>6, StageTypes
  <2>2. /\ Len(chan[<<t, s>>]) \in Nat /\ Len(chan[<<s, t>>]) \in Nat
        /\ \A y \in Stream : Len(stash[s][y]) \in Nat /\ Len(stash[t][y]) \in Nat
        /\ \A y \in Stream : fwd[s][y] \in Nat /\ fwd[t][y] \in Nat
    BY <1>2, <1>6, <2>1, IndexTypes
  <2>3. Len(chan[<<t, s>>]) >= 1
    <3>1. chan[<<t, s>>] \in Seq(Tensor) /\ chan[<<t, s>>] # <<>>
      BY <1>1, <1>2, <1>5, <1>6, <2>1, IndexTypes DEF Taken
    <3>2. QED
      BY <3>1, TailFacts
  <2>4. \A y \in Stream : Len(stash[s][y]) = fwd[s][y]
    <3>1. \A y \in Stream : Bit(Pending(s, "forward", y)) = 0
      BY <1>1, HeadFirst DEF Bit
    <3>2. QED
      BY <1>2, <2>2, <3>1 DEF LocalStuck
  <2>5. Len(stash[t]["reverse"]) <= Len(stash[t]["regular"])
    <3>1. LocalStuck(t) /\ fwd[t]["regular"] = fwd[t]["reverse"]
      BY <1>2, <1>6 DEF Stuck, Base, Sched
    <3>2. /\ Len(stash[t]["reverse"]) = fwd[t]["reverse"] - Bit(Pending(t, "forward", "reverse"))
          /\ Len(stash[t]["regular"]) = fwd[t]["regular"] - Bit(Pending(t, "forward", "regular"))
          /\ Pending(t, "forward", "regular") => Pending(t, "forward", "reverse")
      BY <1>2, <3>1 DEF LocalStuck
    <3>3. QED
      BY <1>2, <2>2, <3>1, <3>2 DEF Bit
  <2>6. /\ Len(stash[t]["regular"]) <= Len(stash[s]["regular"])
        /\ Len(stash[s]["reverse"]) + Len(chan[<<t, s>>]) <= Len(stash[t]["reverse"])
    <3>1. Downstream(s, "regular") = t /\ Downstream(t, "reverse") = s
      BY <1>5 DEF Downstream
    <3>2. Flow(s, "regular") /\ Flow(t, "reverse")
      BY <1>2, <1>6 DEF Stuck
    <3>3. /\ Len(stash[t]["regular"]) + Len(chan[<<s, t>>]) + Bit(SendingTo(s, t)) <= Len(stash[s]["regular"])
          /\ Len(stash[s]["reverse"]) + Len(chan[<<t, s>>]) + Bit(SendingTo(t, s)) <= Len(stash[t]["reverse"])
      BY <1>6, <3>1, <3>2 DEF Flow
    <3>4. Bit(SendingTo(s, t)) \in Nat /\ Bit(SendingTo(t, s)) \in Nat
      BY DEF Bit
    <3>5. \A y \in Stream : Len(stash[s][y]) \in Nat /\ Len(stash[t][y]) \in Nat
      BY <2>2
    <3>6. \A i, j, k, m \in Nat : (i + j) + k <= m => i <= m /\ i + j <= m
      OBVIOUS
    <3>7. QED
      BY <1>2, <2>2, <3>3, <3>4, <3>5, <3>6
  <2>7. fwd[s]["regular"] = fwd[s]["reverse"] /\ fwd[s]["regular"] \in Nat
    BY <1>2, <2>2 DEF Sched
  <2>8. \A i, j, k, m \in Nat : j >= 1 /\ i + j <= k /\ k <= m /\ m <= i => FALSE
    OBVIOUS
  <2>9. QED
    <3> DEFINE i == fwd[s]["regular"]
               j == Len(chan[<<t, s>>])
               k == Len(stash[t]["reverse"])
               m == Len(stash[t]["regular"])
    <3>1. i \in Nat /\ j \in Nat /\ k \in Nat /\ m \in Nat
      BY <1>2, <2>2, <2>7
    <3>2. j >= 1 /\ i + j <= k /\ k <= m /\ m <= i
      BY <1>2, <2>3, <2>4, <2>5, <2>6, <2>7
    <3> HIDE DEF i, j, k, m
    <3>3. QED
      BY <2>8, <3>1, <3>2
<1>7. ~ \E g : Reversed(s, x, g)
  BY <1>5, <1>6 DEF Reversed
<1>8. chan' = chan
  <2>1. \A l \in Link : chan'[l] = chan[l]
    <3>1. \A l \in Link : l # <<t, s>>
      BY <1>6, StageTypes
    <3>2. QED
      BY <1>1, <1>5, <3>1 DEF Taken
  <2>2. chan \in [Link -> Seq(Tensor)]
    BY <1>2 DEF Typed, TypeOK
  <2>3. QED
    BY <1>1, <2>1, <2>2
<1>9. QED
  BY <1>1, <1>7, <1>8

(* The stages but s keep what Stuck says of them alone. *)
LEMMA LocalStuckFrame ==
  ASSUME NEW u \in Stage, LocalStuck(u), done' = done, last'[u] = last[u],
         \A y \in Stream : stash'[u][y] = stash[u][y],
         Same(u)
  PROVE  LocalStuck(u)'
<1>1. \A d, x : Pending(u, d, x)' <=> Pending(u, d, x)
  BY DEF Same, Pending, Has
<1>2. \A y \in Stream : Bit(Pending(u, "forward", y))' = Bit(Pending(u, "forward", y))
  BY <1>1 DEF Bit
<1>3. done'[u] = 0 /\ last'[u] = NoPass
  BY DEF LocalStuck
<1>4. NoPass' = NoPass
  BY DEF NoPass
<1>5. \A y \in Stream : Len(stash'[u][y]) = fwd'[u][y] - Bit(Pending(u, "forward", y))'
  BY <1>2 DEF LocalStuck, Same
<1>6. QED
  BY <1>1, <1>3, <1>4, <1>5 DEF LocalStuck, Same

(* When no tensor reaches a link, and no send is added, Flow holds on.      *)
LEMMA FlowFrame ==
  ASSUME NEW a \in Stage, NEW x \in Stream, Flow(a, x),
         LET b == Downstream(a, x) IN
           b \in Stage => /\ Len(stash'[b][x]) + Len(chan'[<<a, b>>]) <= Len(stash[b][x]) + Len(chan[<<a, b>>])
                          /\ Len(stash'[a][x]) = Len(stash[a][x])
                          /\ Len(stash'[b][x]) \in Nat /\ Len(chan'[<<a, b>>]) \in Nat
                          /\ Len(stash[b][x]) \in Nat /\ Len(chan[<<a, b>>]) \in Nat
                          /\ Len(stash[a][x]) \in Nat
                          /\ SendingTo(a, b)' => SendingTo(a, b)
  PROVE  Flow(a, x)'
<1> DEFINE b == Downstream(a, x)
<1>1. Downstream(a, x)' = b
  BY DEF Downstream
<1>2. CASE b \notin Stage
  BY <1>1, <1>2 DEF Flow
<1>3. CASE b \in Stage
  <2>1. /\ Len(stash'[b][x]) + Len(chan'[<<a, b>>]) <= Len(stash[b][x]) + Len(chan[<<a, b>>])
        /\ Len(stash'[a][x]) = Len(stash[a][x])
        /\ Len(stash'[b][x]) \in Nat /\ Len(chan'[<<a, b>>]) \in Nat
        /\ Len(stash[b][x]) \in Nat /\ Len(chan[<<a, b>>]) \in Nat
        /\ Len(stash[a][x]) \in Nat
        /\ SendingTo(a, b)' => SendingTo(a, b)
    BY <1>3
  <2>2. Bit(SendingTo(a, b))' <= Bit(SendingTo(a, b)) /\ Bit(SendingTo(a, b))' \in Nat /\ Bit(SendingTo(a, b)) \in Nat
    BY <2>1 DEF Bit
  <2>3. Len(stash[b][x]) + Len(chan[<<a, b>>]) + Bit(SendingTo(a, b)) <= Len(stash[a][x])
    BY <1>3 DEF Flow
  <2>4. Len(stash'[b][x]) + Len(chan'[<<a, b>>]) + Bit(SendingTo(a, b))' <= Len(stash'[a][x])
    <3>1. \A i, j, k, l, m, n, o \in Nat : l + m <= i + j /\ n <= k /\ (i + j) + k <= o => (l + m) + n <= o
      OBVIOUS
    <3>2. Len(stash'[a][x]) = Len(stash[a][x])
      BY <2>1
    <3> DEFINE i == Len(stash[b][x])
               j == Len(chan[<<a, b>>])
               k == Bit(SendingTo(a, b))
               l == Len(stash'[b][x])
               m == Len(chan'[<<a, b>>])
               n == Bit(SendingTo(a, b))'
               o == Len(stash[a][x])
    <3>3. i \in Nat /\ j \in Nat /\ k \in Nat /\ l \in Nat /\ m \in Nat /\ n \in Nat /\ o \in Nat
      BY <2>1, <2>2
    <3>4. l + m <= i + j /\ n <= k /\ (i + j) + k <= o
      BY <2>1, <2>2, <2>3
    <3>5. (l + m) + n <= o
      <4> HIDE DEF i, j, k, l, m, n, o
      <4>1. QED
        BY <3>1, <3>3, <3>4
    <3>6. QED
      BY <3>2, <3>5
  <2>5. QED
    BY <1>1, <2>4 DEF Flow
<1>4. QED
  BY <1>2, <1>3
LEMMA PrimedLengths ==
  ASSUME Typed'
  PROVE  /\ \A u \in Stage, y \in Stream : stash'[u][y] \in Seq(MicroBatch) /\ Len(stash'[u][y]) \in Nat
         /\ \A l \in Link : chan'[l] \in Seq(Tensor) /\ Len(chan'[l]) \in Nat
<1>1. stash' \in [Stage -> [Stream -> Seq(MicroBatch)]] /\ chan' \in [Link -> Seq(Tensor)]
  BY DEF Typed, TypeOK
<1>2. QED
  BY <1>1, LenProperties

LEMMA TakenLengths ==
  ASSUME Typed, NEW s \in Stage, NEW from, Taken(from, s), from \in Stage => <<from, s>> \in Link
  PROVE  /\ \A l \in Link : Len(chan'[l]) <= Len(chan[l])
         /\ from \in Stage => Len(chan'[<<from, s>>]) = Len(chan[<<from, s>>]) - 1
<1>1. \A l \in Link : chan[l] \in Seq(Tensor) /\ Len(chan[l]) \in Nat
  BY IndexTypes
<1>2. ASSUME NEW l \in Link, l = <<from, s>>, from \in Stage
      PROVE  Len(chan'[l]) = Len(chan[l]) - 1
  <2>1. chan[l] \in Seq(Tensor) /\ chan[l] # <<>> /\ chan'[l] = Tail(chan[l])
    BY <1>1, <1>2 DEF Taken
  <2>2. QED
    BY <2>1, TailFacts
<1>3. \A l \in Link : l # <<from, s>> => chan'[l] = chan[l]
  BY DEF Taken
<1>4. \A l \in Link : l = <<from, s>> => from \in Stage
  BY StageTypes
<1>5. \A l \in Link : Len(chan'[l]) <= Len(chan[l])
  <2> TAKE l \in Link
  <2>1. CASE l = <<from, s>>
    <3>1. Len(chan'[l]) = Len(chan[l]) - 1 /\ Len(chan[l]) \in Nat
      BY <1>1, <1>2, <1>4, <2>1
    <3>2. QED
      BY <3>1
  <2>2. CASE l # <<from, s>>
    <3>1. chan'[l] = chan[l] /\ Len(chan[l]) \in Nat
      BY <1>1, <1>3, <2>2
    <3>2. QED
      BY <3>1
  <2>3. QED
    BY <2>1, <2>2
<1>6. QED
  BY <1>2, <1>5

LEMMA StuckNextAction ==
  ASSUME Base, Stuck, job = "DualPipe", NEW s \in Stage, NextAction(s), Typed'
  PROVE  Stuck'
<1>1. /\ ops[s] = <<>> /\ job' = job /\ done' = done /\ stash' = stash /\ chan' = chan /\ last' = last
      /\ \A x \in Stream : fwd'[s][x] = IF x \in ForwardStreams(s) THEN fwd[s][x] + 1 ELSE fwd[s][x]
      /\ \A x \in Stream : bwd'[s][x] = IF x \in BackwardStreams(s) THEN bwd[s][x] + 1 ELSE bwd[s][x]
      /\ \A u \in Stage : u # s => Same(u)
      /\ \A x \in Stream : Pending(s, "forward", x)' <=> x \in ForwardStreams(s)
      /\ \A x \in Stream : Pending(s, "backward", x)' <=> x \in BackwardStreams(s)
      /\ \A i \in 1 .. Len(ops'[s]) : ops'[s][i] \in PassOp
  BY NextActionFacts DEF NextAction, Pending, Has
<1>2. /\ Typed /\ Sched(s) /\ LocalStuck(s) /\ Bidirectional
      /\ Stream = {"regular", "reverse"}
  BY DEF Base, Stuck, Bidirectional, Stream
<1>3. /\ \A d, x : ~Pending(s, d, x)
      /\ \A x \in Stream : fwd[s][x] \in Nat /\ bwd[s][x] \in Nat
      /\ ForwardStreams(s) \in {{}, Stream} /\ BackwardStreams(s) \in {{}, Stream}
  BY <1>1, <1>2, NothingLeft, IndexTypes, PullFacts
<1>4. LocalStuck(s)'
  <2>1. \A x \in Stream : Len(stash[s][x]) = fwd[s][x]
    BY <1>2, <1>3 DEF LocalStuck, Bit
  <2>2. \A x \in Stream : Len(stash'[s][x]) = fwd'[s][x] - Bit(Pending(s, "forward", x))'
    BY <1>1, <1>3, <2>1 DEF Bit
  <2>3. /\ Pending(s, "forward", "regular")' => Pending(s, "forward", "reverse")'
        /\ Pending(s, "backward", "reverse")' => Pending(s, "backward", "regular")'
    BY <1>1, <1>2, <1>3
  <2>4. bwd[s]["regular"] = 0
    BY <1>2, <1>3 DEF LocalStuck
  <2>5. bwd'[s]["regular"] > 0 => Pending(s, "backward", "regular")'
    BY <1>1, <1>2, <2>4
  <2>6. done'[s] = 0 /\ last'[s] = NoPass /\ NoPass' = NoPass
    BY <1>1, <1>2 DEF LocalStuck, NoPass
  <2>7. QED
    BY <2>2, <2>3, <2>5, <2>6 DEF LocalStuck
<1>5. ASSUME NEW u \in Stage PROVE LocalStuck(u)'
  <2>1. CASE u = s
    BY <1>4, <2>1
  <2>2. CASE u # s
    <3>1. LocalStuck(u) /\ Same(u)
      BY <1>1, <2>2 DEF Stuck
    <3>2. QED
      BY <1>1, <3>1, LocalStuckFrame
  <2>3. QED
    BY <2>1, <2>2
<1>6. ASSUME NEW a \in Stage, NEW x \in Stream PROVE Flow(a, x)'
  <2> DEFINE b == Downstream(a, x)
  <2>1. ASSUME b \in Stage PROVE <<a, b>> \in Link
    BY <2>1, Neighbours
  <2>2. ASSUME b \in Stage
        PROVE  /\ Len(stash[b][x]) \in Nat /\ Len(chan[<<a, b>>]) \in Nat /\ Len(stash[a][x]) \in Nat
               /\ SendingTo(a, b)' => SendingTo(a, b)
    <3>1. Len(stash[b][x]) \in Nat /\ Len(chan[<<a, b>>]) \in Nat /\ Len(stash[a][x]) \in Nat
      BY <1>2, <2>1, <2>2, IndexTypes
    <3>2. ASSUME a = s PROVE ~SendingTo(a, b)'
      <4>1. ASSUME Len(ops'[s]) > 0, ops'[s][1] \in SendOp PROVE FALSE
        <5>1. ops'[s] \in Seq(Op)
          BY DEF Typed
        <5>2. 1 \in 1 .. Len(ops'[s])
          BY <4>1, <5>1, LenProperties
        <5>3. QED
          BY <1>1, <4>1, <5>2, OpFacts
      <4>2. QED
        BY <3>2, <4>1 DEF SendingTo
    <3>3. a # s => (SendingTo(a, b)' <=> SendingTo(a, b))
      BY <1>1 DEF Same, SendingTo
    <3>4. QED
      BY <3>1, <3>2, <3>3
  <2>3. Flow(a, x)
    BY DEF Stuck
  <2>4. QED
    BY <1>1, <2>2, <2>3, FlowFrame
<1>7. QED
  BY <1>5, <1>6 DEF Stuck

LEMMA StuckForward ==
  ASSUME Base, Stuck, job = "DualPipe", NEW s \in Stage, Forward(s), Base'
  PROVE  Stuck'
<1> DEFINE x == ops[s][1].stream
           from == Upstream(s, x)
           to == Downstream(s, x)
<1>1. /\ Executes(s, "forward") /\ Taken(from, s)
      /\ UNCHANGED <<job, budget, done, schedule, last>>
      /\ \/ UNCHANGED <<ops, stash>>
         \/ \E i : Forwarded(s, x, i)
  BY ForwardFacts
<1>2. /\ Typed /\ Typed' /\ Stream = {"regular", "reverse"} /\ Bidirectional
      /\ x \in Stream /\ Pending(s, "forward", x)
      /\ ops[s] # <<>> /\ ops[s][1] \in PassOp /\ LocalStuck(s)
  BY <1>1, PassFacts, StreamFacts DEF Base, Stuck, Stream, Bidirectional, Pending
<1>3. /\ from \in Int /\ to \in Int /\ from # to /\ from # s /\ to # s
      /\ from \in Stage => <<from, s>> \in Link
      /\ to \in Stage => <<s, to>> \in Link
  <2>1. s \in Int
    BY StageTypes
  <2>2. from # to /\ from # s /\ to # s /\ from \in Int /\ to \in Int
    BY <1>2, <2>1 DEF Upstream, Downstream
  <2>3. QED
    BY <1>2, <2>2, Neighbours
<1>4. /\ \A l \in Link : Len(chan'[l]) <= Len(chan[l])
      /\ from \in Stage => Len(chan'[<<from, s>>]) = Len(chan[<<from, s>>]) - 1
      /\ \A l \in Link : l # <<from, s>> => chan'[l] = chan[l]
  BY <1>1, <1>2, <1>3, TakenLengths DEF Taken
<1>5. /\ \A u \in Stage, y \in Stream : Len(stash'[u][y]) \in Nat /\ Len(stash[u][y]) \in Nat
      /\ \A l \in Link : Len(chan'[l]) \in Nat /\ Len(chan[l]) \in Nat
  BY <1>2, PrimedLengths, IndexTypes
<1> HIDE DEF from, to, x
<1>6. CASE UNCHANGED <<ops, stash>>
  <2>1. ASSUME NEW u \in Stage PROVE LocalStuck(u)'
    <3>1. LocalStuck(u) /\ Same(u)
      BY <1>1, <1>6 DEF Stuck, Same, schedule
    <3>2. QED
      BY <1>1, <1>6, <3>1, LocalStuckFrame
  <2>2. ASSUME NEW a \in Stage, NEW y \in Stream PROVE Flow(a, y)'
    <3> DEFINE b == Downstream(a, y)
    <3>1. b \in Stage => <<a, b>> \in Link
      BY Neighbours
    <3>2. Flow(a, y)
      BY DEF Stuck
    <3>3. ASSUME b \in Stage
          PROVE  /\ Len(stash'[b][y]) + Len(chan'[<<a, b>>]) <= Len(stash[b][y]) + Len(chan[<<a, b>>])
                 /\ Len(stash'[a][y]) = Len(stash[a][y])
                 /\ Len(stash'[b][y]) \in Nat /\ Len(chan'[<<a, b>>]) \in Nat
                 /\ Len(stash[b][y]) \in Nat /\ Len(chan[<<a, b>>]) \in Nat
                 /\ Len(stash[a][y]) \in Nat
                 /\ SendingTo(a, b)' => SendingTo(a, b)
      <4>1. Len(chan'[<<a, b>>]) <= Len(chan[<<a, b>>])
        BY <1>4, <3>1, <3>3
      <4>2. /\ Len(stash'[b][y]) \in Nat /\ Len(chan'[<<a, b>>]) \in Nat
            /\ Len(stash[b][y]) \in Nat /\ Len(chan[<<a, b>>]) \in Nat
            /\ Len(stash[a][y]) \in Nat /\ stash' = stash
        BY <1>5, <1>6, <3>1, <3>3
      <4>3. SendingTo(a, b)' => SendingTo(a, b)
        BY <1>6 DEF SendingTo
      <4>4. QED
        BY <4>1, <4>2, <4>3
    <3>4. QED
      BY <3>2, <3>3, FlowFrame
  <2>3. QED
    BY <2>1, <2>2 DEF Stuck
<1>7. CASE \E i : Forwarded(s, x, i)
  <2>1. PICK i : Forwarded(s, x, i)
    BY <1>7
  <2>2. /\ stash'[s][x] = Append(stash[s][x], i) /\ i \in MicroBatch
        /\ \A u \in Stage, y \in Stream : u # s \/ y # x => stash'[u][y] = stash[u][y]
        /\ \A u \in Stage : u # s => ops'[u] = ops[u]
        /\ Left(s, Then(s, to, [of |-> i, dir |-> "activation"]))
    BY <2>1 DEF Forwarded, Stored, Left, to
  <2>3. Len(stash'[s][x]) = Len(stash[s][x]) + 1
    <3>1. stash[s][x] \in Seq(MicroBatch)
      BY <1>2, IndexTypes
    <3>2. QED
      BY <2>2, <3>1, AppendFacts
  <2>4. /\ \A d, y : Pending(s, d, y)' <=> Pending(s, d, y) /\ ~(d = "forward" /\ y = x)
        /\ to \in Stage => ops'[s][1].to = to
        /\ to \notin Stage => \A k \in 1 .. Len(ops'[s]) : ops'[s][k] \notin SendOp
    <3>1. [of |-> i, dir |-> "activation"] \in Tensor
      BY <2>2 DEF Tensor
    <3>2. PICK v : v = [of |-> i, dir |-> "activation"]
      OBVIOUS
    <3>3. /\ \A d, y : Has(ops'[s], d, y) <=> Has(ops[s], d, y) /\ ~(d = "forward" /\ y = x)
          /\ to \in Stage => ops'[s][1] = [do |-> "send", to |-> to, tensor |-> v]
          /\ to \notin Stage => \A k \in 1 .. Len(ops'[s]) : ops'[s][k] \notin SendOp
      BY <1>1, <1>2, <1>3, <2>2, <3>1, <3>2, PassStep DEF x
    <3>4. \A d, y : Pending(s, d, y)' <=> Has(ops'[s], d, y)
      BY DEF Pending, Has
    <3>5. QED
      BY <3>3, <3>4 DEF Pending
  <2>5. \A n \in Int : n # to => ~SendingTo(s, n)'
    <3> SUFFICES ASSUME NEW n \in Int, n # to, SendingTo(s, n)' PROVE FALSE
      OBVIOUS
    <3>1. Len(ops'[s]) > 0 /\ ops'[s][1] \in SendOp /\ ops'[s][1].to = n
      BY DEF SendingTo
    <3>2. 1 \in 1 .. Len(ops'[s])
      <4>1. ops'[s] \in Seq(Op)
        BY <1>2 DEF Typed
      <4>2. QED
        BY <3>1, <4>1, LenProperties
    <3>3. QED
      BY <2>4, <3>1, <3>2
  <2>6. \A n : ~SendingTo(s, n)
    BY <1>2, OpFacts DEF SendingTo
  <2>7. LocalStuck(s)'
    <3>1. fwd' = fwd /\ bwd' = bwd /\ done' = done /\ last' = last /\ NoPass' = NoPass
      BY <1>1 DEF schedule, NoPass
    <3>2. ASSUME NEW y \in Stream
          PROVE  Len(stash'[s][y]) = fwd'[s][y] - Bit(Pending(s, "forward", y))'
      <4>1. Len(stash[s][y]) = fwd[s][y] - Bit(Pending(s, "forward", y)) /\ fwd[s][y] \in Nat
        BY <1>2, IndexTypes DEF LocalStuck
      <4>2. CASE y = x
        <5>1. Bit(Pending(s, "forward", y)) = 1 /\ Bit(Pending(s, "forward", y))' = 0
          BY <1>2, <2>4, <4>2 DEF Bit
        <5>2. QED
          BY <1>2, <2>3, <3>1, <4>1, <4>2, <5>1
      <4>3. CASE y # x
        <5>1. Bit(Pending(s, "forward", y))' = Bit(Pending(s, "forward", y))
          BY <2>4, <4>3 DEF Bit
        <5>2. QED
          BY <2>2, <3>1, <4>1, <4>3, <5>1
      <4>4. QED
        BY <4>2, <4>3
    <3>3. Pending(s, "forward", "regular")' => Pending(s, "forward", "reverse")'
      <4>1. CASE x = "regular"
        BY <2>4, <4>1
      <4>2. CASE x = "reverse"
        <5>1. ~Pending(s, "forward", "regular")
          BY <1>1, <4>2, HeadFirst DEF x
        <5>2. QED
          BY <2>4, <5>1
      <4>3. QED
        BY <1>2, <4>1, <4>2
    <3>4. \A y : Pending(s, "backward", y)' <=> Pending(s, "backward", y)
      BY <2>4
    <3>5. QED
      BY <1>2, <3>1, <3>2, <3>3, <3>4 DEF LocalStuck
  <2>8. ASSUME NEW u \in Stage PROVE LocalStuck(u)'
    <3>1. CASE u = s
      BY <2>7, <3>1
    <3>2. CASE u # s
      <4>1. LocalStuck(u) /\ Same(u)
        BY <1>1, <2>2, <3>2 DEF Stuck, Same, schedule
      <4>2. QED
        BY <1>1, <2>2, <3>2, <4>1, LocalStuckFrame
    <3>3. QED
      BY <3>1, <3>2
  <2>9. ASSUME NEW a \in Stage, NEW y \in Stream PROVE Flow(a, y)'
    <3> DEFINE b == Downstream(a, y)
    <3>1. /\ b \in Int /\ b # a
          /\ b \in Stage => <<a, b>> \in Link
      <4>1. a \in Int
        BY StageTypes
      <4>2. b \in Int /\ b # a
        BY <4>1 DEF Downstream
      <4>3. QED
        BY <4>2, Neighbours
    <3>2. Flow(a, y)
      BY DEF Stuck
    <3>3. CASE a = s /\ y = x
      <4>1. b = to
        BY <3>3 DEF to
      <4>2. CASE b \notin Stage
        BY <4>2 DEF Flow, Downstream
      <4>3. CASE b \in Stage
        <5>1. /\ Len(stash'[b][x]) = Len(stash[b][x]) /\ Len(chan'[<<s, b>>]) = Len(chan[<<s, b>>])
          BY <1>2, <1>3, <1>4, <2>2, <3>1, <3>3, <4>3
        <5>2. Len(stash[b][x]) + Len(chan[<<s, b>>]) + Bit(SendingTo(s, b)) <= Len(stash[s][x])
          BY <3>2, <3>3, <4>3 DEF Flow
        <5>3. Bit(SendingTo(s, b)) = 0 /\ Bit(SendingTo(s, b))' \in {0, 1}
          BY <2>6 DEF Bit
        <5>4. Len(stash[b][x]) \in Nat /\ Len(chan[<<s, b>>]) \in Nat /\ Len(stash[s][x]) \in Nat
          BY <1>2, <1>5, <3>1, <3>3, <4>3
        <5>5. \A j, k, m, n \in Nat : (j + k) + 0 <= m /\ n \in {0, 1} => (j + k) + n <= m + 1
          OBVIOUS
        <5>6. Len(stash'[b][x]) + Len(chan'[<<s, b>>]) + Bit(SendingTo(s, b))' <= Len(stash'[s][x])
          <6>1. Bit(SendingTo(s, b))' \in Nat
            BY <5>3
          <6>2. (Len(stash[b][x]) + Len(chan[<<s, b>>])) + Bit(SendingTo(s, b))' <= Len(stash[s][x]) + 1
            BY <5>2, <5>3, <5>4, <5>5, <6>1
          <6>3. QED
            BY <2>3, <5>1, <6>2
        <5>7. Downstream(a, y)' = b
          BY DEF Downstream
        <5>8. QED
          BY <3>3, <5>6, <5>7 DEF Flow
      <4>4. QED
        BY <4>2, <4>3
    <3>4. CASE ~(a = s /\ y = x)
      <4>1. ASSUME b \in Stage
            PROVE  /\ Len(stash'[b][y]) + Len(chan'[<<a, b>>]) <= Len(stash[b][y]) + Len(chan[<<a, b>>])
                   /\ Len(stash'[a][y]) = Len(stash[a][y])
                   /\ Len(stash'[b][y]) \in Nat /\ Len(chan'[<<a, b>>]) \in Nat
                   /\ Len(stash[b][y]) \in Nat /\ Len(chan[<<a, b>>]) \in Nat
                   /\ Len(stash[a][y]) \in Nat
                   /\ SendingTo(a, b)' => SendingTo(a, b)
        <5>1. /\ Len(stash'[b][y]) \in Nat /\ Len(chan'[<<a, b>>]) \in Nat
              /\ Len(stash[b][y]) \in Nat /\ Len(chan[<<a, b>>]) \in Nat
              /\ Len(stash[a][y]) \in Nat
          BY <1>5, <3>1, <4>1
        <5>2. Len(stash'[a][y]) = Len(stash[a][y])
          BY <2>2, <3>4
        <5>3. SendingTo(a, b)' => SendingTo(a, b)
          <6>1. CASE a # s
            BY <2>2, <6>1 DEF SendingTo
          <6>2. CASE a = s
            <7>1. b # to
              <8>1. s \in Int /\ y # x
                BY <3>4, <6>2, StageTypes
              <8>2. (x = "regular" /\ y = "reverse") \/ (x = "reverse" /\ y = "regular")
                BY <1>2, <8>1
              <8>3. (b = s + 1 /\ to = s - 1) \/ (b = s - 1 /\ to = s + 1)
                BY <6>2, <8>2 DEF to, Downstream
              <8>4. QED
                BY <8>1, <8>3
            <7>2. QED
              BY <2>5, <3>1, <6>2, <7>1
          <6>3. QED
            BY <6>1, <6>2
        <5>4. Len(stash'[b][y]) + Len(chan'[<<a, b>>]) <= Len(stash[b][y]) + Len(chan[<<a, b>>])
          <6>1. CASE b = s /\ y = x
            <7>1. a = from
              <8>1. a \in Int /\ s \in Int
                BY StageTypes
              <8>2. QED
                BY <1>2, <6>1, <8>1 DEF from, Upstream, Downstream
            <7>2. Len(chan'[<<a, b>>]) = Len(chan[<<a, b>>]) - 1 /\ Len(stash'[b][y]) = Len(stash[b][y]) + 1
              BY <1>4, <2>3, <6>1, <7>1
            <7>3. \A i1, j1, i2, j2 \in Nat : i2 = i1 + 1 /\ j2 = j1 - 1 => i2 + j2 <= i1 + j1
              OBVIOUS
            <7>4. QED
              BY <5>1, <7>2, <7>3
          <6>2. CASE ~(b = s /\ y = x)
            <7>1. Len(stash'[b][y]) = Len(stash[b][y])
              BY <2>2, <4>1, <6>2
            <7>2. Len(chan'[<<a, b>>]) <= Len(chan[<<a, b>>])
              BY <1>4, <3>1, <4>1
            <7>3. QED
              BY <5>1, <7>1, <7>2
          <6>3. QED
            BY <6>1, <6>2
        <5>5. QED
          BY <5>1, <5>2, <5>3, <5>4
      <4>2. QED
        BY <3>2, <4>1, FlowFrame
    <3>5. QED
      BY <3>3, <3>4
  <2>10. QED
    BY <2>8, <2>9 DEF Stuck
<1>8. QED
  BY <1>1, <1>6, <1>7
LEMMA StuckSend ==
  ASSUME Base, Stuck, job = "DualPipe", NEW s \in Stage, Send(s), Base'
  PROVE  Stuck'
<1> DEFINE p == ops[s][1]
           to == p.to
<1>1. /\ Sent(s, p)
      /\ UNCHANGED <<job, budget, done, schedule, stash, last, failed>>
      /\ \A d, x : Has(ops'[s], d, x) <=> Has(ops[s], d, x)
      /\ \A i \in 1 .. Len(ops'[s]) : ops'[s][i] \notin SendOp
  BY SendFacts, SendBase
<1>2. Typed /\ Typed'
  BY DEF Base
<1>3. /\ p \in SendOp /\ to \in Stage /\ <<s, to>> \in Link /\ p.tensor \in Tensor
      /\ chan'[<<s, to>>] = Append(chan[<<s, to>>], p.tensor)
      /\ \A l \in Link : l # <<s, to>> => chan'[l] = chan[l]
      /\ \A u \in Stage : u # s => ops'[u] = ops[u]
  BY <1>1, OpFacts DEF Sent, Left
<1>4. Len(ops[s]) > 0
  <2>1. ops[s] # <<>> /\ ops[s] \in Seq(Op)
    BY <1>2, SendFacts, IndexTypes
  <2>2. QED
    BY <2>1, TailFacts
<1>5. /\ \A u \in Stage, y \in Stream : Len(stash[u][y]) \in Nat
      /\ \A l \in Link : Len(chan'[l]) \in Nat /\ Len(chan[l]) \in Nat
  BY <1>2, PrimedLengths, IndexTypes
<1>6. Len(chan'[<<s, to>>]) = Len(chan[<<s, to>>]) + 1
  <2>1. chan[<<s, to>>] \in Seq(Tensor)
    BY <1>2, <1>3, IndexTypes
  <2>2. QED
    BY <1>3, <2>1, AppendFacts
<1>7. \A n : ~SendingTo(s, n)'
  <2>1. ops'[s] \in Seq(Op)
    BY <1>2 DEF Typed
  <2>2. Len(ops'[s]) > 0 => 1 \in 1 .. Len(ops'[s])
    BY <2>1, LenProperties
  <2>3. QED
    BY <1>1, <2>2 DEF SendingTo
<1>8. SendingTo(s, to)
  BY <1>3, <1>4 DEF SendingTo
<1> HIDE DEF p, to
<1>9. ASSUME NEW u \in Stage PROVE LocalStuck(u)'
  <2>1. CASE u # s
    <3>1. LocalStuck(u) /\ Same(u)
      BY <1>1, <1>3, <2>1 DEF Stuck, Same, schedule
    <3>2. QED
      BY <1>1, <3>1, LocalStuckFrame
  <2>2. CASE u = s
    <3>1. \A d, x : Pending(s, d, x)' <=> Pending(s, d, x)
      <4>1. \A d, x : Pending(s, d, x)' <=> Has(ops'[s], d, x)
        BY DEF Pending, Has
      <4>2. QED
        BY <1>1, <4>1 DEF Pending
    <3>2. \A y \in Stream : Bit(Pending(s, "forward", y))' = Bit(Pending(s, "forward", y))
      BY <3>1 DEF Bit
    <3>3. /\ fwd' = fwd /\ bwd' = bwd /\ done' = done /\ last' = last /\ stash' = stash /\ NoPass' = NoPass
      BY <1>1 DEF schedule, NoPass
    <3>4. LocalStuck(s)
      BY DEF Stuck
    <3>5. \A y \in Stream : Len(stash'[s][y]) = fwd'[s][y] - Bit(Pending(s, "forward", y))'
      BY <3>2, <3>3, <3>4 DEF LocalStuck
    <3>6. QED
      BY <2>2, <3>1, <3>3, <3>4, <3>5 DEF LocalStuck
  <2>3. QED
    BY <2>1, <2>2
<1>10. ASSUME NEW a \in Stage, NEW y \in Stream PROVE Flow(a, y)'
  <2> DEFINE b == Downstream(a, y)
  <2>1. b \in Stage => <<a, b>> \in Link
    BY Neighbours
  <2>2. Flow(a, y)
    BY DEF Stuck
  <2>3. CASE b \notin Stage
    BY <2>3 DEF Flow, Downstream
  <2>4. CASE b \in Stage /\ a = s /\ b = to
    <3>1. Len(stash[b][y]) + Len(chan[<<a, b>>]) + Bit(SendingTo(a, b)) <= Len(stash[a][y])
      BY <2>2, <2>4 DEF Flow
    <3>2. Bit(SendingTo(a, b)) = 1 /\ Bit(SendingTo(a, b))' = 0
      BY <1>7, <1>8, <2>4 DEF Bit
    <3>3. Len(stash[b][y]) \in Nat /\ Len(chan[<<a, b>>]) \in Nat /\ Len(stash[a][y]) \in Nat
      BY <1>5, <2>1, <2>4
    <3>4. \A i, j, k \in Nat : (i + j) + 1 <= k => (i + (j + 1)) + 0 <= k
      OBVIOUS
    <3>5. Len(chan'[<<a, b>>]) = Len(chan[<<a, b>>]) + 1
      BY <1>6, <2>4
    <3>6. Len(stash'[b][y]) + Len(chan'[<<a, b>>]) + Bit(SendingTo(a, b))' <= Len(stash'[a][y])
      <4>1. (Len(stash[b][y]) + (Len(chan[<<a, b>>]) + 1)) + 0 <= Len(stash[a][y])
        BY <3>1, <3>2, <3>3, <3>4
      <4>2. stash' = stash
        BY <1>1
      <4>3. QED
        BY <3>2, <3>5, <4>1, <4>2
    <3>7. Downstream(a, y)' = b
      BY DEF Downstream
    <3>8. QED
      BY <3>6, <3>7 DEF Flow
  <2>5. CASE b \in Stage /\ ~(a = s /\ b = to)
    <3>1. chan'[<<a, b>>] = chan[<<a, b>>]
      BY <1>3, <2>1, <2>5
    <3>2. SendingTo(a, b)' => SendingTo(a, b)
      <4>1. CASE a = s
        BY <1>7, <4>1
      <4>2. CASE a # s
        BY <1>3, <4>2 DEF SendingTo
      <4>3. QED
        BY <4>1, <4>2
    <3>3. /\ Len(stash[b][y]) \in Nat /\ Len(chan[<<a, b>>]) \in Nat /\ Len(stash[a][y]) \in Nat
          /\ stash' = stash
      BY <1>1, <1>5, <2>1, <2>5
    <3>4. /\ Len(stash'[b][y]) + Len(chan'[<<a, b>>]) <= Len(stash[b][y]) + Len(chan[<<a, b>>])
          /\ Len(stash'[a][y]) = Len(stash[a][y])
          /\ Len(stash'[b][y]) \in Nat /\ Len(chan'[<<a, b>>]) \in Nat
      BY <3>1, <3>3
    <3>5. QED
      BY <2>2, <3>2, <3>3, <3>4, FlowFrame
  <2>6. QED
    BY <2>3, <2>4, <2>5
<1>11. QED
  BY <1>9, <1>10 DEF Stuck

(* A stage that has passed nothing backward has not finished an iteration. *)
LEMMA NotDone ==
  ASSUME Base, Stuck, job = "DualPipe", NEW s \in Stage
  PROVE  ~EndIteration(s)
<1> SUFFICES ASSUME EndIteration(s) PROVE FALSE
  OBVIOUS
<1>1. IsDone(s) /\ ops[s] = <<>> /\ Typed /\ Sched(s) /\ LocalStuck(s)
  BY DEF EndIteration, Base, Stuck
<1>2. bwd[s]["regular"] = PerStream /\ PerStream >= 1 /\ PerStream \in Nat
  BY <1>1, PullFacts, StreamFacts, Constants
<1>3. Pending(s, "backward", "regular")
  BY <1>1, <1>2 DEF LocalStuck
<1>4. QED
  BY <1>1, <1>3, NothingLeft

LEMMA StuckInductive == Base /\ Base' /\ Stuck /\ [Next]_vars => Stuck'
<1> SUFFICES ASSUME Base, Base', Stuck, [Next]_vars PROVE Stuck'
  OBVIOUS
<1>1. CASE job' # "DualPipe"
  BY <1>1 DEF Stuck
<1>2. CASE job' = "DualPipe" /\ Next
  <2>1. PICK s \in Stage : StageNext(s)
    BY <1>2 DEF Next
  <2>2. job' = job
    BY <2>1 DEF StageNext, NextAction, EndIteration, Discard, Forward, Backward, Send
  <2>3. CASE Backward(s)
    <3>1. UNCHANGED <<job, done, schedule, ops, stash, chan, last>>
      BY <1>2, <2>2, <2>3, NoGradient
    <3>2. \A u \in Stage : LocalStuck(u)'
      <4> TAKE u \in Stage
      <4>1. LocalStuck(u) /\ Same(u)
        BY <1>2, <2>2, <3>1 DEF Stuck, Same, schedule
      <4>2. QED
        BY <3>1, <4>1, LocalStuckFrame
    <3>3. \A a \in Stage, y \in Stream : Flow(a, y)'
      <4> TAKE a \in Stage, y \in Stream
      <4>1. Flow(a, y)
        BY <1>2, <2>2 DEF Stuck
      <4>2. Bit(SendingTo(a, Downstream(a, y)))' = Bit(SendingTo(a, Downstream(a, y)))
            /\ Downstream(a, y)' = Downstream(a, y)
        BY <3>1 DEF Bit, SendingTo, Downstream
      <4>3. stash' = stash /\ chan' = chan
        BY <3>1
      <4>4. QED
        BY <4>1, <4>2, <4>3 DEF Flow
    <3>4. QED
      BY <3>2, <3>3 DEF Stuck
  <2>4. ~Discard(s)
    BY <1>2, <2>2 DEF Discard
  <2>5. ~EndIteration(s)
    BY <1>2, <2>2, NotDone
  <2>6. Typed'
    BY DEF Base
  <2>7. QED
    BY <1>2, <2>1, <2>2, <2>3, <2>4, <2>5, <2>6, StuckNextAction, StuckForward, StuckSend DEF StageNext
<1>3. CASE job' = "DualPipe" /\ UNCHANGED vars
  <2>1. UNCHANGED <<job, done, schedule, ops, stash, chan, last>>
    BY <1>3 DEF vars, schedule
  <2>2. \A u \in Stage : LocalStuck(u)'
    <3> TAKE u \in Stage
    <3>1. LocalStuck(u) /\ Same(u)
      BY <1>3, <2>1 DEF Stuck, Same, schedule
    <3>2. QED
      BY <2>1, <3>1, LocalStuckFrame
  <2>3. \A a \in Stage, y \in Stream : Flow(a, y)'
    <3> TAKE a \in Stage, y \in Stream
    <3>1. Flow(a, y)
      BY <1>3, <2>1 DEF Stuck
    <3>2. Bit(SendingTo(a, Downstream(a, y)))' = Bit(SendingTo(a, Downstream(a, y)))
          /\ Downstream(a, y)' = Downstream(a, y)
      BY <2>1 DEF Bit, SendingTo, Downstream
    <3>3. QED
      BY <2>1, <3>1, <3>2 DEF Flow
  <2>4. QED
    BY <2>2, <2>3 DEF Stuck
<1>4. QED
  BY <1>1, <1>2, <1>3

LEMMA InitStuck == Init => Stuck
<1> SUFFICES ASSUME Init PROVE Stuck
  OBVIOUS
<1>1. ASSUME NEW s \in Stage PROVE LocalStuck(s) /\ \A x \in Stream : Flow(s, x)
  <2>1. /\ ops[s] = <<>> /\ Len(ops[s]) = 0 /\ done[s] = 0 /\ last[s] = NoPass
        /\ \A x \in Stream : fwd[s][x] = 0 /\ bwd[s][x] = 0
        /\ \A u \in Stage, x \in Stream : Len(stash[u][x]) = 0
        /\ \A l \in Link : Len(chan[l]) = 0
        /\ Stream = {"regular", "reverse"}
    BY DEF Init, Fresh, Stream
  <2>2. \A d, x : ~Pending(s, d, x)
    BY <2>1, NothingLeft
  <2>3. LocalStuck(s)
    BY <2>1, <2>2 DEF LocalStuck, Bit
  <2>4. ASSUME NEW x \in Stream PROVE Flow(s, x)
    <3> DEFINE b == Downstream(s, x)
    <3>1. ASSUME b \in Stage
          PROVE  /\ Len(stash[b][x]) = 0 /\ Len(chan[<<s, b>>]) = 0 /\ Bit(SendingTo(s, b)) = 0
                 /\ Len(stash[s][x]) = 0
      <4>1. <<s, b>> \in Link
        BY <3>1, Neighbours
      <4>2. QED
        BY <2>1, <3>1, <4>1 DEF Bit, SendingTo
    <3>2. (0 + 0) + 0 <= 0
      OBVIOUS
    <3>3. b \in Stage => (Len(stash[b][x]) + Len(chan[<<s, b>>])) + Bit(SendingTo(s, b)) <= Len(stash[s][x])
      <4> HIDE DEF b
      <4>1. QED
        BY <3>1, <3>2
    <3>4. QED
      BY <3>3 DEF Flow
  <2>5. QED
    BY <2>3, <2>4
<1>2. QED
  BY <1>1 DEF Stuck

(* DualPipeEngine::train_step, run by every rank of a pipeline, never         *)
(* completes a backward pass, and so never an iteration: whatever the number  *)
(* of stages and micro-batches and whatever the buffers and the budget, the   *)
(* stage at the end of a stream fails in receive_backward, which has no next  *)
(* stage to receive from, and the others wait for a gradient forever.         *)
THEOREM DualPipeNeverSteps ==
  Spec => [](job = "DualPipe" => \A s \in Stage : done[s] = 0 /\ last[s] = NoPass)
<1>1. Init => Base /\ Stuck
  BY InitBase, InitStuck
<1>2. Base /\ Stuck /\ [Next]_vars => (Base /\ Stuck)'
  BY BaseInductive, StuckInductive
<1>3. Base /\ Stuck => (job = "DualPipe" => \A s \in Stage : done[s] = 0 /\ last[s] = NoPass)
  BY DEF Stuck, LocalStuck
<1>4. QED
  BY <1>1, <1>2, <1>3, PTL DEF Spec
-----------------------------------------------------------------------------
(* Chains of consecutive micro-batches *)

LEMMA ChainAppend ==
  ASSUME NEW q \in Seq(MicroBatch), NEW a, NEW b \in MicroBatch, Chain(q, a, b)
  PROVE  Chain(Append(q, b), a, Succ(b))
<1>1. PICK r : r = Append(q, b)
  OBVIOUS
<1>2. /\ Len(r) = Len(q) + 1 /\ Len(q) \in Nat
      /\ \A i \in 1 .. Len(q) : r[i] = q[i]
      /\ r[Len(q) + 1] = b
  BY <1>1, AppendFacts
<1>3. /\ Len(q) = 0 => a = b
      /\ Len(q) > 0 => q[1] = a /\ b = Succ(q[Len(q)])
      /\ \A i \in 1 .. Len(q) : i < Len(q) => q[i + 1] = Succ(q[i])
  BY DEF Chain
<1>4. r[1] = a
  <2>1. CASE Len(q) = 0
    BY <1>2, <1>3, <2>1
  <2>2. CASE Len(q) > 0
    <3>1. 1 \in 1 .. Len(q)
      BY <1>2, <2>2
    <3>2. QED
      BY <1>2, <1>3, <2>2, <3>1
  <2>3. QED
    BY <1>2, <2>1, <2>2
<1>5. \A i \in 1 .. Len(r) : i < Len(r) => r[i + 1] = Succ(r[i])
  <2> SUFFICES ASSUME NEW i \in 1 .. Len(r), i < Len(r) PROVE r[i + 1] = Succ(r[i])
    OBVIOUS
  <2>1. i \in 1 .. Len(q) /\ i \in Nat /\ i >= 1 /\ i <= Len(q)
    BY <1>2
  <2>2. CASE i < Len(q)
    <3>1. i + 1 \in 1 .. Len(q)
      BY <1>2, <2>1, <2>2
    <3>2. QED
      BY <1>2, <1>3, <2>1, <2>2, <3>1
  <2>3. CASE i = Len(q)
    BY <1>2, <1>3, <2>1, <2>3
  <2>4. QED
    BY <1>2, <2>1, <2>2, <2>3
<1>6. Len(r) > 0 /\ Len(r) # 0 /\ Succ(b) = Succ(r[Len(r)])
  BY <1>2
<1>7. QED
  BY <1>1, <1>4, <1>5, <1>6 DEF Chain

LEMMA ChainTail ==
  ASSUME NEW q \in Seq(MicroBatch), NEW a, NEW b, Chain(q, a, b), q # <<>>
  PROVE  q[1] = a /\ Chain(Tail(q), Succ(a), b)
<1>1. PICK r : r = Tail(q)
  OBVIOUS
<1>2. /\ Len(q) \in Nat /\ Len(q) >= 1 /\ Len(r) = Len(q) - 1
      /\ \A i \in 1 .. Len(r) : r[i] = q[i + 1] /\ i + 1 \in 1 .. Len(q)
  BY <1>1, TailFacts
<1>3. /\ q[1] = a /\ b = Succ(q[Len(q)])
      /\ \A i \in 1 .. Len(q) : i < Len(q) => q[i + 1] = Succ(q[i])
  BY <1>2 DEF Chain
<1>4. Len(r) = 0 => Succ(a) = b
  <2>1. Len(r) = 0 => Len(q) = 1
    BY <1>2
  <2>2. QED
    BY <1>3, <2>1
<1>5. Len(r) > 0 => r[1] = Succ(a) /\ b = Succ(r[Len(r)])
  <2> SUFFICES ASSUME Len(r) > 0 PROVE r[1] = Succ(a) /\ b = Succ(r[Len(r)])
    OBVIOUS
  <2>1. 1 \in 1 .. Len(r) /\ Len(r) \in 1 .. Len(r) /\ 1 \in 1 .. Len(q) /\ 1 < Len(q) /\ Len(r) + 1 = Len(q)
    BY <1>2
  <2>2. r[1] = q[1 + 1] /\ q[1 + 1] = Succ(q[1])
    BY <1>2, <1>3, <2>1
  <2>3. r[Len(r)] = q[Len(q)]
    BY <1>2, <2>1
  <2>4. QED
    BY <1>3, <2>2, <2>3
<1>6. \A i \in 1 .. Len(r) : i < Len(r) => r[i + 1] = Succ(r[i])
  <2> SUFFICES ASSUME NEW i \in 1 .. Len(r), i < Len(r) PROVE r[i + 1] = Succ(r[i])
    OBVIOUS
  <2>1. i + 1 \in 1 .. Len(r) /\ i + 1 < Len(q) /\ i + 1 \in 1 .. Len(q)
    BY <1>2
  <2>2. r[i] = q[i + 1] /\ r[i + 1] = q[(i + 1) + 1]
    BY <1>2, <2>1
  <2>3. QED
    BY <1>3, <2>1, <2>2
<1>7. QED
  BY <1>1, <1>3, <1>4, <1>5, <1>6 DEF Chain

LEMMA TensorChainAppend ==
  ASSUME NEW q \in Seq(Tensor), NEW d, NEW a, NEW e \in Tensor, e.dir = d, TensorChain(q, d, a, e.of)
  PROVE  TensorChain(Append(q, e), d, a, Succ(e.of))
<1>1. PICK r : r = Append(q, e)
  OBVIOUS
<1>2. /\ Len(r) = Len(q) + 1 /\ Len(q) \in Nat
      /\ \A i \in 1 .. Len(q) : r[i] = q[i]
      /\ r[Len(q) + 1] = e
  BY <1>1, AppendFacts
<1>3. /\ Len(q) = 0 => a = e.of
      /\ Len(q) > 0 => q[1].of = a /\ e.of = Succ(q[Len(q)].of)
      /\ \A i \in 1 .. Len(q) : i < Len(q) => q[i + 1].of = Succ(q[i].of)
      /\ \A i \in 1 .. Len(q) : q[i].dir = d
  BY DEF TensorChain
<1>4. r[1].of = a
  <2>1. CASE Len(q) = 0
    BY <1>2, <1>3, <2>1
  <2>2. CASE Len(q) > 0
    <3>1. 1 \in 1 .. Len(q)
      BY <1>2, <2>2
    <3>2. QED
      BY <1>2, <1>3, <2>2, <3>1
  <2>3. QED
    BY <1>2, <2>1, <2>2
<1>5. \A i \in 1 .. Len(r) : i < Len(r) => r[i + 1].of = Succ(r[i].of)
  <2> SUFFICES ASSUME NEW i \in 1 .. Len(r), i < Len(r) PROVE r[i + 1].of = Succ(r[i].of)
    OBVIOUS
  <2>1. i \in 1 .. Len(q) /\ i \in Nat /\ i >= 1 /\ i <= Len(q)
    BY <1>2
  <2>2. CASE i < Len(q)
    <3>1. i + 1 \in 1 .. Len(q)
      BY <1>2, <2>1, <2>2
    <3>2. QED
      BY <1>2, <1>3, <2>1, <2>2, <3>1
  <2>3. CASE i = Len(q)
    BY <1>2, <1>3, <2>1, <2>3
  <2>4. QED
    BY <1>2, <2>1, <2>2, <2>3
<1>6. Len(r) > 0 /\ Len(r) # 0 /\ Succ(e.of) = Succ(r[Len(r)].of)
  BY <1>2
<1>7. \A i \in 1 .. Len(r) : r[i].dir = d
  <2> SUFFICES ASSUME NEW i \in 1 .. Len(r) PROVE r[i].dir = d
    OBVIOUS
  <2>1. i \in 1 .. Len(q) \/ i = Len(q) + 1
    BY <1>2
  <2>2. QED
    BY <1>2, <1>3, <2>1
<1>8. QED
  BY <1>1, <1>4, <1>5, <1>6, <1>7 DEF TensorChain

LEMMA TensorChainTail ==
  ASSUME NEW q \in Seq(Tensor), NEW d, NEW a, NEW b, TensorChain(q, d, a, b), q # <<>>
  PROVE  q[1].of = a /\ q[1].dir = d /\ TensorChain(Tail(q), d, Succ(a), b)
<1>1. PICK r : r = Tail(q)
  OBVIOUS
<1>2. /\ Len(q) \in Nat /\ Len(q) >= 1 /\ Len(r) = Len(q) - 1
      /\ \A i \in 1 .. Len(r) : r[i] = q[i + 1] /\ i + 1 \in 1 .. Len(q)
  BY <1>1, TailFacts
<1>3. /\ q[1].of = a /\ b = Succ(q[Len(q)].of)
      /\ \A i \in 1 .. Len(q) : i < Len(q) => q[i + 1].of = Succ(q[i].of)
      /\ \A i \in 1 .. Len(q) : q[i].dir = d
  BY <1>2 DEF TensorChain
<1>4. Len(r) = 0 => Succ(a) = b
  <2>1. Len(r) = 0 => Len(q) = 1
    BY <1>2
  <2>2. QED
    BY <1>3, <2>1
<1>5. Len(r) > 0 => r[1].of = Succ(a) /\ b = Succ(r[Len(r)].of)
  <2> SUFFICES ASSUME Len(r) > 0 PROVE r[1].of = Succ(a) /\ b = Succ(r[Len(r)].of)
    OBVIOUS
  <2>1. 1 \in 1 .. Len(r) /\ Len(r) \in 1 .. Len(r) /\ 1 \in 1 .. Len(q) /\ 1 < Len(q) /\ Len(r) + 1 = Len(q)
    BY <1>2
  <2>2. r[1] = q[1 + 1] /\ q[1 + 1].of = Succ(q[1].of)
    BY <1>2, <1>3, <2>1
  <2>3. r[Len(r)] = q[Len(q)]
    BY <1>2, <2>1
  <2>4. QED
    BY <1>3, <2>2, <2>3
<1>6. \A i \in 1 .. Len(r) : i < Len(r) => r[i + 1].of = Succ(r[i].of)
  <2> SUFFICES ASSUME NEW i \in 1 .. Len(r), i < Len(r) PROVE r[i + 1].of = Succ(r[i].of)
    OBVIOUS
  <2>1. i + 1 \in 1 .. Len(r) /\ i + 1 < Len(q) /\ i + 1 \in 1 .. Len(q)
    BY <1>2
  <2>2. r[i] = q[i + 1] /\ r[i + 1] = q[(i + 1) + 1]
    BY <1>2, <2>1
  <2>3. QED
    BY <1>3, <2>1, <2>2
<1>7. (\A i \in 1 .. Len(r) : r[i].dir = d) /\ q[1].dir = d
  <2>1. 1 \in 1 .. Len(q)
    BY <1>2
  <2>2. QED
    BY <1>2, <1>3, <2>1
<1>8. QED
  BY <1>1, <1>3, <1>4, <1>5, <1>6, <1>7 DEF TensorChain
-----------------------------------------------------------------------------
(* OneFOneB and GPipe: every pass meets its own micro-batch *)

(* What a stage that does not move keeps. *)
LEMMA PointersFrame ==
  ASSUME NEW u \in Stage, Same(u)
  PROVE  /\ FwdNext(u)' = FwdNext(u) /\ BwdNext(u)' = BwdNext(u)
         /\ ActNext(u)' = ActNext(u) /\ GradNext(u)' = GradNext(u)
         /\ \A d, x : Pending(u, d, x)' <=> Pending(u, d, x)
         /\ \A d : Sending(u, d)' <=> Sending(u, d)
<1>1. \A d, x : Pending(u, d, x)' <=> Pending(u, d, x)
  BY DEF Same, Pending, Has
<1>2. \A d : Sending(u, d)' <=> Sending(u, d)
  BY DEF Same, Sending
<1>3. FwdNext(u)' = FwdNext(u) /\ BwdNext(u)' = BwdNext(u)
  BY <1>1 DEF Same, FwdNext, BwdNext, Wrap
<1>4. ActNext(u)' = ActNext(u) /\ GradNext(u)' = GradNext(u)
  BY <1>2, <1>3 DEF Same, ActNext, GradNext
<1>5. QED
  BY <1>1, <1>2, <1>3, <1>4

LEMMA LocalChainFrame ==
  ASSUME NEW u \in Stage, Same(u), LocalChain(u), stash'[u]["regular"] = stash[u]["regular"], last'[u] = last[u]
  PROVE  LocalChain(u)'
<1>1. /\ FwdNext(u)' = FwdNext(u) /\ BwdNext(u)' = BwdNext(u)
      /\ \A d, x : Pending(u, d, x)' <=> Pending(u, d, x)
      /\ \A d : Sending(u, d)' <=> Sending(u, d)
  BY PointersFrame
<1>2. /\ Bit(Pending(u, "forward", "regular"))' = Bit(Pending(u, "forward", "regular"))
      /\ Bit(Pending(u, "backward", "regular"))' = Bit(Pending(u, "backward", "regular"))
  BY <1>1 DEF Bit
<1>3. fwd'[u] = fwd[u] /\ bwd'[u] = bwd[u] /\ ops'[u] = ops[u]
  BY DEF Same
<1>4. Chain(stash[u]["regular"], BwdNext(u), FwdNext(u))'
  BY <1>1 DEF LocalChain, Chain, Succ
<1>5. Len(stash'[u]["regular"]) = (fwd'[u]["regular"] - Bit(Pending(u, "forward", "regular"))')
                                  - (bwd'[u]["regular"] - Bit(Pending(u, "backward", "regular"))')
  BY <1>2, <1>3 DEF LocalChain
<1>6. /\ Sending(u, "activation")' => ops'[u][1].to = u + 1 /\ Succ(ops'[u][1].tensor.of) = FwdNext(u)'
      /\ Sending(u, "gradient")' => ops'[u][1].to = u - 1 /\ Succ(ops'[u][1].tensor.of) = BwdNext(u)'
      /\ last'[u].activation = last'[u].of /\ last'[u].gradient = [of |-> last'[u].of, dir |-> "gradient"]
  BY <1>1, <1>3 DEF LocalChain
<1>7. QED
  BY <1>4, <1>5, <1>6 DEF LocalChain, Succ

LEMMA ActLinkFrame ==
  ASSUME NEW a \in Stage, ActLink(a),
         a + 1 \in Stage => /\ chan'[<<a, a + 1>>] = chan[<<a, a + 1>>]
                            /\ FwdNext(a + 1)' = FwdNext(a + 1) /\ ActNext(a)' = ActNext(a)
  PROVE  ActLink(a)'
BY DEF ActLink, TensorChain, Succ

LEMMA GradLinkFrame ==
  ASSUME NEW a \in Stage, GradLink(a),
         a - 1 \in Stage => /\ chan'[<<a, a - 1>>] = chan[<<a, a - 1>>]
                            /\ BwdNext(a - 1)' = BwdNext(a - 1) /\ GradNext(a)' = GradNext(a)
  PROVE  GradLink(a)'
BY DEF GradLink, TensorChain, Succ

LEMMA UnidirectionalFacts ==
  ASSUME Typed, Unidirectional, NEW s \in Stage, Sched(s)
  PROVE  /\ ~Bidirectional /\ PerStream = NumMicroBatches /\ Streams = {"regular"} /\ "regular" \in Stream
         /\ NumMicroBatches \in Nat /\ NumMicroBatches >= 1
         /\ fwd[s]["regular"] \in Nat /\ bwd[s]["regular"] \in Nat
         /\ fwd[s]["regular"] <= NumMicroBatches /\ bwd[s]["regular"] <= fwd[s]["regular"]
         /\ Upstream(s, "regular") = s - 1 /\ Downstream(s, "regular") = s + 1 /\ s \in Int
<1>1. ~Bidirectional
  BY DEF Unidirectional, Bidirectional
<1>2. PerStream = NumMicroBatches /\ Streams = {"regular"} /\ "regular" \in Stream
      /\ NumMicroBatches \in Nat /\ NumMicroBatches >= 1
  BY <1>1, Constants, StreamFacts
<1>3. fwd[s]["regular"] \in Nat /\ bwd[s]["regular"] \in Nat
  BY <1>2, IndexTypes
<1>4. QED
  BY <1>1, <1>2, <1>3, StageTypes DEF Sched, Upstream, Downstream

(* Pulling an action, or starting the next iteration, moves no pointer.     *)
LEMMA ChainedKept ==
  ASSUME Chained, Unidirectional, NEW s \in Stage, \A u \in Stage : u # s => Same(u),
         stash' = stash, chan' = chan, last' = last, job' = job,
         FwdNext(s)' = FwdNext(s), BwdNext(s)' = BwdNext(s),
         \A d : ~Sending(s, d) /\ ~Sending(s, d)',
         Len(stash'[s]["regular"]) = (fwd'[s]["regular"] - Bit(Pending(s, "forward", "regular"))')
                                     - (bwd'[s]["regular"] - Bit(Pending(s, "backward", "regular"))')
  PROVE  Chained'
<1>1. \A u \in Stage : /\ FwdNext(u)' = FwdNext(u) /\ BwdNext(u)' = BwdNext(u)
                       /\ ActNext(u)' = ActNext(u) /\ GradNext(u)' = GradNext(u)
  <2> TAKE u \in Stage
  <2>1. CASE u = s
    BY <2>1 DEF ActNext, GradNext
  <2>2. CASE u # s
    BY <2>2, PointersFrame
  <2>3. QED
    BY <2>1, <2>2
<1>2. \A u \in Stage : LocalChain(u) /\ ActLink(u) /\ GradLink(u)
  BY DEF Chained
<1>3. \A u \in Stage : LocalChain(u)'
  <2> TAKE u \in Stage
  <2>1. CASE u # s
    BY <1>2, <2>1, LocalChainFrame
  <2>2. CASE u = s
    <3>1. Chain(stash[s]["regular"], BwdNext(s), FwdNext(s))'
      BY <1>2 DEF LocalChain, Chain, Succ
    <3>2. /\ last'[s].activation = last'[s].of
          /\ last'[s].gradient = [of |-> last'[s].of, dir |-> "gradient"]
      BY <1>2 DEF LocalChain
    <3>3. QED
      BY <2>2, <3>1, <3>2 DEF LocalChain
  <2>3. QED
    BY <2>1, <2>2
<1>4. \A u \in Stage : ActLink(u)' /\ GradLink(u)'
  <2> TAKE u \in Stage
  <2>1. QED
    BY <1>1, <1>2, ActLinkFrame, GradLinkFrame
<1>5. QED
  BY <1>3, <1>4 DEF Chained

LEMMA NoSend ==
  ASSUME NEW q \in Seq(Op), \A i \in 1 .. Len(q) : q[i] \notin SendOp
  PROVE  ~(Len(q) > 0 /\ q[1] \in SendOp)
<1>1. Len(q) > 0 => 1 \in 1 .. Len(q)
  BY LenProperties
<1>2. QED
  BY <1>1

(* Pulling an action executes nothing: the index a pass advances is that of  *)
(* a pass that is pending then.                                            *)
LEMMA NextActionMoves ==
  ASSUME Base, Chained, Unidirectional, NEW s \in Stage, NextAction(s), Typed'
  PROVE  /\ job' = job /\ stash' = stash /\ chan' = chan /\ last' = last /\ done' = done
         /\ \A u \in Stage : u # s => Same(u)
         /\ \A d : ~Sending(s, d) /\ ~Sending(s, d)'
         /\ FwdNext(s)' = FwdNext(s) /\ BwdNext(s)' = BwdNext(s)
         /\ fwd'[s]["regular"] - Bit(Pending(s, "forward", "regular"))'
              = fwd[s]["regular"] - Bit(Pending(s, "forward", "regular"))
         /\ bwd'[s]["regular"] - Bit(Pending(s, "backward", "regular"))'
              = bwd[s]["regular"] - Bit(Pending(s, "backward", "regular"))
<1> DEFINE k == fwd[s]["regular"]
           b == bwd[s]["regular"]
           PF == Pending(s, "forward", "regular")'
           PB == Pending(s, "backward", "regular")'
<1>1. /\ ops[s] = <<>> /\ job' = job /\ stash' = stash /\ chan' = chan /\ last' = last /\ done' = done
      /\ \A x \in Stream : fwd'[s][x] = IF x \in ForwardStreams(s) THEN fwd[s][x] + 1 ELSE fwd[s][x]
      /\ \A x \in Stream : bwd'[s][x] = IF x \in BackwardStreams(s) THEN bwd[s][x] + 1 ELSE bwd[s][x]
      /\ \A u \in Stage : u # s => Same(u)
      /\ \A x \in Stream : Pending(s, "forward", x)' <=> x \in ForwardStreams(s)
      /\ \A x \in Stream : Pending(s, "backward", x)' <=> x \in BackwardStreams(s)
      /\ \A i \in 1 .. Len(ops'[s]) : ops'[s][i] \in PassOp
  BY NextActionFacts DEF NextAction, Pending, Has
<1>2. Typed /\ Sched(s) /\ LocalChain(s)
  BY DEF Base, Chained
<1>3. /\ PerStream = NumMicroBatches /\ "regular" \in Stream /\ NumMicroBatches \in Nat
      /\ k \in Nat /\ b \in Nat /\ k <= NumMicroBatches /\ b <= k
  BY <1>2, UnidirectionalFacts
<1>4. /\ \A d, x : ~Pending(s, d, x)
      /\ \A d : ~Sending(s, d)
  BY <1>1, NothingLeft DEF Sending
<1>5. /\ fwd'[s]["regular"] = IF PF THEN k + 1 ELSE k
      /\ bwd'[s]["regular"] = IF PB THEN b + 1 ELSE b
      /\ PF => k < NumMicroBatches
      /\ PB => b < NumMicroBatches
  BY <1>1, <1>2, <1>3, PullTypes
<1>6. FwdNext(s) = Wrap(k) /\ BwdNext(s) = Wrap(b)
  BY <1>4 DEF FwdNext, BwdNext
<1>7. /\ FwdNext(s)' = IF PF THEN fwd'[s]["regular"] - 1 ELSE Wrap(fwd'[s]["regular"])
      /\ BwdNext(s)' = IF PB THEN bwd'[s]["regular"] - 1 ELSE Wrap(bwd'[s]["regular"])
  BY DEF FwdNext, BwdNext, Wrap
<1> HIDE DEF PF, PB, k, b
<1>8. FwdNext(s)' = FwdNext(s) /\ BwdNext(s)' = BwdNext(s)
  BY <1>3, <1>5, <1>6, <1>7 DEF Wrap
<1>9. \A d : ~Sending(s, d)'
  <2>1. \A i \in 1 .. Len(ops'[s]) : ops'[s][i] \notin SendOp
    BY <1>1, OpFacts
  <2>2. ops'[s] \in Seq(Op)
    BY DEF Typed
  <2>3. QED
    BY <2>1, <2>2, NoSend DEF Sending
<1>10. /\ fwd'[s]["regular"] - Bit(Pending(s, "forward", "regular"))' = k
       /\ fwd[s]["regular"] - Bit(Pending(s, "forward", "regular")) = k
  <2>1. Bit(Pending(s, "forward", "regular")) = 0
    BY <1>4 DEF Bit
  <2>2. fwd[s]["regular"] - 0 = k
    BY <1>3 DEF k
  <2>3. fwd'[s]["regular"] - Bit(Pending(s, "forward", "regular"))' = k
    BY <1>3, <1>5 DEF Bit, PF
  <2>4. QED
    BY <2>1, <2>2, <2>3
<1>11. /\ bwd'[s]["regular"] - Bit(Pending(s, "backward", "regular"))' = b
       /\ bwd[s]["regular"] - Bit(Pending(s, "backward", "regular")) = b
  <2>1. Bit(Pending(s, "backward", "regular")) = 0
    BY <1>4 DEF Bit
  <2>2. bwd[s]["regular"] - 0 = b
    BY <1>3 DEF b
  <2>3. bwd'[s]["regular"] - Bit(Pending(s, "backward", "regular"))' = b
    BY <1>3, <1>5 DEF Bit, PB
  <2>4. QED
    BY <2>1, <2>2, <2>3
<1>12. QED
  BY <1>1, <1>4, <1>8, <1>9, <1>10, <1>11

LEMMA ChainedNextAction ==
  ASSUME Base, Chained, Unidirectional, NEW s \in Stage, NextAction(s), Typed'
  PROVE  Chained'
<1>1. Len(stash'[s]["regular"]) = (fwd'[s]["regular"] - Bit(Pending(s, "forward", "regular"))')
                                  - (bwd'[s]["regular"] - Bit(Pending(s, "backward", "regular"))')
  <2>1. LocalChain(s)
    BY DEF Chained
  <2>2. QED
    BY <2>1, NextActionMoves DEF LocalChain
<1>2. QED
  BY <1>1, NextActionMoves, ChainedKept

(* An iteration ends with every index at its end.                          *)
LEMMA EndIterationMoves ==
  ASSUME Base, Chained, Unidirectional, NEW s \in Stage, EndIteration(s)
  PROVE  /\ UNCHANGED <<job, budget, ops, chan, last, failed, stash>>
         /\ \A u \in Stage : u # s => Same(u)
         /\ \A d : ~Sending(s, d) /\ ~Sending(s, d)'
         /\ \A d, x : ~Pending(s, d, x) /\ ~Pending(s, d, x)'
         /\ FwdNext(s)' = FwdNext(s) /\ BwdNext(s)' = BwdNext(s)
         /\ fwd[s]["regular"] = NumMicroBatches /\ bwd[s]["regular"] = NumMicroBatches
         /\ fwd'[s]["regular"] = 0 /\ bwd'[s]["regular"] = 0
         /\ NumMicroBatches \in Nat
<1>1. /\ ops[s] = <<>> /\ IsDone(s) /\ UNCHANGED <<job, budget, ops, chan, last, failed>>
      /\ stash' = stash
  BY DEF EndIteration, Unidirectional
<1>2. Typed /\ Sched(s) /\ LocalChain(s)
  BY DEF Base, Chained
<1>3. /\ PerStream = NumMicroBatches /\ "regular" \in Stream /\ "regular" \in Streams
      /\ NumMicroBatches \in Nat /\ NumMicroBatches >= 1
  BY <1>2, UnidirectionalFacts
<1>4. fwd[s]["regular"] = NumMicroBatches /\ bwd[s]["regular"] = NumMicroBatches
  BY <1>1, <1>2, <1>3, PullFacts
<1>5. fwd'[s]["regular"] = 0 /\ bwd'[s]["regular"] = 0
  BY <1>3, EndIterationBase
<1>6. \A u \in Stage : u # s => Same(u)
  BY <1>1, <1>2 DEF EndIteration, Typed, TypeOK, Same
<1>7. /\ \A d, x : ~Pending(s, d, x)
      /\ \A d, x : ~Pending(s, d, x)'
      /\ \A d : ~Sending(s, d)
      /\ \A d : ~Sending(s, d)'
  <2>1. \A d, x : ~Pending(s, d, x)
    BY <1>1, NothingLeft
  <2>2. \A d, x : Pending(s, d, x)' <=> Pending(s, d, x)
    BY <1>1 DEF Pending, Has
  <2>3. \A d : ~Sending(s, d)
    BY <1>1, NothingLeft DEF Sending
  <2>4. \A d : Sending(s, d)' <=> Sending(s, d)
    BY <1>1 DEF Sending
  <2>5. QED
    BY <2>1, <2>2, <2>3, <2>4
<1>8. FwdNext(s)' = FwdNext(s) /\ BwdNext(s)' = BwdNext(s)
  BY <1>3, <1>4, <1>5, <1>7 DEF FwdNext, BwdNext, Wrap
<1>9. QED
  BY <1>1, <1>3, <1>4, <1>5, <1>6, <1>7, <1>8

LEMMA ChainedEndIteration ==
  ASSUME Base, Chained, Unidirectional, NEW s \in Stage, EndIteration(s)
  PROVE  Chained'
<1>1. LocalChain(s)
  BY DEF Chained
<1>2. Len(stash'[s]["regular"]) = (fwd'[s]["regular"] - Bit(Pending(s, "forward", "regular"))')
                                  - (bwd'[s]["regular"] - Bit(Pending(s, "backward", "regular"))')
  <2>1. Len(stash[s]["regular"]) = (NumMicroBatches - 0) - (NumMicroBatches - 0)
    BY <1>1, EndIterationMoves DEF LocalChain, Bit
  <2>2. Len(stash[s]["regular"]) = (0 - 0) - (0 - 0)
    BY <2>1, EndIterationMoves
  <2>3. QED
    BY <2>2, EndIterationMoves DEF Bit
<1>3. QED
  BY <1>2, EndIterationMoves, ChainedKept

LEMMA LinkFacts ==
  ASSUME NEW s \in Stage
  PROVE  /\ s + 1 \in Stage => <<s, s + 1>> \in Link /\ <<s + 1, s>> \in Link
         /\ s - 1 \in Stage => <<s, s - 1>> \in Link /\ <<s - 1, s>> \in Link
         /\ <<s, s + 1>> # <<s - 1, s>> /\ <<s, s - 1>> # <<s - 1, s>> /\ <<s + 1, s>> # <<s - 1, s>>
         /\ <<s, s + 1>> # <<s + 1, s>> /\ <<s, s - 1>> # <<s + 1, s>> /\ <<s - 1, s>> # <<s + 1, s>>
         /\ <<s, s + 1>> # <<s, s - 1>> /\ <<s + 1, s>> # <<s, s - 1>> /\ <<s - 1, s>> # <<s, s + 1>>
<1>1. s \in Int
  BY StageTypes
<1>2. s # s + 1 /\ s # s - 1 /\ s + 1 # s - 1
  BY <1>1
<1>3. \A a, b, c, d : a # c \/ b # d => <<a, b>> # <<c, d>>
  OBVIOUS
<1>4. s + 1 \in Stage => <<s, s + 1>> \in Link /\ <<s + 1, s>> \in Link
  BY StageTypes
<1>5. s - 1 \in Stage => <<s, s - 1>> \in Link /\ <<s - 1, s>> \in Link
  BY StageTypes
<1>6. QED
  BY <1>2, <1>3, <1>4, <1>5

(* When only the stage s and its links move. *)
LEMMA ChainedMove ==
  ASSUME Chained, Unidirectional, NEW s \in Stage, job' = job, \A u \in Stage : u # s => Same(u),
         \A u \in Stage : u # s => stash'[u]["regular"] = stash[u]["regular"] /\ last'[u] = last[u],
         \A l \in Link : l[1] # s /\ l[2] # s => chan'[l] = chan[l],
         LocalChain(s)', ActLink(s)', GradLink(s)',
         s - 1 \in Stage => ActLink(s - 1)',
         s + 1 \in Stage => GradLink(s + 1)'
  PROVE  Chained'
<1>1. \A u \in Stage : LocalChain(u) /\ ActLink(u) /\ GradLink(u)
  BY DEF Chained
<1>2. \A u \in Stage : u # s => /\ FwdNext(u)' = FwdNext(u) /\ BwdNext(u)' = BwdNext(u)
                                /\ ActNext(u)' = ActNext(u) /\ GradNext(u)' = GradNext(u)
  BY PointersFrame
<1>3. ASSUME NEW u \in Stage PROVE LocalChain(u)'
  <2>1. CASE u = s
    BY <2>1
  <2>2. CASE u # s
    BY <1>1, <2>2, LocalChainFrame
  <2>3. QED
    BY <2>1, <2>2
<1>4. ASSUME NEW u \in Stage PROVE ActLink(u)'
  <2>1. u \in Int /\ s \in Int
    BY StageTypes
  <2>2. CASE u = s
    BY <2>2
  <2>3. CASE u + 1 = s
    <3>1. u = s - 1
      BY <2>1, <2>3
    <3>2. QED
      BY <3>1
  <2>4. CASE u # s /\ u + 1 # s
    <3>1. ASSUME u + 1 \in Stage PROVE chan'[<<u, u + 1>>] = chan[<<u, u + 1>>]
      <4>1. <<u, u + 1>> \in Link
        BY <3>1, StageTypes
      <4>2. QED
        BY <2>4, <4>1
    <3>2. QED
      BY <1>1, <1>2, <2>4, <3>1, ActLinkFrame
  <2>5. QED
    BY <2>2, <2>3, <2>4
<1>5. ASSUME NEW u \in Stage PROVE GradLink(u)'
  <2>1. u \in Int /\ s \in Int
    BY StageTypes
  <2>2. CASE u = s
    BY <2>2
  <2>3. CASE u - 1 = s
    <3>1. u = s + 1
      BY <2>1, <2>3
    <3>2. QED
      BY <3>1
  <2>4. CASE u # s /\ u - 1 # s
    <3>1. ASSUME u - 1 \in Stage PROVE chan'[<<u, u - 1>>] = chan[<<u, u - 1>>]
      <4>1. <<u, u - 1>> \in Link
        BY <3>1, StageTypes
      <4>2. QED
        BY <2>4, <4>1
    <3>2. QED
      BY <1>1, <1>2, <2>4, <3>1, GradLinkFrame
  <2>5. QED
    BY <2>2, <2>3, <2>4
<1>6. QED
  BY <1>3, <1>4, <1>5 DEF Chained

(* The pass at the head is that of the micro-batch the pointer names.       *)
LEMMA HeadIsNext ==
  ASSUME Base, Unidirectional, NEW s \in Stage, NEW what \in {"forward", "backward"}, Executes(s, what)
  PROVE  /\ ops[s][1].stream = "regular" /\ Pending(s, what, "regular")
         /\ what = "forward" => ops[s][1].of = FwdNext(s) /\ FwdNext(s) = fwd[s]["regular"] - 1
         /\ what = "backward" => ops[s][1].of = BwdNext(s) /\ BwdNext(s) = bwd[s]["regular"] - 1
         /\ \A d : ~Sending(s, d)
<1>1. Typed /\ Sched(s)
  BY DEF Base
<1>2. Streams = {"regular"}
  BY <1>1, UnidirectionalFacts
<1>3. /\ ops[s][1] \in PassOp /\ ops[s][1].do = what /\ ops[s][1].stream = "regular"
      /\ ops[s][1].of = IndexOf(ops[s][1], fwd[s], bwd[s]) /\ Pending(s, what, "regular")
  BY <1>2, PassFacts DEF Pending
<1>4. /\ what = "forward" => ops[s][1].of = fwd[s]["regular"] - 1
      /\ what = "backward" => ops[s][1].of = bwd[s]["regular"] - 1
  BY <1>3 DEF IndexOf, MicroBatchOf
<1>5. \A d : ~Sending(s, d)
  BY <1>3, OpFacts DEF Sending
<1>6. QED
  BY <1>3, <1>4, <1>5 DEF FwdNext, BwdNext

(* What a forward pass moves: the tensor it takes from upstream, the        *)
(* activation it stores, the pass it has done and the send it leaves.       *)
LEMMA ForwardMoves ==
  ASSUME Base, Base', Chained, Unidirectional, NEW s \in Stage, Forward(s)
  PROVE  /\ FwdNext(s) \in MicroBatch /\ FwdNext(s)' = Succ(FwdNext(s)) /\ BwdNext(s)' = BwdNext(s)
         /\ s - 1 \in Stage =>
              /\ chan[<<s - 1, s>>] # <<>> /\ chan'[<<s - 1, s>>] = Tail(chan[<<s - 1, s>>])
              /\ TensorChain(Tail(chan[<<s - 1, s>>]), "activation", Succ(FwdNext(s)), ActNext(s - 1))
         /\ \A l \in Link : l # <<s - 1, s>> => chan'[l] = chan[l]
         /\ stash'[s]["regular"] = Append(stash[s]["regular"], FwdNext(s))
         /\ \A u \in Stage : u # s => stash'[u]["regular"] = stash[u]["regular"]
         /\ \A u \in Stage : u # s => ops'[u] = ops[u]
         /\ \A d, x : Pending(s, d, x)' <=> Pending(s, d, x) /\ ~(d = "forward" /\ x = "regular")
         /\ fwd' = fwd /\ bwd' = bwd
         /\ s + 1 \in Stage => /\ Sending(s, "activation")' /\ ~Sending(s, "gradient")'
                               /\ ops'[s][1].tensor.of = FwdNext(s) /\ ops'[s][1].to = s + 1
         /\ s + 1 \notin Stage => \A d : ~Sending(s, d)'
<1> DEFINE m == FwdNext(s)
           q == stash[s]["regular"]
           in == chan[<<s - 1, s>>]
<1>1. /\ Executes(s, "forward") /\ Typed /\ Typed' /\ Sched(s) /\ LocalChain(s)
      /\ Taken(Upstream(s, ops[s][1].stream), s)
      /\ UNCHANGED <<job, budget, done, schedule, last>>
      /\ \E i : Forwarded(s, ops[s][1].stream, i)
  BY ForwardFacts DEF Base, Chained, Unidirectional
<1>2. /\ ops[s][1].stream = "regular" /\ Pending(s, "forward", "regular")
      /\ ops[s][1].of = m /\ m = fwd[s]["regular"] - 1
      /\ \A d : ~Sending(s, d)
  BY <1>1, HeadIsNext
<1>3. /\ Upstream(s, "regular") = s - 1 /\ Downstream(s, "regular") = s + 1 /\ s \in Int
      /\ fwd[s]["regular"] \in Nat /\ bwd[s]["regular"] \in Nat /\ NumMicroBatches \in Nat
      /\ "regular" \in Stream
  BY <1>1, UnidirectionalFacts
<1>4. PICK i : Forwarded(s, "regular", i)
  BY <1>1, <1>2
<1>5. /\ s - 1 \in Stage => in # <<>> /\ chan'[<<s - 1, s>>] = Tail(in)
      /\ \A l \in Link : l # <<s - 1, s>> => chan'[l] = chan[l]
  BY <1>1, <1>2, <1>3 DEF Taken
<1>6. s - 1 \in Stage => /\ in[1].of = m
                         /\ TensorChain(Tail(in), "activation", Succ(m), ActNext(s - 1))
  <2> SUFFICES ASSUME s - 1 \in Stage
               PROVE  in[1].of = m /\ TensorChain(Tail(in), "activation", Succ(m), ActNext(s - 1))
    OBVIOUS
  <2>1. ActLink(s - 1) /\ (s - 1) + 1 = s
    BY <1>3 DEF Chained
  <2>2. TensorChain(in, "activation", m, ActNext(s - 1))
    BY <2>1 DEF ActLink
  <2>3. in \in Seq(Tensor) /\ in # <<>>
    <3>1. <<s - 1, s>> \in Link
      BY <1>3, StageTypes
    <3>2. QED
      BY <1>1, <1>5, <3>1, IndexTypes
  <2> HIDE DEF in, m
  <2>4. QED
    BY <2>2, <2>3, TensorChainTail
<1>7. i = m /\ i \in MicroBatch
  BY <1>2, <1>3, <1>4, <1>6 DEF Forwarded
<1>8. /\ stash'[s]["regular"] = Append(q, m)
      /\ \A u \in Stage : u # s => stash'[u]["regular"] = stash[u]["regular"]
      /\ Left(s, Then(s, s + 1, [of |-> m, dir |-> "activation"]))
      /\ \A u \in Stage : u # s => ops'[u] = ops[u]
  BY <1>3, <1>4, <1>7 DEF Forwarded, Stored, Left
<1>9. PICK t : t = [of |-> m, dir |-> "activation"]
  OBVIOUS
<1>10. /\ \A d, x : Has(ops'[s], d, x) <=> Has(ops[s], d, x) /\ ~(d = "forward" /\ x = "regular")
       /\ s + 1 \in Stage => /\ ops'[s][1] = [do |-> "send", to |-> s + 1, tensor |-> t]
                             /\ ops'[s][1] \in SendOp /\ Len(ops'[s]) >= 1
       /\ s + 1 \notin Stage => \A j \in 1 .. Len(ops'[s]) : ops'[s][j] \notin SendOp
  <2>1. t \in Tensor
    BY <1>7, <1>9 DEF Tensor
  <2>2. PICK to : to = s + 1
    OBVIOUS
  <2>3. to \in Stage => <<s, to>> \in Link
    BY <2>2, LinkFacts
  <2>4. Left(s, Then(s, to, t)) /\ job' = job /\ UNCHANGED schedule
    BY <1>1, <1>8, <1>9, <2>2
  <2>5. /\ \A d, x : Has(ops'[s], d, x) <=> Has(ops[s], d, x) /\ ~(d = "forward" /\ x = ops[s][1].stream)
        /\ to \in Stage => /\ ops'[s][1] = [do |-> "send", to |-> to, tensor |-> t]
                            /\ ops'[s][1] \in SendOp /\ Len(ops'[s]) >= 1
        /\ to \notin Stage => \A j \in 1 .. Len(ops'[s]) : ops'[s][j] \notin SendOp
    BY <1>1, <2>1, <2>3, <2>4, PassStep
  <2>6. QED
    BY <1>2, <2>2, <2>5
<1>11. /\ \A d, x : Pending(s, d, x)' <=> Pending(s, d, x) /\ ~(d = "forward" /\ x = "regular")
       /\ fwd' = fwd /\ bwd' = bwd
  <2>1. \A d, x : Pending(s, d, x)' <=> Has(ops'[s], d, x)
    BY DEF Pending, Has
  <2>2. QED
    BY <1>1, <1>10, <2>1 DEF Pending, schedule
<1>12. FwdNext(s)' = Succ(m) /\ BwdNext(s)' = BwdNext(s)
  <2>1. FwdNext(s)' = Wrap(fwd[s]["regular"])
    BY <1>11 DEF FwdNext, Wrap
  <2>2. Wrap(fwd[s]["regular"]) = Succ(m)
    BY <1>2, <1>3 DEF Wrap, Succ
  <2>3. BwdNext(s)' = BwdNext(s)
    BY <1>11 DEF BwdNext, Wrap
  <2>4. QED
    BY <2>1, <2>2, <2>3
<1>13. /\ s + 1 \in Stage => Sending(s, "activation")' /\ ~Sending(s, "gradient")'
                             /\ ops'[s][1].tensor.of = m /\ ops'[s][1].to = s + 1
       /\ s + 1 \notin Stage => \A d : ~Sending(s, d)'
  <2>1. CASE s + 1 \in Stage
    <3>1. Len(ops'[s]) > 0
      <4>1. ops'[s] \in Seq(Op)
        BY <1>1 DEF Typed
      <4>2. Len(ops'[s]) \in Nat
        BY <4>1, LenProperties
      <4>3. QED
        BY <1>10, <2>1, <4>2
    <3>2. QED
      BY <1>9, <1>10, <2>1, <3>1 DEF Sending
  <2>2. CASE s + 1 \notin Stage
    <3>1. ops'[s] \in Seq(Op)
      BY <1>1 DEF Typed
    <3>2. QED
      BY <1>10, <2>2, <3>1, NoSend DEF Sending
  <2>3. QED
    BY <2>1, <2>2
<1>14. QED
  BY <1>5, <1>6, <1>7, <1>8, <1>11, <1>12, <1>13

LEMMA ChainedForward ==
  ASSUME Base, Base', Chained, Unidirectional, NEW s \in Stage, Forward(s)
  PROVE  Chained'
<1> DEFINE m == FwdNext(s)
           q == stash[s]["regular"]
           in == chan[<<s - 1, s>>]
<1>1. /\ Executes(s, "forward") /\ Typed /\ Typed' /\ Sched(s) /\ LocalChain(s)
      /\ Taken(Upstream(s, ops[s][1].stream), s)
      /\ UNCHANGED <<job, budget, done, schedule, last>>
      /\ \E i : Forwarded(s, ops[s][1].stream, i)
  BY ForwardFacts DEF Base, Chained, Unidirectional
<1>2. /\ ops[s][1].stream = "regular" /\ Pending(s, "forward", "regular")
      /\ ops[s][1].of = m /\ m = fwd[s]["regular"] - 1
      /\ \A d : ~Sending(s, d)
  BY <1>1, HeadIsNext
<1>3. /\ Upstream(s, "regular") = s - 1 /\ Downstream(s, "regular") = s + 1 /\ s \in Int
      /\ fwd[s]["regular"] \in Nat /\ bwd[s]["regular"] \in Nat /\ NumMicroBatches \in Nat
      /\ "regular" \in Stream
  BY <1>1, UnidirectionalFacts
<1>5. /\ s - 1 \in Stage => in # <<>> /\ chan'[<<s - 1, s>>] = Tail(in)
      /\ \A l \in Link : l # <<s - 1, s>> => chan'[l] = chan[l]
  BY ForwardMoves
<1>6. s - 1 \in Stage => TensorChain(Tail(in), "activation", Succ(m), ActNext(s - 1))
  BY ForwardMoves
<1>7. m \in MicroBatch
  BY ForwardMoves
<1>8. /\ stash'[s]["regular"] = Append(q, m)
      /\ \A u \in Stage : u # s => stash'[u]["regular"] = stash[u]["regular"]
      /\ \A u \in Stage : u # s => ops'[u] = ops[u]
  BY ForwardMoves
<1>11. /\ \A d, x : Pending(s, d, x)' <=> Pending(s, d, x) /\ ~(d = "forward" /\ x = "regular")
       /\ fwd' = fwd /\ bwd' = bwd
  BY ForwardMoves
<1>12. FwdNext(s)' = Succ(m) /\ BwdNext(s)' = BwdNext(s)
  BY ForwardMoves
<1>13. /\ s + 1 \in Stage => Sending(s, "activation")' /\ ~Sending(s, "gradient")'
                             /\ ops'[s][1].tensor.of = m /\ ops'[s][1].to = s + 1
       /\ s + 1 \notin Stage => \A d : ~Sending(s, d)'
  BY ForwardMoves
<1> HIDE DEF m, q, in
<1>14. LocalChain(s)'
  <2>1. Chain(stash'[s]["regular"], BwdNext(s)', FwdNext(s)')
    <3>1. Chain(q, BwdNext(s), m) /\ q \in Seq(MicroBatch) /\ m \in MicroBatch
      BY <1>1, <1>3, <1>7, IndexTypes DEF LocalChain, q, m
    <3>2. Chain(Append(q, m), BwdNext(s), Succ(m))
      BY <3>1, ChainAppend
    <3>3. QED
      BY <1>8, <1>12, <3>2
  <2>2. Chain(stash[s]["regular"], BwdNext(s), FwdNext(s))'
    BY <2>1 DEF Chain, Succ
  <2>3. Len(stash'[s]["regular"]) = (fwd'[s]["regular"] - Bit(Pending(s, "forward", "regular"))')
                                    - (bwd'[s]["regular"] - Bit(Pending(s, "backward", "regular"))')
    <3>1. Len(q) = (fwd[s]["regular"] - 1) - (bwd[s]["regular"] - Bit(Pending(s, "backward", "regular")))
      BY <1>1, <1>2 DEF LocalChain, Bit, q
    <3>2. Len(Append(q, m)) = Len(q) + 1 /\ Len(q) \in Nat
      <4>1. q \in Seq(MicroBatch) /\ m \in MicroBatch
        BY <1>1, <1>3, <1>7, IndexTypes DEF q
      <4>2. QED
        BY <4>1, AppendFacts
    <3>3. Bit(Pending(s, "forward", "regular"))' = 0
      BY <1>11 DEF Bit
    <3>4. Bit(Pending(s, "backward", "regular"))' = Bit(Pending(s, "backward", "regular"))
      BY <1>11 DEF Bit
    <3>5. Bit(Pending(s, "backward", "regular")) \in Int
      BY DEF Bit
    <3>6. Len(q) + 1 = (fwd[s]["regular"] - 0) - (bwd[s]["regular"] - Bit(Pending(s, "backward", "regular")))
      <4>1. \A l, f, b, c \in Int : l = (f - 1) - (b - c) => l + 1 = (f - 0) - (b - c)
        OBVIOUS
      <4>2. Len(q) \in Int /\ fwd[s]["regular"] \in Int /\ bwd[s]["regular"] \in Int
        BY <1>3, <3>2
      <4>3. QED
        BY <3>1, <3>5, <4>1, <4>2
    <3>7. QED
      BY <1>8, <1>11, <3>2, <3>3, <3>4, <3>6
  <2>4. /\ Sending(s, "activation")' => ops'[s][1].to = s + 1 /\ Succ(ops'[s][1].tensor.of) = FwdNext(s)'
        /\ ~Sending(s, "gradient")'
    BY <1>12, <1>13
  <2>5. /\ last'[s].activation = last'[s].of
        /\ last'[s].gradient = [of |-> last'[s].of, dir |-> "gradient"]
    BY <1>1 DEF LocalChain
  <2>6. QED
    BY <2>2, <2>3, <2>4, <2>5 DEF LocalChain, Succ
<1>15. ActNext(s) = m /\ (s + 1 \in Stage => ActNext(s)' = m)
  BY <1>2, <1>13 DEF ActNext, m
<1>16. GradNext(s)' = GradNext(s)
  BY <1>2, <1>12, <1>13 DEF GradNext
<1>17. \A u \in Stage : u # s => Same(u)
  BY <1>1, <1>8 DEF Same, schedule
<1>18. \A u \in Stage : u # s => /\ FwdNext(u)' = FwdNext(u) /\ BwdNext(u)' = BwdNext(u)
                                 /\ ActNext(u)' = ActNext(u) /\ GradNext(u)' = GradNext(u)
  BY <1>17, PointersFrame
<1>19. ActLink(s) /\ GradLink(s) /\ (s + 1 \in Stage => GradLink(s + 1))
  BY DEF Chained
<1>20. ActLink(s)'
  <2>1. ASSUME s + 1 \in Stage PROVE chan'[<<s, s + 1>>] = chan[<<s, s + 1>>]
    <3>1. <<s, s + 1>> \in Link /\ <<s, s + 1>> # <<s - 1, s>>
      BY <2>1, LinkFacts
    <3>2. QED
      BY <1>5, <3>1
  <2>2. s + 1 # s
    BY <1>3
  <2>3. QED
    BY <1>15, <1>18, <1>19, <2>1, <2>2, ActLinkFrame
<1>21. GradLink(s)'
  <2>1. ASSUME s - 1 \in Stage PROVE chan'[<<s, s - 1>>] = chan[<<s, s - 1>>]
    <3>1. <<s, s - 1>> \in Link /\ <<s, s - 1>> # <<s - 1, s>>
      BY <2>1, LinkFacts
    <3>2. QED
      BY <1>5, <3>1
  <2>2. s - 1 # s
    BY <1>3
  <2>3. QED
    BY <1>16, <1>18, <1>19, <2>1, <2>2, GradLinkFrame
<1>22. ASSUME s - 1 \in Stage PROVE ActLink(s - 1)'
  <2>1. (s - 1) + 1 = s /\ s - 1 # s
    BY <1>3
  <2>2. TensorChain(chan'[<<s - 1, s>>], "activation", FwdNext(s)', ActNext(s - 1)')
    BY <1>5, <1>6, <1>12, <1>18, <1>22, <2>1
  <2>3. QED
    BY <2>1, <2>2 DEF ActLink, TensorChain, Succ
<1>23. ASSUME s + 1 \in Stage PROVE GradLink(s + 1)'
  <2>1. (s + 1) - 1 = s /\ s + 1 # s
    BY <1>3
  <2>2. chan'[<<s + 1, s>>] = chan[<<s + 1, s>>]
    <3>1. <<s + 1, s>> \in Link /\ <<s + 1, s>> # <<s - 1, s>>
      BY <1>23, LinkFacts
    <3>2. QED
      BY <1>5, <3>1
  <2>3. QED
    BY <1>12, <1>18, <1>19, <1>23, <2>1, <2>2, GradLinkFrame
<1>24. /\ \A u \in Stage : u # s => stash'[u]["regular"] = stash[u]["regular"] /\ last'[u] = last[u]
       /\ \A l \in Link : l[1] # s /\ l[2] # s => chan'[l] = chan[l]
  <2>1. \A l \in Link : l[1] # s /\ l[2] # s => l # <<s - 1, s>>
    OBVIOUS
  <2>2. QED
    BY <1>1, <1>5, <1>8, <2>1
<1>25. QED
  BY <1>1, <1>14, <1>17, <1>20, <1>21, <1>22, <1>23, <1>24, ChainedMove

(* What a backward pass moves: there is an activation, of the micro-batch of *)
(* the gradient and of the pass.                                           *)
LEMMA BackwardMoves ==
  ASSUME Base, Base', Chained, Unidirectional, NEW s \in Stage, Backward(s)
  PROVE  /\ BwdNext(s)' = Succ(BwdNext(s)) /\ FwdNext(s)' = FwdNext(s)
         /\ s + 1 \in Stage =>
              /\ chan[<<s + 1, s>>] # <<>> /\ chan'[<<s + 1, s>>] = Tail(chan[<<s + 1, s>>])
              /\ TensorChain(Tail(chan[<<s + 1, s>>]), "gradient", Succ(BwdNext(s)), GradNext(s + 1))
         /\ \A l \in Link : l # <<s + 1, s>> => chan'[l] = chan[l]
         /\ stash[s]["regular"] \in Seq(MicroBatch) /\ stash[s]["regular"] # <<>>
         /\ Len(stash[s]["regular"]) = (fwd[s]["regular"] - 0) - (bwd[s]["regular"] - 1)
         /\ Chain(Tail(stash[s]["regular"]), Succ(BwdNext(s)), FwdNext(s))
         /\ stash'[s]["regular"] = Tail(stash[s]["regular"])
         /\ \A u \in Stage : u # s => stash'[u]["regular"] = stash[u]["regular"]
         /\ \A u \in Stage : u # s => ops'[u] = ops[u]
         /\ last'[s].activation = last'[s].of
         /\ last'[s].gradient = [of |-> last'[s].of, dir |-> "gradient"]
         /\ \A u \in Stage : u # s => last'[u] = last[u]
         /\ \A d, x : Pending(s, d, x)' <=> Pending(s, d, x) /\ ~(d = "backward" /\ x = "regular")
         /\ fwd' = fwd /\ bwd' = bwd
         /\ s - 1 \in Stage => /\ Sending(s, "gradient")' /\ ~Sending(s, "activation")'
                               /\ ops'[s][1].tensor.of = BwdNext(s) /\ ops'[s][1].to = s - 1
         /\ s - 1 \notin Stage => \A d : ~Sending(s, d)'
<1> DEFINE m == BwdNext(s)
           q == stash[s]["regular"]
           in == chan[<<s + 1, s>>]
<1>1. /\ Executes(s, "backward") /\ Typed /\ Typed' /\ Sched(s) /\ LocalChain(s)
      /\ Taken(Downstream(s, ops[s][1].stream), s)
      /\ UNCHANGED <<job, budget, done, schedule>>
      /\ stash[s][ops[s][1].stream] = <<>> \/ \E g : Reversed(s, ops[s][1].stream, g)
  BY BackwardFacts DEF Base, Chained, Unidirectional
<1>2. /\ ops[s][1].stream = "regular" /\ Pending(s, "backward", "regular")
      /\ ops[s][1].of = m /\ m = bwd[s]["regular"] - 1
      /\ \A d : ~Sending(s, d)
  BY <1>1, HeadIsNext
<1>3. /\ Upstream(s, "regular") = s - 1 /\ Downstream(s, "regular") = s + 1 /\ s \in Int
      /\ fwd[s]["regular"] \in Nat /\ bwd[s]["regular"] \in Nat /\ NumMicroBatches \in Nat
      /\ "regular" \in Stream /\ bwd[s]["regular"] <= fwd[s]["regular"]
  BY <1>1, UnidirectionalFacts
<1>4. /\ q \in Seq(MicroBatch) /\ Len(q) \in Nat
      /\ Len(q) = (fwd[s]["regular"] - 0) - (bwd[s]["regular"] - 1)
      /\ q # <<>>
  <2>1. q \in Seq(MicroBatch) /\ Len(q) \in Nat
    BY <1>1, <1>3, IndexTypes
  <2>2. ~Pending(s, "forward", "regular")
    BY <1>1, <1>3, HeadFirst
  <2>3. Len(q) = (fwd[s]["regular"] - 0) - (bwd[s]["regular"] - 1)
    BY <1>1, <1>2, <2>2 DEF LocalChain, Bit
  <2>4. Len(q) # 0
    BY <1>3, <2>3
  <2>5. QED
    BY <2>1, <2>3, <2>4
<1>5. PICK g : Reversed(s, "regular", g)
  BY <1>1, <1>2, <1>4
<1>6. /\ s + 1 \in Stage => in # <<>> /\ chan'[<<s + 1, s>>] = Tail(in)
      /\ \A l \in Link : l # <<s + 1, s>> => chan'[l] = chan[l]
  BY <1>1, <1>2, <1>3 DEF Taken
<1>7. s + 1 \in Stage => /\ in[1].of = m /\ in[1].dir = "gradient"
                         /\ TensorChain(Tail(in), "gradient", Succ(m), GradNext(s + 1))
  <2> SUFFICES ASSUME s + 1 \in Stage
               PROVE  /\ in[1].of = m /\ in[1].dir = "gradient"
                      /\ TensorChain(Tail(in), "gradient", Succ(m), GradNext(s + 1))
    OBVIOUS
  <2>1. GradLink(s + 1) /\ (s + 1) - 1 = s
    BY <1>3 DEF Chained
  <2>2. TensorChain(in, "gradient", m, GradNext(s + 1))
    BY <2>1 DEF GradLink
  <2>3. in \in Seq(Tensor) /\ in # <<>>
    <3>1. <<s + 1, s>> \in Link
      BY LinkFacts
    <3>2. QED
      BY <1>1, <1>6, <3>1, IndexTypes
  <2> HIDE DEF in, m
  <2>4. QED
    BY <2>2, <2>3, TensorChainTail
<1>8. q[1] = m /\ Chain(Tail(q), Succ(m), FwdNext(s)) /\ m \in MicroBatch
  <2>1. Chain(q, m, FwdNext(s))
    BY <1>1 DEF LocalChain
  <2>2. m \in MicroBatch
    BY <1>1, <1>2, PassFacts
  <2> HIDE DEF q, m
  <2>3. QED
    BY <1>4, <2>1, <2>2, ChainTail
<1>9. g \in Tensor /\ g.of = m /\ g.dir = "gradient" /\ g = [of |-> m, dir |-> "gradient"]
  <2>1. g \in Tensor /\ g.of = m /\ g.dir = "gradient"
    BY <1>3, <1>5, <1>7, <1>8 DEF Reversed
  <2>2. QED
    BY <2>1 DEF Tensor
<1>10. /\ stash'[s]["regular"] = Tail(q)
       /\ \A u \in Stage : u # s => stash'[u]["regular"] = stash[u]["regular"]
       /\ Left(s, Then(s, s - 1, [of |-> m, dir |-> "gradient"]))
       /\ \A u \in Stage : u # s => ops'[u] = ops[u]
       /\ last'[s] = [of |-> m, activation |-> m, gradient |-> g]
       /\ \A u \in Stage : u # s => last'[u] = last[u]
  BY <1>2, <1>3, <1>5, <1>8, <1>9 DEF Reversed, Stored, Left
<1>11. PICK t : t = [of |-> m, dir |-> "gradient"]
  OBVIOUS
<1>12. /\ \A d, x : Has(ops'[s], d, x) <=> Has(ops[s], d, x) /\ ~(d = "backward" /\ x = "regular")
       /\ s - 1 \in Stage => /\ ops'[s][1] = [do |-> "send", to |-> s - 1, tensor |-> t]
                             /\ ops'[s][1] \in SendOp /\ Len(ops'[s]) >= 1
       /\ s - 1 \notin Stage => \A j \in 1 .. Len(ops'[s]) : ops'[s][j] \notin SendOp
  <2>1. t \in Tensor
    BY <1>8, <1>11 DEF Tensor
  <2>2. PICK to : to = s - 1
    OBVIOUS
  <2>3. to \in Stage => <<s, to>> \in Link
    BY <2>2, LinkFacts
  <2>4. Left(s, Then(s, to, t)) /\ job' = job /\ UNCHANGED schedule
    BY <1>1, <1>10, <1>11, <2>2
  <2>5. /\ \A d, x : Has(ops'[s], d, x) <=> Has(ops[s], d, x) /\ ~(d = "backward" /\ x = ops[s][1].stream)
        /\ to \in Stage => /\ ops'[s][1] = [do |-> "send", to |-> to, tensor |-> t]
                           /\ ops'[s][1] \in SendOp /\ Len(ops'[s]) >= 1
        /\ to \notin Stage => \A j \in 1 .. Len(ops'[s]) : ops'[s][j] \notin SendOp
    BY <1>1, <2>1, <2>3, <2>4, PassStep
  <2>6. QED
    BY <1>2, <2>2, <2>5
<1>13. /\ \A d, x : Pending(s, d, x)' <=> Pending(s, d, x) /\ ~(d = "backward" /\ x = "regular")
       /\ fwd' = fwd /\ bwd' = bwd
  <2>1. \A d, x : Pending(s, d, x)' <=> Has(ops'[s], d, x)
    BY DEF Pending, Has
  <2>2. QED
    BY <1>1, <1>12, <2>1 DEF Pending, schedule
<1>14. BwdNext(s)' = Succ(m) /\ FwdNext(s)' = FwdNext(s)
  <2>1. BwdNext(s)' = Wrap(bwd[s]["regular"])
    BY <1>13 DEF BwdNext, Wrap
  <2>2. Wrap(bwd[s]["regular"]) = Succ(m)
    BY <1>2, <1>3 DEF Wrap, Succ
  <2>3. FwdNext(s)' = FwdNext(s)
    BY <1>13 DEF FwdNext, Wrap
  <2>4. QED
    BY <2>1, <2>2, <2>3
<1>15. /\ s - 1 \in Stage => Sending(s, "gradient")' /\ ~Sending(s, "activation")'
                             /\ ops'[s][1].tensor.of = m /\ ops'[s][1].to = s - 1
       /\ s - 1 \notin Stage => \A d : ~Sending(s, d)'
  <2>1. CASE s - 1 \in Stage
    <3>1. Len(ops'[s]) > 0
      <4>1. ops'[s] \in Seq(Op)
        BY <1>1 DEF Typed
      <4>2. Len(ops'[s]) \in Nat
        BY <4>1, LenProperties
      <4>3. QED
        BY <1>12, <2>1, <4>2
    <3>2. QED
      BY <1>11, <1>12, <2>1, <3>1 DEF Sending
  <2>2. CASE s - 1 \notin Stage
    <3>1. ops'[s] \in Seq(Op)
      BY <1>1 DEF Typed
    <3>2. QED
      BY <1>12, <2>2, <3>1, NoSend DEF Sending
  <2>3. QED
    BY <2>1, <2>2
<1>16. last'[s].activation = last'[s].of /\ last'[s].gradient = [of |-> last'[s].of, dir |-> "gradient"]
  BY <1>9, <1>10
<1>17. QED
  BY <1>4, <1>6, <1>7, <1>8, <1>10, <1>13, <1>14, <1>15, <1>16

LEMMA ChainedBackward ==
  ASSUME Base, Base', Chained, Unidirectional, NEW s \in Stage, Backward(s)
  PROVE  Chained'
<1> DEFINE m == BwdNext(s)
           q == stash[s]["regular"]
           in == chan[<<s + 1, s>>]
<1>1. /\ Executes(s, "backward") /\ Typed /\ Typed' /\ Sched(s) /\ LocalChain(s)
      /\ Taken(Downstream(s, ops[s][1].stream), s)
      /\ UNCHANGED <<job, budget, done, schedule>>
      /\ stash[s][ops[s][1].stream] = <<>> \/ \E g : Reversed(s, ops[s][1].stream, g)
  BY BackwardFacts DEF Base, Chained, Unidirectional
<1>2. /\ ops[s][1].stream = "regular" /\ Pending(s, "backward", "regular")
      /\ ops[s][1].of = m /\ m = bwd[s]["regular"] - 1
      /\ \A d : ~Sending(s, d)
  BY <1>1, HeadIsNext
<1>3. /\ Upstream(s, "regular") = s - 1 /\ Downstream(s, "regular") = s + 1 /\ s \in Int
      /\ fwd[s]["regular"] \in Nat /\ bwd[s]["regular"] \in Nat /\ NumMicroBatches \in Nat
      /\ "regular" \in Stream /\ bwd[s]["regular"] <= fwd[s]["regular"]
  BY <1>1, UnidirectionalFacts
<1>4. /\ q \in Seq(MicroBatch) /\ q # <<>>
      /\ Len(q) = (fwd[s]["regular"] - 0) - (bwd[s]["regular"] - 1)
  BY BackwardMoves
<1>6. /\ s + 1 \in Stage => in # <<>> /\ chan'[<<s + 1, s>>] = Tail(in)
      /\ \A l \in Link : l # <<s + 1, s>> => chan'[l] = chan[l]
  BY BackwardMoves
<1>7. s + 1 \in Stage => TensorChain(Tail(in), "gradient", Succ(m), GradNext(s + 1))
  BY BackwardMoves
<1>8. Chain(Tail(q), Succ(m), FwdNext(s))
  BY BackwardMoves
<1>9. last'[s].activation = last'[s].of /\ last'[s].gradient = [of |-> last'[s].of, dir |-> "gradient"]
  BY BackwardMoves
<1>10. /\ stash'[s]["regular"] = Tail(q)
       /\ \A u \in Stage : u # s => stash'[u]["regular"] = stash[u]["regular"]
       /\ \A u \in Stage : u # s => ops'[u] = ops[u]
       /\ \A u \in Stage : u # s => last'[u] = last[u]
  BY BackwardMoves
<1>13. /\ \A d, x : Pending(s, d, x)' <=> Pending(s, d, x) /\ ~(d = "backward" /\ x = "regular")
       /\ fwd' = fwd /\ bwd' = bwd
  BY BackwardMoves
<1>14. BwdNext(s)' = Succ(m) /\ FwdNext(s)' = FwdNext(s)
  BY BackwardMoves
<1>15. /\ s - 1 \in Stage => Sending(s, "gradient")' /\ ~Sending(s, "activation")'
                             /\ ops'[s][1].tensor.of = m /\ ops'[s][1].to = s - 1
       /\ s - 1 \notin Stage => \A d : ~Sending(s, d)'
  BY BackwardMoves
<1> HIDE DEF m, q, in
<1>16. LocalChain(s)'
  <2>1. Chain(stash'[s]["regular"], BwdNext(s)', FwdNext(s)')
    BY <1>8, <1>10, <1>14
  <2>2. Chain(stash[s]["regular"], BwdNext(s), FwdNext(s))'
    BY <2>1 DEF Chain, Succ
  <2>3. Len(stash'[s]["regular"]) = (fwd'[s]["regular"] - Bit(Pending(s, "forward", "regular"))')
                                    - (bwd'[s]["regular"] - Bit(Pending(s, "backward", "regular"))')
    <3>1. Len(Tail(q)) = Len(q) - 1 /\ Len(q) \in Nat
      BY <1>4, TailFacts, LenProperties
    <3>2. ~Pending(s, "forward", "regular")
      BY <1>1, <1>3, HeadFirst
    <3>3. Bit(Pending(s, "forward", "regular"))' = 0 /\ Bit(Pending(s, "backward", "regular"))' = 0
      BY <1>13, <3>2 DEF Bit
    <3>4. Len(q) - 1 = (fwd[s]["regular"] - 0) - (bwd[s]["regular"] - 0)
      BY <1>3, <1>4
    <3>5. QED
      BY <1>10, <1>13, <3>1, <3>3, <3>4
  <2>4. /\ Sending(s, "gradient")' => ops'[s][1].to = s - 1 /\ Succ(ops'[s][1].tensor.of) = BwdNext(s)'
        /\ ~Sending(s, "activation")'
    BY <1>14, <1>15
  <2>5. /\ last'[s].activation = last'[s].of
        /\ last'[s].gradient = [of |-> last'[s].of, dir |-> "gradient"]
    BY <1>9, <1>10
  <2>6. QED
    BY <2>2, <2>3, <2>4, <2>5 DEF LocalChain, Succ
<1>17. GradNext(s) = m /\ (s - 1 \in Stage => GradNext(s)' = m)
  BY <1>2, <1>15 DEF GradNext, m
<1>18. ActNext(s)' = ActNext(s)
  BY <1>2, <1>14, <1>15 DEF ActNext
<1>19. \A u \in Stage : u # s => Same(u)
  BY <1>1, <1>10 DEF Same, schedule
<1>20. \A u \in Stage : u # s => /\ FwdNext(u)' = FwdNext(u) /\ BwdNext(u)' = BwdNext(u)
                                 /\ ActNext(u)' = ActNext(u) /\ GradNext(u)' = GradNext(u)
  BY <1>19, PointersFrame
<1>21. ActLink(s) /\ GradLink(s) /\ (s - 1 \in Stage => ActLink(s - 1))
  BY DEF Chained
<1>22. s + 1 # s /\ s - 1 # s /\ (s + 1) - 1 = s /\ (s - 1) + 1 = s
  BY <1>3
<1>23. ActLink(s)'
  <2>1. ASSUME s + 1 \in Stage PROVE chan'[<<s, s + 1>>] = chan[<<s, s + 1>>]
    BY <1>6, <2>1, LinkFacts
  <2>2. QED
    BY <1>18, <1>20, <1>21, <1>22, <2>1, ActLinkFrame
<1>24. GradLink(s)'
  <2>1. ASSUME s - 1 \in Stage PROVE chan'[<<s, s - 1>>] = chan[<<s, s - 1>>]
    BY <1>6, <2>1, LinkFacts
  <2>2. QED
    BY <1>17, <1>20, <1>21, <1>22, <2>1, GradLinkFrame
<1>25. ASSUME s - 1 \in Stage PROVE ActLink(s - 1)'
  <2>1. chan'[<<s - 1, s>>] = chan[<<s - 1, s>>]
    BY <1>6, <1>25, LinkFacts
  <2>2. QED
    BY <1>14, <1>20, <1>21, <1>22, <1>25, <2>1, ActLinkFrame
<1>26. ASSUME s + 1 \in Stage PROVE GradLink(s + 1)'
  <2>1. TensorChain(chan'[<<s + 1, s>>], "gradient", BwdNext(s)', GradNext(s + 1)')
    BY <1>6, <1>7, <1>14, <1>20, <1>22, <1>26
  <2>2. QED
    BY <1>22, <2>1 DEF GradLink, TensorChain, Succ
<1>27. /\ \A u \in Stage : u # s => stash'[u]["regular"] = stash[u]["regular"] /\ last'[u] = last[u]
       /\ \A l \in Link : l[1] # s /\ l[2] # s => chan'[l] = chan[l]
  <2>1. \A l \in Link : l[1] # s /\ l[2] # s => l # <<s + 1, s>>
    OBVIOUS
  <2>2. QED
    BY <1>6, <1>10, <2>1
<1>28. QED
  BY <1>1, <1>16, <1>19, <1>23, <1>24, <1>25, <1>26, <1>27, ChainedMove

(* What a send moves. *)
LEMMA SendMoves ==
  ASSUME Base, Base', Chained, Unidirectional, NEW s \in Stage, Send(s)
  PROVE  /\ ops[s][1].tensor \in Tensor /\ ops[s][1].to \in Stage /\ <<s, ops[s][1].to>> \in Link
         /\ chan[<<s, ops[s][1].to>>] \in Seq(Tensor)
         /\ chan'[<<s, ops[s][1].to>>] = Append(chan[<<s, ops[s][1].to>>], ops[s][1].tensor)
         /\ \A l \in Link : l # <<s, ops[s][1].to>> => chan'[l] = chan[l]
         /\ \A u \in Stage : u # s => ops'[u] = ops[u]
         /\ UNCHANGED <<job, budget, done, schedule, stash, last, failed>>
         /\ \A d, x : Pending(s, d, x)' <=> Pending(s, d, x)
         /\ fwd' = fwd /\ bwd' = bwd /\ stash' = stash /\ last' = last
         /\ \A d : ~Sending(s, d)'
         /\ \A d : Sending(s, d) <=> ops[s][1].tensor.dir = d
         /\ ops[s][1].tensor.dir \in {"activation", "gradient"}
         /\ ops[s][1].tensor.dir = "activation" => ops[s][1].to = s + 1
         /\ ops[s][1].tensor.dir = "gradient" => ops[s][1].to = s - 1
<1> DEFINE p == ops[s][1]
           e == p.tensor
           to == p.to
<1>1. /\ Sent(s, p) /\ ops[s] # <<>> /\ Typed /\ Typed' /\ LocalChain(s)
      /\ UNCHANGED <<job, budget, done, schedule, stash, last, failed>>
      /\ \A d, x : Has(ops'[s], d, x) <=> Has(ops[s], d, x)
      /\ \A i \in 1 .. Len(ops'[s]) : ops'[s][i] \notin SendOp
  BY SendFacts, SendBase DEF Base, Chained
<1>2. /\ p \in SendOp /\ e \in Tensor /\ to \in Stage /\ <<s, to>> \in Link
      /\ chan'[<<s, to>>] = Append(chan[<<s, to>>], e)
      /\ \A l \in Link : l # <<s, to>> => chan'[l] = chan[l]
      /\ \A u \in Stage : u # s => ops'[u] = ops[u]
  BY <1>1, OpFacts DEF Sent, Left
<1>3. Len(ops[s]) > 0 /\ s \in Int
  <2>1. ops[s] \in Seq(Op)
    BY <1>1, IndexTypes
  <2>2. QED
    BY <1>1, <2>1, TailFacts, StageTypes
<1>4. chan[<<s, to>>] \in Seq(Tensor) /\ e.dir \in {"activation", "gradient"}
  BY <1>1, <1>2, IndexTypes DEF Tensor
<1>5. /\ \A d, x : Pending(s, d, x)' <=> Pending(s, d, x)
      /\ fwd' = fwd /\ bwd' = bwd /\ stash' = stash /\ last' = last
      /\ \A d : ~Sending(s, d)'
  <2>1. \A d, x : Pending(s, d, x)' <=> Has(ops'[s], d, x)
    BY DEF Pending, Has
  <2>2. ops'[s] \in Seq(Op)
    BY <1>1 DEF Typed
  <2>3. \A d : ~Sending(s, d)'
    BY <1>1, <2>2, NoSend DEF Sending
  <2>4. QED
    BY <1>1, <2>1, <2>3 DEF Pending, schedule
<1>6. \A d : Sending(s, d) <=> e.dir = d
  BY <1>2, <1>3 DEF Sending
<1>7. /\ e.dir = "activation" => to = s + 1
      /\ e.dir = "gradient" => to = s - 1
  BY <1>1, <1>6 DEF LocalChain
<1>8. QED
  BY <1>1, <1>2, <1>4, <1>5, <1>6, <1>7

LEMMA ChainedSend ==
  ASSUME Base, Base', Chained, Unidirectional, NEW s \in Stage, Send(s)
  PROVE  Chained'
<1> DEFINE p == ops[s][1]
           e == p.tensor
           to == p.to
<1>1. /\ LocalChain(s) /\ s \in Int
      /\ UNCHANGED <<job, budget, done, schedule, stash, last, failed>>
  BY SendMoves, StageTypes DEF Chained
<1>2. /\ e \in Tensor /\ to \in Stage /\ <<s, to>> \in Link
      /\ chan'[<<s, to>>] = Append(chan[<<s, to>>], e)
      /\ \A l \in Link : l # <<s, to>> => chan'[l] = chan[l]
      /\ \A u \in Stage : u # s => ops'[u] = ops[u]
  BY SendMoves
<1>4. chan[<<s, to>>] \in Seq(Tensor) /\ e.dir \in {"activation", "gradient"}
  BY SendMoves
<1>5. /\ \A d, x : Pending(s, d, x)' <=> Pending(s, d, x)
      /\ fwd' = fwd /\ bwd' = bwd /\ stash' = stash /\ last' = last
      /\ \A d : ~Sending(s, d)'
  BY SendMoves
<1>6. FwdNext(s)' = FwdNext(s) /\ BwdNext(s)' = BwdNext(s)
  BY <1>5 DEF FwdNext, BwdNext, Wrap
<1>7. ActNext(s)' = FwdNext(s) /\ GradNext(s)' = BwdNext(s)
  BY <1>5, <1>6 DEF ActNext, GradNext
<1>8. \A d : Sending(s, d) <=> e.dir = d
  BY SendMoves
<1>9. \A u \in Stage : u # s => Same(u)
  BY <1>1, <1>2 DEF Same, schedule
<1>10. \A u \in Stage : u # s => /\ FwdNext(u)' = FwdNext(u) /\ BwdNext(u)' = BwdNext(u)
                                 /\ ActNext(u)' = ActNext(u) /\ GradNext(u)' = GradNext(u)
  BY <1>9, PointersFrame
<1>11. /\ ActLink(s) /\ GradLink(s)
       /\ s - 1 \in Stage => ActLink(s - 1)
       /\ s + 1 \in Stage => GradLink(s + 1)
  BY DEF Chained
<1>12. s + 1 # s /\ s - 1 # s /\ (s + 1) - 1 = s /\ (s - 1) + 1 = s
  BY <1>1
<1>13. /\ e.dir = "activation" => to = s + 1 /\ Succ(e.of) = FwdNext(s) /\ ActNext(s) = e.of /\ GradNext(s) = BwdNext(s)
       /\ e.dir = "gradient" => to = s - 1 /\ Succ(e.of) = BwdNext(s) /\ GradNext(s) = e.of /\ ActNext(s) = FwdNext(s)
  BY <1>1, <1>8 DEF LocalChain, ActNext, GradNext
<1>14. LocalChain(s)'
  <2>1. Chain(stash'[s]["regular"], BwdNext(s)', FwdNext(s)')
    BY <1>1, <1>5, <1>6 DEF LocalChain
  <2>2. Chain(stash[s]["regular"], BwdNext(s), FwdNext(s))'
    BY <2>1 DEF Chain, Succ
  <2>3. /\ Bit(Pending(s, "forward", "regular"))' = Bit(Pending(s, "forward", "regular"))
        /\ Bit(Pending(s, "backward", "regular"))' = Bit(Pending(s, "backward", "regular"))
    BY <1>5 DEF Bit
  <2>4. Len(stash'[s]["regular"]) = (fwd'[s]["regular"] - Bit(Pending(s, "forward", "regular"))')
                                    - (bwd'[s]["regular"] - Bit(Pending(s, "backward", "regular"))')
    BY <1>1, <1>5, <2>3 DEF LocalChain
  <2>5. /\ last'[s].activation = last'[s].of
        /\ last'[s].gradient = [of |-> last'[s].of, dir |-> "gradient"]
    BY <1>1, <1>5 DEF LocalChain
  <2>6. QED
    BY <1>5, <2>2, <2>4, <2>5 DEF LocalChain
<1> HIDE DEF p, e, to
<1>15. ActLink(s)'
  <2>1. CASE e.dir = "activation"
    <3>1. to = s + 1 /\ s + 1 \in Stage
      BY <1>2, <1>13, <2>1
    <3>2. TensorChain(chan[<<s, to>>], "activation", FwdNext(s + 1), e.of)
      BY <1>11, <1>13, <2>1, <3>1 DEF ActLink
    <3>3. TensorChain(Append(chan[<<s, to>>], e), "activation", FwdNext(s + 1), Succ(e.of))
      BY <1>2, <1>4, <2>1, <3>2, TensorChainAppend
    <3>4. TensorChain(chan'[<<s, s + 1>>], "activation", FwdNext(s + 1)', ActNext(s)')
      BY <1>2, <1>7, <1>10, <1>12, <1>13, <2>1, <3>1, <3>3
    <3>5. QED
      BY <3>4 DEF ActLink, TensorChain, Succ
  <2>2. CASE e.dir = "gradient"
    <3>1. ASSUME s + 1 \in Stage PROVE chan'[<<s, s + 1>>] = chan[<<s, s + 1>>]
      <4>1. to = s - 1
        BY <1>13, <2>2
      <4>2. QED
        BY <1>2, <3>1, <4>1, LinkFacts
    <3>2. QED
      BY <1>7, <1>10, <1>11, <1>12, <1>13, <2>2, <3>1, ActLinkFrame
  <2>3. QED
    BY <1>4, <2>1, <2>2
<1>16. GradLink(s)'
  <2>1. CASE e.dir = "gradient"
    <3>1. to = s - 1 /\ s - 1 \in Stage
      BY <1>2, <1>13, <2>1
    <3>2. TensorChain(chan[<<s, to>>], "gradient", BwdNext(s - 1), e.of)
      BY <1>11, <1>13, <2>1, <3>1 DEF GradLink
    <3>3. TensorChain(Append(chan[<<s, to>>], e), "gradient", BwdNext(s - 1), Succ(e.of))
      BY <1>2, <1>4, <2>1, <3>2, TensorChainAppend
    <3>4. TensorChain(chan'[<<s, s - 1>>], "gradient", BwdNext(s - 1)', GradNext(s)')
      BY <1>2, <1>7, <1>10, <1>12, <1>13, <2>1, <3>1, <3>3
    <3>5. QED
      BY <3>4 DEF GradLink, TensorChain, Succ
  <2>2. CASE e.dir = "activation"
    <3>1. ASSUME s - 1 \in Stage PROVE chan'[<<s, s - 1>>] = chan[<<s, s - 1>>]
      <4>1. to = s + 1
        BY <1>13, <2>2
      <4>2. QED
        BY <1>2, <3>1, <4>1, LinkFacts
    <3>2. QED
      BY <1>7, <1>10, <1>11, <1>12, <1>13, <2>2, <3>1, GradLinkFrame
  <2>3. QED
    BY <1>4, <2>1, <2>2
<1>17. ASSUME s - 1 \in Stage PROVE ActLink(s - 1)'
  <2>1. chan'[<<s - 1, s>>] = chan[<<s - 1, s>>]
    <3>1. <<s - 1, s>> # <<s, to>> /\ <<s - 1, s>> \in Link
      BY <1>12, <1>17, LinkFacts
    <3>2. QED
      BY <1>2, <3>1
  <2>2. QED
    BY <1>6, <1>10, <1>11, <1>12, <1>17, <2>1, ActLinkFrame
<1>18. ASSUME s + 1 \in Stage PROVE GradLink(s + 1)'
  <2>1. chan'[<<s + 1, s>>] = chan[<<s + 1, s>>]
    <3>1. <<s + 1, s>> # <<s, to>> /\ <<s + 1, s>> \in Link
      BY <1>12, <1>18, LinkFacts
    <3>2. QED
      BY <1>2, <3>1
  <2>2. QED
    BY <1>6, <1>10, <1>11, <1>12, <1>18, <2>1, GradLinkFrame
<1>19. /\ \A u \in Stage : u # s => stash'[u]["regular"] = stash[u]["regular"] /\ last'[u] = last[u]
       /\ \A l \in Link : l[1] # s /\ l[2] # s => chan'[l] = chan[l]
  <2>1. \A l \in Link : l[1] # s /\ l[2] # s => l # <<s, to>>
    OBVIOUS
  <2>2. QED
    BY <1>2, <1>5, <2>1
<1>20. job' = job
  BY <1>1
<1>21. QED
  BY <1>9, <1>14, <1>15, <1>16, <1>17, <1>18, <1>19, <1>20, ChainedMove

LEMMA ChainedInductive == Base /\ Base' /\ Chained /\ [Next]_vars => Chained'
<1> SUFFICES ASSUME Base, Base', Chained, [Next]_vars, Unidirectional' PROVE Chained'
  BY DEF Chained
<1>1. CASE Next
  <2>1. PICK s \in Stage : StageNext(s)
    BY <1>1 DEF Next
  <2>2. job' = job
    BY <2>1 DEF StageNext, NextAction, EndIteration, Discard, Forward, Backward, Send
  <2>3. Unidirectional /\ Typed'
    BY <2>2 DEF Unidirectional, Base
  <2>4. ~Discard(s)
    BY <2>3 DEF Discard, Unidirectional
  <2>5. QED
    BY <2>1, <2>3, <2>4, ChainedNextAction, ChainedEndIteration, ChainedForward, ChainedBackward, ChainedSend
       DEF StageNext
<1>2. CASE UNCHANGED vars
  <2>1. Unidirectional /\ chan' = chan /\ stash' = stash /\ last' = last
    BY <1>2 DEF vars, Unidirectional
  <2>2. \A u \in Stage : Same(u)
    BY <1>2 DEF vars, Same
  <2>3. \A u \in Stage : LocalChain(u) /\ ActLink(u) /\ GradLink(u)
    BY <2>1 DEF Chained
  <2>4. \A u \in Stage : LocalChain(u)' /\ ActLink(u)' /\ GradLink(u)'
    <3>1. \A u \in Stage : /\ FwdNext(u)' = FwdNext(u) /\ BwdNext(u)' = BwdNext(u)
                           /\ ActNext(u)' = ActNext(u) /\ GradNext(u)' = GradNext(u)
      BY <2>2, PointersFrame
    <3> TAKE u \in Stage
    <3>2. LocalChain(u)'
      BY <2>1, <2>2, <2>3, LocalChainFrame
    <3>3. ActLink(u)' /\ GradLink(u)'
      BY <2>1, <2>3, <3>1, ActLinkFrame, GradLinkFrame
    <3>4. QED
      BY <3>2, <3>3
  <2>5. QED
    BY <2>4 DEF Chained
<1>3. QED
  BY <1>1, <1>2

LEMMA InitChained == Init => Chained
<1> SUFFICES ASSUME Init PROVE Chained
  OBVIOUS
<1>1. NumMicroBatches \in Nat /\ NumMicroBatches >= 1
  BY SchedulesAssumption
<1>2. ASSUME NEW s \in Stage PROVE /\ FwdNext(s) = 0 /\ BwdNext(s) = 0 /\ ActNext(s) = 0 /\ GradNext(s) = 0
                                   /\ \A d : ~Sending(s, d)
                                   /\ \A d, x : ~Pending(s, d, x)
                                   /\ fwd[s]["regular"] = 0 /\ bwd[s]["regular"] = 0
  <2>1. ops[s] = <<>> /\ fwd[s]["regular"] = 0 /\ bwd[s]["regular"] = 0
    BY DEF Init, Fresh, Stream
  <2>2. (\A d, x : ~Pending(s, d, x)) /\ \A d : ~Sending(s, d)
    BY <2>1, NothingLeft DEF Sending
  <2>3. FwdNext(s) = 0 /\ BwdNext(s) = 0
    BY <2>1, <2>2 DEF FwdNext, BwdNext, Wrap
  <2>4. QED
    BY <2>1, <2>2, <2>3 DEF ActNext, GradNext
<1>3. ASSUME NEW s \in Stage PROVE LocalChain(s)
  <2>1. stash[s]["regular"] = <<>> /\ last[s] = NoPass
    BY DEF Init, Stream
  <2>2. Chain(stash[s]["regular"], BwdNext(s), FwdNext(s))
    BY <1>2, <2>1 DEF Chain
  <2>3. Len(stash[s]["regular"]) = (0 - 0) - (0 - 0)
    BY <2>1
  <2>4. last[s].activation = last[s].of /\ last[s].gradient = [of |-> last[s].of, dir |-> "gradient"]
    BY <2>1 DEF NoPass
  <2>5. QED
    BY <1>2, <2>2, <2>3, <2>4 DEF LocalChain, Bit
<1>4. ASSUME NEW s \in Stage PROVE ActLink(s)
  <2>1. ASSUME s + 1 \in Stage PROVE chan[<<s, s + 1>>] = <<>>
    BY <2>1, LinkFacts DEF Init
  <2>2. QED
    BY <1>2, <2>1 DEF ActLink, TensorChain
<1>5. ASSUME NEW s \in Stage PROVE GradLink(s)
  <2>1. ASSUME s - 1 \in Stage PROVE chan[<<s, s - 1>>] = <<>>
    BY <2>1, LinkFacts DEF Init
  <2>2. QED
    BY <1>2, <2>1 DEF GradLink, TensorChain
<1>6. QED
  BY <1>3, <1>4, <1>5 DEF Chained

LEMMA AloneInductive == Base /\ Alone /\ [Next]_vars => Alone'
<1> SUFFICES ASSUME Base, Alone, [Next]_vars, job' = "DualPipeSchedule", NEW u \in Stage PROVE last'[u] = NoPass
  BY DEF Alone, NoPass
<1>1. CASE Next
  <2>1. PICK s \in Stage : StageNext(s)
    BY <1>1 DEF Next
  <2>2. job = "DualPipeSchedule"
    BY <2>1 DEF StageNext, NextAction, EndIteration, Discard, Forward, Backward, Send
  <2>3. last' = last
    BY <2>1, <2>2 DEF StageNext, NextAction, EndIteration, Discard, Forward, Backward, Send, Executes
  <2>4. QED
    BY <2>2, <2>3 DEF Alone
<1>2. CASE UNCHANGED vars
  BY <1>2 DEF Alone, vars
<1>3. QED
  BY <1>1, <1>2

(* The inductive invariant: where every stage is in its schedule, and how     *)
(* the tensors and activations of each kind of job continue one another.     *)
THEOREM Invariance == Spec => []IInv
<1>1. Init => IInv
  BY InitBase, InitChained, InitStuck DEF IInv, Alone, Init
<1>2. IInv /\ [Next]_vars => IInv'
  BY BaseInductive, ChainedInductive, StuckInductive, AloneInductive DEF IInv
<1>3. QED
  BY <1>1, <1>2, PTL DEF Spec

(* Whatever the schedule and however far the stages are apart, the backward   *)
(* pass of a micro-batch pops the activation of that micro-batch and receives *)
(* its gradient, although neither the stash nor the links carry its id.      *)
THEOREM PassesMatch == Spec => []MatchedPasses
<1>1. IInv => MatchedPasses
  <2> SUFFICES ASSUME IInv, NEW s \in Stage
               PROVE  /\ last[s].activation = last[s].of
                      /\ last[s].gradient = [of |-> last[s].of, dir |-> "gradient"]
    BY DEF MatchedPasses
  <2>1. job \in {"OneFOneB", "GPipe", "DualPipe", "DualPipeSchedule"}
    BY Constants DEF IInv, Base
  <2>2. CASE Unidirectional
    BY <2>2 DEF IInv, Chained, LocalChain
  <2>3. CASE ~Unidirectional
    <3>1. last[s] = NoPass
      BY <2>1, <2>3 DEF IInv, Unidirectional, Stuck, LocalStuck, Alone
    <3>2. QED
      BY <3>1 DEF NoPass
  <2>4. QED
    BY <2>2, <2>3
<1>2. QED
  BY <1>1, Invariance, PTL
-----------------------------------------------------------------------------
(* Counting passes: under OneFOneB and GPipe, what a stage has passed on is   *)
(* what its neighbour has passed, and what is on the way between the two.    *)

PassedFwd(s) == done[s] * NumMicroBatches + (fwd[s]["regular"] - Bit(Pending(s, "forward", "regular")))
PassedBwd(s) == done[s] * NumMicroBatches + (bwd[s]["regular"] - Bit(Pending(s, "backward", "regular")))

OnLink(a, b, dir) == Len(chan[<<a, b>>]) + Bit(Sending(a, dir))

ActCount(s) ==
  \A t \in Stage : t = s + 1 => PassedFwd(s) = PassedFwd(t) + OnLink(s, t, "activation")
GradCount(s) ==
  \A t \in Stage : t = s - 1 => PassedBwd(s) = PassedBwd(t) + OnLink(s, t, "gradient")

Counted == Unidirectional => \A s \in Stage : ActCount(s) /\ GradCount(s)

LEMMA CountTypes ==
  ASSUME Typed, NEW u \in Stage
  PROVE  /\ done[u] * NumMicroBatches \in Nat
         /\ PassedFwd(u) \in Int /\ PassedBwd(u) \in Int
         /\ \A v, d : <<u, v>> \in Link => OnLink(u, v, d) \in Nat /\ Len(chan[<<u, v>>]) \in Nat
<1>1. done[u] \in Nat /\ NumMicroBatches \in Nat /\ \A l \in Link : Len(chan[l]) \in Nat
  BY IndexTypes, Constants
<1>2. done[u] * NumMicroBatches \in Nat
  BY <1>1
<1>3. fwd[u]["regular"] \in Nat /\ bwd[u]["regular"] \in Nat
  BY IndexTypes DEF Stream
<1>4. /\ Bit(Pending(u, "forward", "regular")) \in Nat /\ Bit(Pending(u, "backward", "regular")) \in Nat
      /\ \A d : Bit(Sending(u, d)) \in Nat
  BY DEF Bit
<1>5. PassedFwd(u) \in Int /\ PassedBwd(u) \in Int
  BY <1>2, <1>3, <1>4 DEF PassedFwd, PassedBwd
<1>6. QED
  BY <1>1, <1>2, <1>4, <1>5 DEF OnLink

LEMMA CountFrame ==
  ASSUME NEW u \in Stage, Same(u), done'[u] = done[u]
  PROVE  /\ PassedFwd(u)' = PassedFwd(u) /\ PassedBwd(u)' = PassedBwd(u)
         /\ \A v, d : chan'[<<u, v>>] = chan[<<u, v>>] => OnLink(u, v, d)' = OnLink(u, v, d)
         /\ \A d : Bit(Sending(u, d))' = Bit(Sending(u, d))
<1>1. /\ \A d, x : Pending(u, d, x)' <=> Pending(u, d, x)
      /\ \A d : Sending(u, d)' <=> Sending(u, d)
  BY PointersFrame
<1>2. /\ \A d, x : Bit(Pending(u, d, x))' = Bit(Pending(u, d, x))
      /\ \A d : Bit(Sending(u, d))' = Bit(Sending(u, d))
  BY <1>1 DEF Bit
<1>3. PassedFwd(u)' = PassedFwd(u) /\ PassedBwd(u)' = PassedBwd(u)
  BY <1>2 DEF PassedFwd, PassedBwd, Same
<1>4. QED
  BY <1>2, <1>3 DEF OnLink

LEMMA Adjacent ==
  ASSUME NEW u \in Stage, NEW w \in Stage, w = u + 1
  PROVE  u \in Int /\ w \in Int /\ u # w /\ u = w - 1 /\ <<u, w>> \in Link /\ <<w, u>> \in Link
<1>1. u \in Int /\ w \in Int
  BY StageTypes
<1>2. u # w /\ u = w - 1
  BY <1>1
<1>3. QED
  BY <1>1, <1>2, StageTypes

(* A step of stage s that passes f micro-batches forward and b backward.     *)
LEMMA CountedStep ==
  ASSUME Typed, Counted, Unidirectional, NEW s \in Stage, NEW f \in Int, NEW b \in Int,
         \A u \in Stage : u # s => PassedFwd(u)' = PassedFwd(u) /\ PassedBwd(u)' = PassedBwd(u),
         PassedFwd(s)' = PassedFwd(s) + f, PassedBwd(s)' = PassedBwd(s) + b,
         s + 1 \in Stage => /\ OnLink(s, s + 1, "activation")' = OnLink(s, s + 1, "activation") + f
                            /\ OnLink(s + 1, s, "gradient")' = OnLink(s + 1, s, "gradient") - b,
         s - 1 \in Stage => /\ OnLink(s, s - 1, "gradient")' = OnLink(s, s - 1, "gradient") + b
                            /\ OnLink(s - 1, s, "activation")' = OnLink(s - 1, s, "activation") - f,
         \A u, v \in Stage, d \in {"activation", "gradient"} :
           u # s /\ v # s /\ <<u, v>> \in Link => OnLink(u, v, d)' = OnLink(u, v, d)
  PROVE  Counted'
<1>1. \A u \in Stage : ActCount(u) /\ GradCount(u)
  BY DEF Counted
<1>2. \A i, j, k, n \in Int : i = j + k => i + n = j + (k + n) /\ i = (j + n) + (k - n)
  OBVIOUS
<1>3. ASSUME NEW u \in Stage PROVE ActCount(u)'
  <2> SUFFICES ASSUME NEW w \in Stage, w = u + 1
               PROVE  PassedFwd(u)' = PassedFwd(w)' + OnLink(u, w, "activation")'
    BY DEF ActCount
  <2>1. u # w /\ <<u, w>> \in Link /\ u = w - 1
    BY Adjacent
  <2>2. /\ PassedFwd(u) = PassedFwd(w) + OnLink(u, w, "activation")
        /\ PassedFwd(u) \in Int /\ PassedFwd(w) \in Int /\ OnLink(u, w, "activation") \in Int
    BY <1>1, <2>1, CountTypes DEF ActCount
  <2>3. CASE u = s
    <3>1. /\ PassedFwd(u)' = PassedFwd(u) + f /\ PassedFwd(w)' = PassedFwd(w)
          /\ OnLink(u, w, "activation")' = OnLink(u, w, "activation") + f
      BY <2>1, <2>3
    <3>2. QED
      BY <1>2, <2>2, <3>1
  <2>4. CASE w = s
    <3>1. /\ PassedFwd(u)' = PassedFwd(u) /\ PassedFwd(w)' = PassedFwd(w) + f
          /\ OnLink(u, w, "activation")' = OnLink(u, w, "activation") - f
      BY <2>1, <2>4
    <3>2. QED
      BY <1>2, <2>2, <3>1
  <2>5. CASE u # s /\ w # s
    <3>1. /\ PassedFwd(u)' = PassedFwd(u) /\ PassedFwd(w)' = PassedFwd(w)
          /\ OnLink(u, w, "activation")' = OnLink(u, w, "activation")
      BY <2>1, <2>5
    <3>2. QED
      BY <2>2, <3>1
  <2>6. QED
    BY <2>3, <2>4, <2>5
<1>4. ASSUME NEW u \in Stage PROVE GradCount(u)'
  <2> SUFFICES ASSUME NEW w \in Stage, w = u - 1
               PROVE  PassedBwd(u)' = PassedBwd(w)' + OnLink(u, w, "gradient")'
    BY DEF GradCount
  <2>1. u # w /\ <<u, w>> \in Link /\ u = w + 1
    <3>1. u = w + 1
      BY StageTypes
    <3>2. QED
      BY <3>1, Adjacent
  <2>2. /\ PassedBwd(u) = PassedBwd(w) + OnLink(u, w, "gradient")
        /\ PassedBwd(u) \in Int /\ PassedBwd(w) \in Int /\ OnLink(u, w, "gradient") \in Int
    BY <1>1, <2>1, CountTypes DEF GradCount
  <2>3. CASE u = s
    <3>1. /\ PassedBwd(u)' = PassedBwd(u) + b /\ PassedBwd(w)' = PassedBwd(w)
          /\ OnLink(u, w, "gradient")' = OnLink(u, w, "gradient") + b
      BY <2>1, <2>3
    <3>2. QED
      BY <1>2, <2>2, <3>1
  <2>4. CASE w = s
    <3>1. /\ PassedBwd(u)' = PassedBwd(u) /\ PassedBwd(w)' = PassedBwd(w) + b
          /\ OnLink(u, w, "gradient")' = OnLink(u, w, "gradient") - b
      BY <2>1, <2>4
    <3>2. QED
      BY <1>2, <2>2, <3>1
  <2>5. CASE u # s /\ w # s
    <3>1. /\ PassedBwd(u)' = PassedBwd(u) /\ PassedBwd(w)' = PassedBwd(w)
          /\ OnLink(u, w, "gradient")' = OnLink(u, w, "gradient")
      BY <2>1, <2>5
    <3>2. QED
      BY <2>2, <3>1
  <2>6. QED
    BY <2>3, <2>4, <2>5
<1>5. QED
  BY <1>3, <1>4 DEF Counted
(* A step that executes nothing. *)
LEMMA CountedQuiet ==
  ASSUME Typed, Counted, Unidirectional, NEW s \in Stage, chan' = chan,
         \A u \in Stage : u # s => Same(u) /\ done'[u] = done[u],
         PassedFwd(s)' = PassedFwd(s), PassedBwd(s)' = PassedBwd(s),
         \A d : ~Sending(s, d) /\ ~Sending(s, d)'
  PROVE  Counted'
<1>1. \A u \in Stage : \A d : Bit(Sending(u, d))' = Bit(Sending(u, d))
  <2> TAKE u \in Stage
  <2>1. CASE u = s
    BY <2>1 DEF Bit
  <2>2. CASE u # s
    BY <2>2, CountFrame
  <2>3. QED
    BY <2>1, <2>2
<1>2. \A u \in Stage : \A v, d : OnLink(u, v, d)' = OnLink(u, v, d)
  BY <1>1 DEF OnLink
<1>3. \A u \in Stage : PassedFwd(u)' = PassedFwd(u) /\ PassedBwd(u)' = PassedBwd(u)
  BY CountFrame
<1>4. ASSUME NEW u \in Stage PROVE ActCount(u)' /\ GradCount(u)'
  BY <1>2, <1>3 DEF Counted, ActCount, GradCount
<1>5. QED
  BY <1>4 DEF Counted

LEMMA CountedNextAction ==
  ASSUME Base, Base', Chained, Counted, Unidirectional, NEW s \in Stage, NextAction(s)
  PROVE  /\ Counted'
         /\ \A u \in Stage : PassedFwd(u)' = PassedFwd(u) /\ PassedBwd(u)' = PassedBwd(u)
         /\ job' = job /\ done' = done
<1>1. Typed /\ Typed'
  BY DEF Base
<1>2. /\ job' = job /\ chan' = chan /\ done' = done
      /\ \A u \in Stage : u # s => Same(u)
      /\ \A d : ~Sending(s, d) /\ ~Sending(s, d)'
      /\ fwd'[s]["regular"] - Bit(Pending(s, "forward", "regular"))'
           = fwd[s]["regular"] - Bit(Pending(s, "forward", "regular"))
      /\ bwd'[s]["regular"] - Bit(Pending(s, "backward", "regular"))'
           = bwd[s]["regular"] - Bit(Pending(s, "backward", "regular"))
  BY <1>1, NextActionMoves
<1>3. PassedFwd(s)' = PassedFwd(s) /\ PassedBwd(s)' = PassedBwd(s)
  BY <1>2 DEF PassedFwd, PassedBwd
<1>4. Counted'
  BY <1>1, <1>2, <1>3, CountedQuiet
<1>5. \A u \in Stage : PassedFwd(u)' = PassedFwd(u) /\ PassedBwd(u)' = PassedBwd(u)
  BY <1>2, <1>3, CountFrame
<1>6. QED
  BY <1>2, <1>4, <1>5

(* The end of an iteration: its NumMicroBatches are counted under done.      *)
LEMMA CountedEndIteration ==
  ASSUME Base, Chained, Counted, Unidirectional, NEW s \in Stage, EndIteration(s)
  PROVE  /\ Counted'
         /\ \A u \in Stage : PassedFwd(u)' = PassedFwd(u) /\ PassedBwd(u)' = PassedBwd(u)
         /\ job' = job
         /\ PassedBwd(s) = done[s] * NumMicroBatches + NumMicroBatches
         /\ done'[s] * NumMicroBatches = done[s] * NumMicroBatches + NumMicroBatches
         /\ \A u \in Stage : u # s => done'[u] = done[u]
<1>1. Typed /\ done[s] \in Nat /\ NumMicroBatches \in Nat
  BY IndexTypes, Constants DEF Base
<1>2. /\ job' = job /\ chan' = chan
      /\ \A u \in Stage : u # s => Same(u)
      /\ \A d : ~Sending(s, d) /\ ~Sending(s, d)'
      /\ \A d, x : ~Pending(s, d, x) /\ ~Pending(s, d, x)'
      /\ fwd[s]["regular"] = NumMicroBatches /\ bwd[s]["regular"] = NumMicroBatches
      /\ fwd'[s]["regular"] = 0 /\ bwd'[s]["regular"] = 0
  BY EndIterationMoves
<1>3. done'[s] = done[s] + 1 /\ \A u \in Stage : u # s => done'[u] = done[u]
  BY <1>1 DEF EndIteration, Typed, TypeOK
<1>4. done'[s] * NumMicroBatches = done[s] * NumMicroBatches + NumMicroBatches
  <2>1. \A d, n \in Nat : (d + 1) * n = d * n + n
    OBVIOUS
  <2>2. QED
    BY <1>1, <1>3, <2>1
<1>5. /\ PassedFwd(s) = done[s] * NumMicroBatches + (NumMicroBatches - 0)
      /\ PassedBwd(s) = done[s] * NumMicroBatches + (NumMicroBatches - 0)
      /\ PassedFwd(s)' = done'[s] * NumMicroBatches + (0 - 0)
      /\ PassedBwd(s)' = done'[s] * NumMicroBatches + (0 - 0)
  BY <1>2 DEF PassedFwd, PassedBwd, Bit
<1>6. \A i, n \in Nat : i + (n - 0) = i + n /\ (i + n) + (0 - 0) = i + n
  OBVIOUS
<1>7. PassedFwd(s)' = PassedFwd(s) /\ PassedBwd(s)' = PassedBwd(s)
  BY <1>1, <1>4, <1>5, <1>6, CountTypes
<1>8. PassedBwd(s) = done[s] * NumMicroBatches + NumMicroBatches
  BY <1>1, <1>5, <1>6, CountTypes
<1>9. Counted'
  BY <1>1, <1>2, <1>3, <1>7, CountedQuiet
<1>10. \A u \in Stage : PassedFwd(u)' = PassedFwd(u) /\ PassedBwd(u)' = PassedBwd(u)
  BY <1>2, <1>3, <1>7, CountFrame
<1>11. QED
  BY <1>2, <1>3, <1>4, <1>8, <1>9, <1>10
(* A step of stage s leaves what is on a link between other stages, and what  *)
(* is on a link of its own that it does not touch, as it was.               *)
LEMMA OnLinkFrame ==
  ASSUME NEW s \in Stage, \A u \in Stage : u # s => Same(u) /\ done'[u] = done[u]
  PROVE  /\ \A u \in Stage : u # s => PassedFwd(u)' = PassedFwd(u) /\ PassedBwd(u)' = PassedBwd(u)
         /\ \A u \in Stage : \A v, d :
              u # s /\ chan'[<<u, v>>] = chan[<<u, v>>] => OnLink(u, v, d)' = OnLink(u, v, d)
         /\ \A u \in Stage : \A v, d :
              u # s => OnLink(u, v, d)' = Len(chan'[<<u, v>>]) + Bit(Sending(u, d))
<1>1. ASSUME NEW u \in Stage, u # s
      PROVE  /\ PassedFwd(u)' = PassedFwd(u) /\ PassedBwd(u)' = PassedBwd(u)
             /\ \A v, d : chan'[<<u, v>>] = chan[<<u, v>>] => OnLink(u, v, d)' = OnLink(u, v, d)
             /\ \A d : Bit(Sending(u, d))' = Bit(Sending(u, d))
  BY <1>1, CountFrame
<1>2. \A u \in Stage : \A v, d :
        u # s => OnLink(u, v, d)' = Len(chan'[<<u, v>>]) + Bit(Sending(u, d))
  BY <1>1 DEF OnLink
<1>3. QED
  BY <1>1, <1>2

LEMMA CountedForward ==
  ASSUME Base, Base', Chained, Counted, Unidirectional, NEW s \in Stage, Forward(s)
  PROVE  /\ Counted'
         /\ PassedFwd(s)' = PassedFwd(s) + 1 /\ PassedBwd(s)' = PassedBwd(s)
         /\ \A u \in Stage : u # s => PassedFwd(u)' = PassedFwd(u) /\ PassedBwd(u)' = PassedBwd(u)
         /\ job' = job /\ done' = done
<1>1. Executes(s, "forward") /\ UNCHANGED <<job, done, schedule>> /\ Typed
  BY ForwardFacts DEF Base
<1>2. Pending(s, "forward", "regular") /\ \A d : ~Sending(s, d)
  BY <1>1, HeadIsNext
<1>3. /\ s - 1 \in Stage => /\ chan[<<s - 1, s>>] # <<>>
                            /\ chan'[<<s - 1, s>>] = Tail(chan[<<s - 1, s>>])
      /\ \A l \in Link : l # <<s - 1, s>> => chan'[l] = chan[l]
      /\ \A d, x : Pending(s, d, x)' <=> Pending(s, d, x) /\ ~(d = "forward" /\ x = "regular")
      /\ fwd' = fwd /\ bwd' = bwd
      /\ s + 1 \in Stage => Sending(s, "activation")' /\ ~Sending(s, "gradient")'
      /\ s + 1 \notin Stage => \A d : ~Sending(s, d)'
      /\ \A u \in Stage : u # s => Same(u)
  BY <1>1, ForwardMoves DEF Same, schedule
<1>4. PassedFwd(s)' = PassedFwd(s) + 1 /\ PassedBwd(s)' = PassedBwd(s)
  <2>1. fwd[s]["regular"] \in Nat /\ done[s] * NumMicroBatches \in Nat
    BY <1>1, IndexTypes, CountTypes DEF Stream
  <2>2. PassedFwd(s) = done[s] * NumMicroBatches + (fwd[s]["regular"] - 1)
    BY <1>2 DEF PassedFwd, Bit
  <2>3. PassedFwd(s)' = done[s] * NumMicroBatches + (fwd[s]["regular"] - 0)
    BY <1>1, <1>3 DEF PassedFwd, Bit
  <2>4. \A i, k \in Nat : i + (k - 0) = (i + (k - 1)) + 1
    OBVIOUS
  <2>5. Bit(Pending(s, "backward", "regular"))' = Bit(Pending(s, "backward", "regular"))
    BY <1>3 DEF Bit
  <2>6. QED
    BY <1>1, <1>3, <2>1, <2>2, <2>3, <2>4, <2>5 DEF PassedBwd
<1>5. /\ \A u \in Stage : u # s => PassedFwd(u)' = PassedFwd(u) /\ PassedBwd(u)' = PassedBwd(u)
      /\ \A u \in Stage : \A v, d :
           u # s /\ chan'[<<u, v>>] = chan[<<u, v>>] => OnLink(u, v, d)' = OnLink(u, v, d)
      /\ \A u \in Stage : \A v, d :
           u # s => OnLink(u, v, d)' = Len(chan'[<<u, v>>]) + Bit(Sending(u, d))
  BY <1>1, <1>3, OnLinkFrame
<1>6. s + 1 \in Stage => /\ OnLink(s, s + 1, "activation")' = OnLink(s, s + 1, "activation") + 1
                         /\ OnLink(s + 1, s, "gradient")' = OnLink(s + 1, s, "gradient") - 0
  <2> SUFFICES ASSUME NEW w \in Stage, w = s + 1
               PROVE  /\ OnLink(s, w, "activation")' = OnLink(s, w, "activation") + 1
                      /\ OnLink(w, s, "gradient")' = OnLink(w, s, "gradient") - 0
    OBVIOUS
  <2>1. /\ w # s /\ <<s, w>> \in Link /\ <<w, s>> \in Link
        /\ <<s, w>> # <<s - 1, s>> /\ <<w, s>> # <<s - 1, s>>
    BY LinkFacts, Adjacent
  <2>2. chan'[<<s, w>>] = chan[<<s, w>>] /\ chan'[<<w, s>>] = chan[<<w, s>>]
    BY <1>3, <2>1
  <2>3. /\ OnLink(s, w, "activation") = Len(chan[<<s, w>>]) + 0
        /\ OnLink(s, w, "activation")' = Len(chan[<<s, w>>]) + 1
    BY <1>2, <1>3, <2>2 DEF OnLink, Bit
  <2>4. Len(chan[<<s, w>>]) \in Nat /\ OnLink(w, s, "gradient") \in Nat
    BY <1>1, <2>1, CountTypes
  <2>5. OnLink(w, s, "gradient")' = OnLink(w, s, "gradient")
    BY <1>5, <2>1, <2>2
  <2>6. QED
    BY <2>3, <2>4, <2>5
<1>7. s - 1 \in Stage => /\ OnLink(s, s - 1, "gradient")' = OnLink(s, s - 1, "gradient") + 0
                         /\ OnLink(s - 1, s, "activation")' = OnLink(s - 1, s, "activation") - 1
  <2> SUFFICES ASSUME NEW w \in Stage, w = s - 1
               PROVE  /\ OnLink(s, w, "gradient")' = OnLink(s, w, "gradient") + 0
                      /\ OnLink(w, s, "activation")' = OnLink(w, s, "activation") - 1
    OBVIOUS
  <2>1. /\ w # s /\ <<s, w>> \in Link /\ <<w, s>> \in Link /\ <<s, w>> # <<w, s>>
    <3>1. s = w + 1
      BY StageTypes
    <3>2. QED
      BY <3>1, Adjacent
  <2>2. /\ chan'[<<s, w>>] = chan[<<s, w>>]
        /\ chan[<<w, s>>] # <<>> /\ chan'[<<w, s>>] = Tail(chan[<<w, s>>])
    BY <1>3, <2>1
  <2>3. chan[<<w, s>>] \in Seq(Tensor) /\ OnLink(s, w, "gradient") \in Nat
    BY <1>1, <2>1, IndexTypes, CountTypes
  <2>4. Len(chan'[<<w, s>>]) = Len(chan[<<w, s>>]) - 1 /\ Len(chan[<<w, s>>]) \in Nat
    BY <2>2, <2>3, TailFacts
  <2>5. /\ OnLink(w, s, "activation")' = Len(chan'[<<w, s>>]) + Bit(Sending(w, "activation"))
        /\ OnLink(w, s, "activation") = Len(chan[<<w, s>>]) + Bit(Sending(w, "activation"))
        /\ Bit(Sending(w, "activation")) \in Nat
    BY <1>5, <2>1 DEF OnLink, Bit
  <2>6. OnLink(s, w, "gradient")' = OnLink(s, w, "gradient")
    <3>1. Bit(Sending(s, "gradient"))' = Bit(Sending(s, "gradient"))
      BY <1>2, <1>3 DEF Bit
    <3>2. QED
      BY <2>2, <3>1 DEF OnLink
  <2>7. QED
    BY <2>3, <2>4, <2>5, <2>6
<1>8. \A u, v \in Stage, d \in {"activation", "gradient"} :
        u # s /\ v # s /\ <<u, v>> \in Link => OnLink(u, v, d)' = OnLink(u, v, d)
  <2>1. \A u, v : v # s => <<u, v>> # <<s - 1, s>>
    OBVIOUS
  <2>2. QED
    BY <1>3, <1>5, <2>1
<1>9. PassedBwd(s)' = PassedBwd(s) + 0
  BY <1>1, <1>4, CountTypes
<1>10. Counted'
  BY <1>1, <1>4, <1>5, <1>6, <1>7, <1>8, <1>9, CountedStep
<1>11. QED
  BY <1>1, <1>4, <1>5, <1>10

LEMMA CountedBackward ==
  ASSUME Base, Base', Chained, Counted, Unidirectional, NEW s \in Stage, Backward(s)
  PROVE  /\ Counted'
         /\ PassedBwd(s)' = PassedBwd(s) + 1 /\ PassedFwd(s)' = PassedFwd(s)
         /\ \A u \in Stage : u # s => PassedFwd(u)' = PassedFwd(u) /\ PassedBwd(u)' = PassedBwd(u)
         /\ job' = job /\ done' = done
<1>1. Executes(s, "backward") /\ UNCHANGED <<job, done, schedule>> /\ Typed
  BY BackwardFacts DEF Base
<1>2. Pending(s, "backward", "regular") /\ \A d : ~Sending(s, d)
  BY <1>1, HeadIsNext
<1>3. /\ s + 1 \in Stage => /\ chan[<<s + 1, s>>] # <<>>
                            /\ chan'[<<s + 1, s>>] = Tail(chan[<<s + 1, s>>])
      /\ \A l \in Link : l # <<s + 1, s>> => chan'[l] = chan[l]
      /\ \A d, x : Pending(s, d, x)' <=> Pending(s, d, x) /\ ~(d = "backward" /\ x = "regular")
      /\ fwd' = fwd /\ bwd' = bwd
      /\ s - 1 \in Stage => Sending(s, "gradient")' /\ ~Sending(s, "activation")'
      /\ s - 1 \notin Stage => \A d : ~Sending(s, d)'
      /\ \A u \in Stage : u # s => Same(u)
  BY <1>1, BackwardMoves DEF Same, schedule
<1>4. PassedBwd(s)' = PassedBwd(s) + 1 /\ PassedFwd(s)' = PassedFwd(s)
  <2>1. bwd[s]["regular"] \in Nat /\ done[s] * NumMicroBatches \in Nat
    BY <1>1, IndexTypes, CountTypes DEF Stream
  <2>2. PassedBwd(s) = done[s] * NumMicroBatches + (bwd[s]["regular"] - 1)
    BY <1>2 DEF PassedBwd, Bit
  <2>3. PassedBwd(s)' = done[s] * NumMicroBatches + (bwd[s]["regular"] - 0)
    BY <1>1, <1>3 DEF PassedBwd, Bit
  <2>4. \A i, k \in Nat : i + (k - 0) = (i + (k - 1)) + 1
    OBVIOUS
  <2>5. Bit(Pending(s, "forward", "regular"))' = Bit(Pending(s, "forward", "regular"))
    BY <1>3 DEF Bit
  <2>6. QED
    BY <1>1, <1>3, <2>1, <2>2, <2>3, <2>4, <2>5 DEF PassedFwd
<1>5. /\ \A u \in Stage : u # s => PassedFwd(u)' = PassedFwd(u) /\ PassedBwd(u)' = PassedBwd(u)
      /\ \A u \in Stage : \A v, d :
           u # s /\ chan'[<<u, v>>] = chan[<<u, v>>] => OnLink(u, v, d)' = OnLink(u, v, d)
      /\ \A u \in Stage : \A v, d :
           u # s => OnLink(u, v, d)' = Len(chan'[<<u, v>>]) + Bit(Sending(u, d))
  BY <1>1, <1>3, OnLinkFrame
<1>6. s - 1 \in Stage => /\ OnLink(s, s - 1, "gradient")' = OnLink(s, s - 1, "gradient") + 1
                         /\ OnLink(s - 1, s, "activation")' = OnLink(s - 1, s, "activation") - 0
  <2> SUFFICES ASSUME NEW w \in Stage, w = s - 1
               PROVE  /\ OnLink(s, w, "gradient")' = OnLink(s, w, "gradient") + 1
                      /\ OnLink(w, s, "activation")' = OnLink(w, s, "activation") - 0
    OBVIOUS
  <2>1. /\ w # s /\ <<s, w>> \in Link /\ <<w, s>> \in Link
        /\ <<s, w>> # <<s + 1, s>> /\ <<w, s>> # <<s + 1, s>>
    <3>1. s = w + 1
      BY StageTypes
    <3>2. QED
      BY <3>1, LinkFacts, Adjacent
  <2>2. chan'[<<s, w>>] = chan[<<s, w>>] /\ chan'[<<w, s>>] = chan[<<w, s>>]
    BY <1>3, <2>1
  <2>3. /\ OnLink(s, w, "gradient") = Len(chan[<<s, w>>]) + 0
        /\ OnLink(s, w, "gradient")' = Len(chan[<<s, w>>]) + 1
    BY <1>2, <1>3, <2>2 DEF OnLink, Bit
  <2>4. Len(chan[<<s, w>>]) \in Nat /\ OnLink(w, s, "activation") \in Nat
    BY <1>1, <2>1, CountTypes
  <2>5. OnLink(w, s, "activation")' = OnLink(w, s, "activation")
    BY <1>5, <2>1, <2>2
  <2>6. QED
    BY <2>3, <2>4, <2>5
<1>7. s + 1 \in Stage => /\ OnLink(s, s + 1, "activation")' = OnLink(s, s + 1, "activation") + 0
                         /\ OnLink(s + 1, s, "gradient")' = OnLink(s + 1, s, "gradient") - 1
  <2> SUFFICES ASSUME NEW w \in Stage, w = s + 1
               PROVE  /\ OnLink(s, w, "activation")' = OnLink(s, w, "activation") + 0
                      /\ OnLink(w, s, "gradient")' = OnLink(w, s, "gradient") - 1
    OBVIOUS
  <2>1. /\ w # s /\ <<s, w>> \in Link /\ <<w, s>> \in Link /\ <<s, w>> # <<w, s>>
    BY Adjacent
  <2>2. /\ chan'[<<s, w>>] = chan[<<s, w>>]
        /\ chan[<<w, s>>] # <<>> /\ chan'[<<w, s>>] = Tail(chan[<<w, s>>])
    BY <1>3, <2>1
  <2>3. chan[<<w, s>>] \in Seq(Tensor) /\ OnLink(s, w, "activation") \in Nat
    BY <1>1, <2>1, IndexTypes, CountTypes
  <2>4. Len(chan'[<<w, s>>]) = Len(chan[<<w, s>>]) - 1 /\ Len(chan[<<w, s>>]) \in Nat
    BY <2>2, <2>3, TailFacts
  <2>5. /\ OnLink(w, s, "gradient")' = Len(chan'[<<w, s>>]) + Bit(Sending(w, "gradient"))
        /\ OnLink(w, s, "gradient") = Len(chan[<<w, s>>]) + Bit(Sending(w, "gradient"))
        /\ Bit(Sending(w, "gradient")) \in Nat
    BY <1>5, <2>1 DEF OnLink, Bit
  <2>6. OnLink(s, w, "activation")' = OnLink(s, w, "activation")
    <3>1. Bit(Sending(s, "activation"))' = Bit(Sending(s, "activation"))
      BY <1>2, <1>3 DEF Bit
    <3>2. QED
      BY <2>2, <3>1 DEF OnLink
  <2>7. QED
    BY <2>3, <2>4, <2>5, <2>6
<1>8. \A u, v \in Stage, d \in {"activation", "gradient"} :
        u # s /\ v # s /\ <<u, v>> \in Link => OnLink(u, v, d)' = OnLink(u, v, d)
  <2>1. \A u, v : v # s => <<u, v>> # <<s + 1, s>>
    OBVIOUS
  <2>2. QED
    BY <1>3, <1>5, <2>1
<1>9. PassedFwd(s)' = PassedFwd(s) + 0
  BY <1>1, <1>4, CountTypes
<1>10. Counted'
  BY <1>1, <1>4, <1>5, <1>6, <1>7, <1>8, <1>9, CountedStep
<1>11. QED
  BY <1>1, <1>4, <1>5, <1>10

(* What is sent was on its way before. *)
LEMMA CountedSend ==
  ASSUME Base, Base', Chained, Counted, Unidirectional, NEW s \in Stage, Send(s)
  PROVE  /\ Counted'
         /\ \A u \in Stage : PassedFwd(u)' = PassedFwd(u) /\ PassedBwd(u)' = PassedBwd(u)
         /\ job' = job /\ done' = done
<1> DEFINE e == ops[s][1].tensor
           to == ops[s][1].to
<1>1. /\ Typed /\ UNCHANGED <<job, done, schedule>> /\ fwd' = fwd /\ bwd' = bwd
      /\ e \in Tensor /\ to \in Stage /\ <<s, to>> \in Link
      /\ chan[<<s, to>>] \in Seq(Tensor) /\ chan'[<<s, to>>] = Append(chan[<<s, to>>], e)
      /\ \A l \in Link : l # <<s, to>> => chan'[l] = chan[l]
      /\ \A d, x : Pending(s, d, x)' <=> Pending(s, d, x)
      /\ \A d : ~Sending(s, d)'
      /\ \A d : Sending(s, d) <=> e.dir = d
      /\ e.dir = "activation" => to = s + 1
      /\ e.dir = "gradient" => to = s - 1
      /\ e.dir \in {"activation", "gradient"}
      /\ \A u \in Stage : u # s => Same(u)
  BY SendMoves DEF Same, schedule, Base
<1> HIDE DEF e, to
<1>2. PassedFwd(s)' = PassedFwd(s) /\ PassedBwd(s)' = PassedBwd(s)
  <2>1. \A d, x : Bit(Pending(s, d, x))' = Bit(Pending(s, d, x))
    BY <1>1 DEF Bit
  <2>2. QED
    BY <1>1, <2>1 DEF PassedFwd, PassedBwd
<1>3. /\ \A u \in Stage : u # s => PassedFwd(u)' = PassedFwd(u) /\ PassedBwd(u)' = PassedBwd(u)
      /\ \A u \in Stage : \A v, d :
           u # s /\ chan'[<<u, v>>] = chan[<<u, v>>] => OnLink(u, v, d)' = OnLink(u, v, d)
  BY <1>1, OnLinkFrame
<1>4. \A u, v \in Stage : \A d : u # s /\ <<u, v>> \in Link => OnLink(u, v, d)' = OnLink(u, v, d)
  <2>1. \A u, v : u # s => <<u, v>> # <<s, to>>
    OBVIOUS
  <2>2. QED
    BY <1>1, <1>3, <2>1
<1>5. ASSUME NEW w \in Stage, <<s, w>> \in Link, NEW d \in {"activation", "gradient"},
             d = "activation" => w = s + 1, d = "gradient" => w = s - 1
      PROVE  OnLink(s, w, d)' = OnLink(s, w, d)
  <2>1. OnLink(s, w, d)' = Len(chan'[<<s, w>>]) + 0
    BY <1>1 DEF OnLink, Bit
  <2>2. Len(chan[<<s, w>>]) \in Nat
    BY <1>1, <1>5, IndexTypes
  <2>3. CASE e.dir = d
    <3>1. w = to
      BY <1>1, <1>5, <2>3
    <3>2. Len(chan'[<<s, w>>]) = Len(chan[<<s, w>>]) + 1
      BY <1>1, <3>1, AppendFacts
    <3>3. OnLink(s, w, d) = Len(chan[<<s, w>>]) + 1
      BY <1>1, <2>3 DEF OnLink, Bit
    <3>4. QED
      BY <2>1, <2>2, <3>2, <3>3
  <2>4. CASE e.dir # d
    <3>1. w # to
      <4>1. s \in Int
        BY StageTypes
      <4>2. QED
        BY <1>1, <1>5, <2>4, <4>1
    <3>2. chan'[<<s, w>>] = chan[<<s, w>>]
      BY <1>1, <1>5, <3>1
    <3>3. OnLink(s, w, d) = Len(chan[<<s, w>>]) + 0
      BY <1>1, <2>4 DEF OnLink, Bit
    <3>4. QED
      BY <2>1, <3>2, <3>3
  <2>5. QED
    BY <2>3, <2>4
<1>6. \A u \in Stage : ActCount(u) /\ GradCount(u)
  BY DEF Counted
<1>7. ASSUME NEW u \in Stage PROVE ActCount(u)'
  <2> SUFFICES ASSUME NEW w \in Stage, w = u + 1
               PROVE  PassedFwd(u)' = PassedFwd(w)' + OnLink(u, w, "activation")'
    BY DEF ActCount
  <2>1. <<u, w>> \in Link
    BY Adjacent
  <2>2. OnLink(u, w, "activation")' = OnLink(u, w, "activation")
    BY <1>4, <1>5, <2>1
  <2>3. QED
    BY <1>2, <1>3, <1>6, <2>2 DEF ActCount
<1>8. ASSUME NEW u \in Stage PROVE GradCount(u)'
  <2> SUFFICES ASSUME NEW w \in Stage, w = u - 1
               PROVE  PassedBwd(u)' = PassedBwd(w)' + OnLink(u, w, "gradient")'
    BY DEF GradCount
  <2>1. <<u, w>> \in Link
    <3>1. u = w + 1
      BY StageTypes
    <3>2. QED
      BY <3>1, Adjacent
  <2>2. OnLink(u, w, "gradient")' = OnLink(u, w, "gradient")
    BY <1>4, <1>5, <2>1
  <2>3. QED
    BY <1>2, <1>3, <1>6, <2>2 DEF GradCount
<1>9. QED
  BY <1>1, <1>2, <1>3, <1>7, <1>8 DEF Counted
-----------------------------------------------------------------------------
(* Refinement *)

(* The passes that Executed counts as not yet executed are the pending ones. *)
Agree ==
  job = "OneFOneB" =>
    \A s \in Stage : /\ Executed(s, "forward", fwd) = PassedFwd(s)
                     /\ Executed(s, "backward", bwd) = PassedBwd(s)

LEMMA BaseAgree == Base => Agree
<1> SUFFICES ASSUME Base, job = "OneFOneB", NEW s \in Stage
             PROVE  /\ Executed(s, "forward", fwd) = PassedFwd(s)
                    /\ Executed(s, "backward", bwd) = PassedBwd(s)
  BY DEF Agree
<1>1. Typed /\ Sched(s) /\ Remaining(ops[s], s, fwd[s], bwd[s]) /\ Unidirectional
  BY DEF Base, Unidirectional
<1>2. Streams = {"regular"} /\ fwd[s]["regular"] \in Nat /\ bwd[s]["regular"] \in Nat
  BY <1>1, UnidirectionalFacts
<1>3. ops[s] \in Seq(Op) /\ \A i \in 1 .. Len(ops[s]) : ops[s][i] \in Op
  BY <1>1, IndexTypes
<1>4. DOMAIN ops[s] = 1 .. Len(ops[s])
  BY <1>3, LenProperties
<1>5. ASSUME NEW d \in {"forward", "backward"}
      PROVE  (\E i \in DOMAIN ops[s] : ops[s][i].do = d) <=> Pending(s, d, "regular")
  <2>1. \A i \in 1 .. Len(ops[s]) :
          ops[s][i].do = d => ops[s][i] \in PassOp /\ ops[s][i].stream = "regular"
    BY <1>1, <1>2, <1>3, OpFacts DEF Remaining
  <2>2. QED
    BY <1>4, <2>1 DEF Pending, Has
<1>6. Executed(s, "forward", fwd) = PassedFwd(s)
  <2>1. (\E i \in DOMAIN ops[s] : ops[s][i].do = "forward") <=> Pending(s, "forward", "regular")
    BY <1>5
  <2>2. CASE Pending(s, "forward", "regular")
    BY <2>1, <2>2 DEF Executed, PassedFwd, Bit
  <2>3. CASE ~Pending(s, "forward", "regular")
    BY <2>1, <2>3 DEF Executed, PassedFwd, Bit
  <2>4. QED
    BY <2>2, <2>3
<1>7. Executed(s, "backward", bwd) = PassedBwd(s)
  <2>1. (\E i \in DOMAIN ops[s] : ops[s][i].do = "backward") <=> Pending(s, "backward", "regular")
    BY <1>5
  <2>2. CASE Pending(s, "backward", "regular")
    BY <2>1, <2>2 DEF Executed, PassedBwd, Bit
  <2>3. CASE ~Pending(s, "backward", "regular")
    BY <2>1, <2>3 DEF Executed, PassedBwd, Bit
  <2>4. QED
    BY <2>2, <2>3
<1>8. QED
  BY <1>6, <1>7

(* A stage that executes a forward pass has its input, and room in its window. *)
LEMMA ForwardGuards ==
  ASSUME Base, Base', Chained, Counted, job = "OneFOneB", NEW s \in Stage, Forward(s)
  PROVE  /\ PassedFwd(s) < done[s] * NumMicroBatches + NumMicroBatches
         /\ s # 0 => s - 1 \in Stage /\ PassedFwd(s) < PassedFwd(s - 1)
         /\ PassedFwd(s) - PassedBwd(s) < Abs!Window(s)
<1>1. /\ Executes(s, "forward") /\ Unidirectional /\ Typed /\ Sched(s)
      /\ Remaining(ops[s], s, fwd[s], bwd[s])
  BY ForwardFacts DEF Base, Unidirectional
<1>2. Pending(s, "forward", "regular") /\ fwd[s]["regular"] - 1 \in MicroBatch
  BY <1>1, HeadIsNext, ForwardMoves
<1>3. /\ NumMicroBatches \in Nat /\ fwd[s]["regular"] \in Nat /\ bwd[s]["regular"] \in Nat
      /\ fwd[s]["regular"] <= NumMicroBatches /\ fwd[s]["regular"] - 1 >= 0
      /\ done[s] * NumMicroBatches \in Nat /\ s \in Nat /\ NumStages \in Nat /\ s < NumStages
  BY <1>1, <1>2, UnidirectionalFacts, CountTypes, StageTypes, Constants DEF MicroBatch
<1>4. PassedFwd(s) = done[s] * NumMicroBatches + (fwd[s]["regular"] - 1)
  BY <1>2 DEF PassedFwd, Bit
<1>5. PassedFwd(s) < done[s] * NumMicroBatches + NumMicroBatches
  <2>1. \A i, k, n \in Nat : k <= n => i + (k - 1) < i + n
    OBVIOUS
  <2>2. QED
    BY <1>3, <1>4, <2>1
<1>6. ASSUME s # 0 PROVE s - 1 \in Stage /\ PassedFwd(s) < PassedFwd(s - 1)
  <2>1. s - 1 \in Stage
    BY <1>3, <1>6, StageTypes
  <2>2. PICK w \in Stage : w = s - 1 /\ s = w + 1
    BY <1>3, <2>1
  <2>3. <<w, s>> \in Link
    BY <2>2, Adjacent
  <2>4. chan[<<w, s>>] # <<>> /\ chan[<<w, s>>] \in Seq(Tensor)
    BY <1>1, <2>2, <2>3, ForwardMoves, IndexTypes
  <2>5. Len(chan[<<w, s>>]) \in Nat /\ Len(chan[<<w, s>>]) >= 1
    BY <2>4, TailFacts
  <2>6. OnLink(w, s, "activation") \in Nat /\ OnLink(w, s, "activation") >= 1
    <3>1. Bit(Sending(w, "activation")) \in Nat
      BY DEF Bit
    <3>2. \A i, j \in Nat : i >= 1 => i + j \in Nat /\ i + j >= 1
      OBVIOUS
    <3>3. QED
      BY <2>5, <3>1, <3>2 DEF OnLink
  <2>7. PassedFwd(w) = PassedFwd(s) + OnLink(w, s, "activation") /\ PassedFwd(s) \in Int
    BY <1>1, <2>2, CountTypes DEF Counted, ActCount
  <2>8. QED
    BY <2>1, <2>2, <2>6, <2>7
<1>7. PassedFwd(s) - PassedBwd(s) < Abs!Window(s)
  <2> DEFINE k == fwd[s]["regular"]
             b == bwd[s]["regular"]
             e == Bit(Pending(s, "backward", "regular"))
  <2>1. k - b <= NumStages - s - 1
    BY <1>1 DEF Sched, NumWarmup
  <2>2. e \in {0, 1} /\ e <= b
    <3>1. ASSUME Pending(s, "backward", "regular") PROVE b >= 1
      <4>1. PICK i \in 1 .. Len(ops[s]) : /\ ops[s][i] \in PassOp
                                         /\ ops[s][i].do = "backward" /\ ops[s][i].stream = "regular"
        BY <3>1 DEF Pending, Has
      <4>2. ops[s][i].of = IndexOf(ops[s][i], fwd[s], bwd[s]) /\ ops[s][i].of \in MicroBatch
        BY <1>1, <4>1 DEF Remaining, PassOp
      <4>3. ops[s][i].of = bwd[s]["regular"] - 1
        BY <4>1, <4>2 DEF IndexOf, MicroBatchOf
      <4>4. QED
        BY <1>3, <4>2, <4>3 DEF MicroBatch
    <3>2. QED
      BY <1>3, <3>1 DEF Bit
  <2>3. PassedBwd(s) = done[s] * NumMicroBatches + (b - e)
    BY DEF PassedBwd
  <2>4. k \in Nat /\ b \in Nat /\ k <= NumMicroBatches
    BY <1>3
  <2> HIDE DEF k, b, e
  <2>5. PassedFwd(s) - PassedBwd(s) = (k - 1) - (b - e)
    <3>1. \A i, j, n \in Int : (i + j) - (i + n) = j - n
      OBVIOUS
    <3>2. PassedFwd(s) = done[s] * NumMicroBatches + (k - 1)
      BY <1>4 DEF k
    <3>3. k - 1 \in Int /\ b - e \in Int /\ done[s] * NumMicroBatches \in Int
      BY <1>3, <2>2, <2>4
    <3>4. QED
      BY <2>3, <3>1, <3>2, <3>3
  <2>6. (k - 1) - (b - e) < NumStages - s /\ (k - 1) - (b - e) < NumMicroBatches
    BY <1>3, <2>1, <2>2, <2>4
  <2>7. QED
    BY <2>5, <2>6 DEF Abs!Window
<1>8. QED
  BY <1>5, <1>6, <1>7

LEMMA BackwardGuards ==
  ASSUME Base, Base', Chained, Counted, Unidirectional, NEW s \in Stage, Backward(s)
  PROVE  /\ PassedBwd(s) < PassedFwd(s)
         /\ s # NumStages - 1 => s + 1 \in Stage /\ PassedBwd(s) < PassedBwd(s + 1)
<1>1. Typed /\ LocalChain(s) /\ s \in Nat /\ s < NumStages /\ NumStages \in Nat
  BY StageTypes, Constants DEF Base, Chained
<1>2. stash[s]["regular"] \in Seq(MicroBatch) /\ stash[s]["regular"] # <<>>
  BY BackwardMoves
<1>3. Len(stash[s]["regular"]) \in Nat /\ Len(stash[s]["regular"]) >= 1
  BY <1>2, TailFacts
<1>4. PassedBwd(s) < PassedFwd(s)
  <2> DEFINE n == Len(stash[s]["regular"])
             k == fwd[s]["regular"] - Bit(Pending(s, "forward", "regular"))
             b == bwd[s]["regular"] - Bit(Pending(s, "backward", "regular"))
             d == done[s] * NumMicroBatches
  <2>1. n = k - b
    BY <1>1 DEF LocalChain
  <2>2. PassedFwd(s) = d + k /\ PassedBwd(s) = d + b
    BY DEF PassedFwd, PassedBwd
  <2>3. k \in Int /\ b \in Int /\ d \in Int
    BY <1>1, IndexTypes, CountTypes DEF Stream, Bit
  <2>4. n \in Nat /\ n >= 1
    BY <1>3
  <2> HIDE DEF n, k, b, d
  <2>5. QED
    BY <2>1, <2>2, <2>3, <2>4
<1>5. ASSUME s # NumStages - 1 PROVE s + 1 \in Stage /\ PassedBwd(s) < PassedBwd(s + 1)
  <2>1. s + 1 \in Stage
    BY <1>1, <1>5, StageTypes
  <2>2. PICK w \in Stage : w = s + 1 /\ s = w - 1
    BY <1>1, <2>1
  <2>3. <<w, s>> \in Link
    BY <2>2, Adjacent
  <2>4. chan[<<w, s>>] # <<>> /\ chan[<<w, s>>] \in Seq(Tensor)
    BY <1>1, <2>2, <2>3, BackwardMoves, IndexTypes
  <2>5. Len(chan[<<w, s>>]) \in Nat /\ Len(chan[<<w, s>>]) >= 1
    BY <2>4, TailFacts
  <2>6. OnLink(w, s, "gradient") \in Nat /\ OnLink(w, s, "gradient") >= 1
    <3>1. Bit(Sending(w, "gradient")) \in Nat
      BY DEF Bit
    <3>2. \A i, j \in Nat : i >= 1 => i + j \in Nat /\ i + j >= 1
      OBVIOUS
    <3>3. QED
      BY <2>5, <3>1, <3>2 DEF OnLink
  <2>7. PassedBwd(w) = PassedBwd(s) + OnLink(w, s, "gradient") /\ PassedBwd(s) \in Int
    BY <1>1, <2>2, CountTypes DEF Counted, GradCount
  <2>8. QED
    BY <2>1, <2>2, <2>6, <2>7
<1>6. QED
  BY <1>4, <1>5
LEMMA InitCounted == Init => Counted
<1> SUFFICES ASSUME Init PROVE Counted
  OBVIOUS
<1>1. ASSUME NEW s \in Stage PROVE /\ PassedFwd(s) = 0 * NumMicroBatches /\ PassedBwd(s) = 0 * NumMicroBatches
                                   /\ \A d : Bit(Sending(s, d)) = 0
  <2>1. ops[s] = <<>> /\ fwd[s]["regular"] = 0 /\ bwd[s]["regular"] = 0 /\ done[s] = 0
    BY DEF Init, Fresh, Stream
  <2>2. (\A d, x : ~Pending(s, d, x)) /\ \A d : ~Sending(s, d)
    BY <2>1, NothingLeft DEF Sending
  <2>3. \A i \in Int : i + (0 - 0) = i
    OBVIOUS
  <2>4. 0 * NumMicroBatches \in Int
    BY SchedulesAssumption
  <2>5. QED
    BY <2>1, <2>2, <2>3, <2>4 DEF PassedFwd, PassedBwd, Bit
<1>2. ASSUME NEW u \in Stage, NEW w \in Stage, <<u, w>> \in Link, NEW d
      PROVE  OnLink(u, w, d) = 0
  <2>1. chan[<<u, w>>] = <<>>
    BY <1>2 DEF Init
  <2>2. QED
    BY <1>1, <2>1 DEF OnLink
<1>3. 0 * NumMicroBatches = 0 * NumMicroBatches + 0
  BY SchedulesAssumption
<1>4. ASSUME NEW s \in Stage PROVE ActCount(s)
  <2> SUFFICES ASSUME NEW t \in Stage, t = s + 1 PROVE PassedFwd(s) = PassedFwd(t) + OnLink(s, t, "activation")
    BY DEF ActCount
  <2>1. <<s, t>> \in Link
    BY Adjacent
  <2>2. QED
    BY <1>1, <1>2, <1>3, <2>1
<1>5. ASSUME NEW s \in Stage PROVE GradCount(s)
  <2> SUFFICES ASSUME NEW t \in Stage, t = s - 1 PROVE PassedBwd(s) = PassedBwd(t) + OnLink(s, t, "gradient")
    BY DEF GradCount
  <2>1. s = t + 1
    BY StageTypes
  <2>2. <<s, t>> \in Link
    BY <2>1, Adjacent
  <2>3. QED
    BY <1>1, <1>2, <1>3, <2>2
<1>6. QED
  BY <1>4, <1>5 DEF Counted

LEMMA CountedInductive == Base /\ Base' /\ Chained /\ Counted /\ [Next]_vars => Counted'
<1> SUFFICES ASSUME Base, Base', Chained, Counted, [Next]_vars, Unidirectional' PROVE Counted'
  BY DEF Counted
<1>1. CASE Next
  <2>1. PICK s \in Stage : StageNext(s)
    BY <1>1 DEF Next
  <2>2. job' = job
    BY <2>1 DEF StageNext, NextAction, EndIteration, Discard, Forward, Backward, Send
  <2>3. Unidirectional
    BY <2>2 DEF Unidirectional
  <2>4. ~Discard(s)
    BY <2>3 DEF Discard, Unidirectional
  <2>5. QED
    BY <2>1, <2>3, <2>4, CountedNextAction, CountedEndIteration, CountedForward, CountedBackward, CountedSend
       DEF StageNext
<1>2. CASE UNCHANGED vars
  <2>1. Unidirectional /\ chan' = chan /\ done' = done
    BY <1>2 DEF vars, Unidirectional
  <2>2. \A u \in Stage : Same(u)
    BY <1>2 DEF vars, Same
  <2>3. \A u \in Stage : PassedFwd(u)' = PassedFwd(u) /\ PassedBwd(u)' = PassedBwd(u)
    BY <2>1, <2>2, CountFrame
  <2>4. \A u \in Stage : \A v, d : OnLink(u, v, d)' = OnLink(u, v, d)
    BY <2>1, <2>2, CountFrame
  <2>5. \A u \in Stage : ActCount(u) /\ GradCount(u)
    BY <2>1 DEF Counted
  <2>6. \A u \in Stage : ActCount(u)' /\ GradCount(u)'
    BY <2>3, <2>4, <2>5 DEF ActCount, GradCount
  <2>7. QED
    BY <2>6 DEF Counted
<1>3. QED
  BY <1>1, <1>2
-----------------------------------------------------------------------------
(* A pipeline run by OneFOneB implements the abstract pipeline *)

AbsDone(s) == IF job = "OneFOneB" THEN done[s] * NumMicroBatches ELSE 0

(* Under Agree, the abstract variables of OneFOneB are the counts above.     *)
LEMMA AbsView ==
  ASSUME Agree, Agree', job = "OneFOneB", job' = "OneFOneB"
  PROVE  \A u \in Stage :
           /\ Executed(u, "forward", fwd) = PassedFwd(u) /\ Executed(u, "backward", bwd) = PassedBwd(u)
           /\ AbsDone(u) = done[u] * NumMicroBatches
           /\ Executed(u, "forward", fwd)' = PassedFwd(u)' /\ Executed(u, "backward", bwd)' = PassedBwd(u)'
           /\ AbsDone(u)' = done'[u] * NumMicroBatches
<1>1. \A u \in Stage : Executed(u, "forward", fwd) = PassedFwd(u) /\ Executed(u, "backward", bwd) = PassedBwd(u)
  BY DEF Agree
<1>2. \A u \in Stage : /\ Executed(u, "forward", fwd)' = PassedFwd(u)'
                       /\ Executed(u, "backward", bwd)' = PassedBwd(u)'
  BY DEF Agree
<1>3. QED
  BY <1>1, <1>2 DEF AbsDone

(* Any job but OneFOneB leaves the abstract pipeline alone. *)
LEMMA AbsIdle ==
  ASSUME job # "OneFOneB", job' = job
  PROVE  UNCHANGED Abs!absVars
BY DEF Abs!absVars, Executed

LEMMA AbsStutter ==
  ASSUME Agree, Agree', job = "OneFOneB", job' = job, done' = done,
         \A u \in Stage : PassedFwd(u)' = PassedFwd(u) /\ PassedBwd(u)' = PassedBwd(u)
  PROVE  UNCHANGED Abs!absVars
<1>1. \A u \in Stage : /\ Executed(u, "forward", fwd)' = Executed(u, "forward", fwd)
                       /\ Executed(u, "backward", bwd)' = Executed(u, "backward", bwd)
  BY AbsView
<1>2. [u \in Stage |-> Executed(u, "forward", fwd)]' = [u \in Stage |-> Executed(u, "forward", fwd)]
  BY <1>1
<1>3. [u \in Stage |-> Executed(u, "backward", bwd)]' = [u \in Stage |-> Executed(u, "backward", bwd)]
  BY <1>1
<1>4. QED
  BY <1>2, <1>3 DEF Abs!absVars

LEMMA AbsForward ==
  ASSUME Base, Base', Chained, Counted, Agree, Agree', job = "OneFOneB", NEW s \in Stage, Forward(s)
  PROVE  Abs!PassForward(s)
<1>1. /\ PassedFwd(s)' = PassedFwd(s) + 1 /\ PassedBwd(s)' = PassedBwd(s)
      /\ \A u \in Stage : u # s => PassedFwd(u)' = PassedFwd(u) /\ PassedBwd(u)' = PassedBwd(u)
      /\ job' = job /\ done' = done
  BY CountedForward DEF Unidirectional
<1>2. \A u \in Stage :
        /\ Executed(u, "forward", fwd)' = IF u = s THEN Executed(u, "forward", fwd) + 1
                                                   ELSE Executed(u, "forward", fwd)
        /\ Executed(u, "backward", bwd)' = Executed(u, "backward", bwd)
  BY <1>1, AbsView
<1>3. [u \in Stage |-> Executed(u, "forward", fwd)]'
        = [[u \in Stage |-> Executed(u, "forward", fwd)] EXCEPT ![s] = @ + 1]
  BY <1>2
<1>4. [u \in Stage |-> Executed(u, "backward", bwd)]' = [u \in Stage |-> Executed(u, "backward", bwd)]
  BY <1>2
<1>5. /\ Executed(s, "forward", fwd) < done[s] * NumMicroBatches + NumMicroBatches
      /\ s # 0 => s - 1 \in Stage /\ Executed(s, "forward", fwd) < Executed(s - 1, "forward", fwd)
      /\ Executed(s, "forward", fwd) - Executed(s, "backward", bwd) < Abs!Window(s)
  <2>1. s # 0 => s - 1 \in Stage /\ Executed(s - 1, "forward", fwd) = PassedFwd(s - 1)
    BY <1>1, ForwardGuards, AbsView
  <2>2. Executed(s, "forward", fwd) = PassedFwd(s) /\ Executed(s, "backward", bwd) = PassedBwd(s)
    BY <1>1, AbsView
  <2>3. QED
    BY <2>1, <2>2, ForwardGuards
<1>6. QED
  BY <1>1, <1>3, <1>4, <1>5 DEF Abs!PassForward

LEMMA AbsBackward ==
  ASSUME Base, Base', Chained, Counted, Agree, Agree', job = "OneFOneB", NEW s \in Stage, Backward(s)
  PROVE  Abs!PassBackward(s)
<1>1. /\ PassedBwd(s)' = PassedBwd(s) + 1 /\ PassedFwd(s)' = PassedFwd(s)
      /\ \A u \in Stage : u # s => PassedFwd(u)' = PassedFwd(u) /\ PassedBwd(u)' = PassedBwd(u)
      /\ job' = job /\ done' = done
  BY CountedBackward DEF Unidirectional
<1>2. \A u \in Stage :
        /\ Executed(u, "backward", bwd)' = IF u = s THEN Executed(u, "backward", bwd) + 1
                                                    ELSE Executed(u, "backward", bwd)
        /\ Executed(u, "forward", fwd)' = Executed(u, "forward", fwd)
  BY <1>1, AbsView
<1>3. [u \in Stage |-> Executed(u, "backward", bwd)]'
        = [[u \in Stage |-> Executed(u, "backward", bwd)] EXCEPT ![s] = @ + 1]
  BY <1>2
<1>4. [u \in Stage |-> Executed(u, "forward", fwd)]' = [u \in Stage |-> Executed(u, "forward", fwd)]
  BY <1>2
<1>5. /\ Executed(s, "backward", bwd) < Executed(s, "forward", fwd)
      /\ s # NumStages - 1 => s + 1 \in Stage /\ Executed(s, "backward", bwd) < Executed(s + 1, "backward", bwd)
  <2>1. /\ PassedBwd(s) < PassedFwd(s)
        /\ s # NumStages - 1 => s + 1 \in Stage /\ PassedBwd(s) < PassedBwd(s + 1)
    BY BackwardGuards DEF Unidirectional
  <2>2. s # NumStages - 1 => Executed(s + 1, "backward", bwd) = PassedBwd(s + 1)
    BY <1>1, <2>1, AbsView
  <2>3. Executed(s, "forward", fwd) = PassedFwd(s) /\ Executed(s, "backward", bwd) = PassedBwd(s)
    BY <1>1, AbsView
  <2>4. QED
    BY <2>1, <2>2, <2>3
<1>6. QED
  BY <1>1, <1>3, <1>4, <1>5 DEF Abs!PassBackward, Abs!LastStage

LEMMA AbsFinish ==
  ASSUME Base, Chained, Counted, Agree, Agree', job = "OneFOneB", NEW s \in Stage, EndIteration(s)
  PROVE  Abs!FinishStep(s)
<1>1. /\ \A u \in Stage : PassedFwd(u)' = PassedFwd(u) /\ PassedBwd(u)' = PassedBwd(u)
      /\ job' = job
      /\ PassedBwd(s) = done[s] * NumMicroBatches + NumMicroBatches
      /\ done'[s] * NumMicroBatches = done[s] * NumMicroBatches + NumMicroBatches
      /\ \A u \in Stage : u # s => done'[u] = done[u]
  BY CountedEndIteration DEF Unidirectional
<1>2. \A u \in Stage : /\ Executed(u, "forward", fwd)' = Executed(u, "forward", fwd)
                       /\ Executed(u, "backward", bwd)' = Executed(u, "backward", bwd)
  BY <1>1, AbsView
<1>3. [u \in Stage |-> Executed(u, "forward", fwd)]' = [u \in Stage |-> Executed(u, "forward", fwd)]
  BY <1>2
<1>4. [u \in Stage |-> Executed(u, "backward", bwd)]' = [u \in Stage |-> Executed(u, "backward", bwd)]
  BY <1>2
<1>5. [u \in Stage |-> AbsDone(u)]' = [[u \in Stage |-> AbsDone(u)] EXCEPT ![s] = @ + NumMicroBatches]
  <2>1. \A u \in Stage : AbsDone(u)' = IF u = s THEN AbsDone(u) + NumMicroBatches ELSE AbsDone(u)
    BY <1>1, AbsView
  <2>2. QED
    BY <2>1
<1>6. Executed(s, "backward", bwd) = AbsDone(s) + NumMicroBatches
  BY <1>1, AbsView
<1>7. QED
  BY <1>3, <1>4, <1>5, <1>6 DEF Abs!FinishStep, AbsDone

LEMMA AbsStep ==
  Base /\ Base' /\ Chained /\ Counted /\ Agree /\ Agree' /\ [Next]_vars => [Abs!Next]_(Abs!absVars)
<1> SUFFICES ASSUME Base, Base', Chained, Counted, Agree, Agree', [Next]_vars
             PROVE  Abs!Next \/ UNCHANGED Abs!absVars
  OBVIOUS
<1>1. CASE UNCHANGED vars
  BY <1>1 DEF vars, Abs!absVars, Executed
<1>2. CASE Next
  <2>1. PICK s \in Stage : StageNext(s)
    BY <1>2 DEF Next
  <2>2. job' = job
    BY <2>1 DEF StageNext, NextAction, EndIteration, Discard, Forward, Backward, Send
  <2>3. CASE job # "OneFOneB"
    BY <2>2, <2>3, AbsIdle
  <2>4. CASE job = "OneFOneB"
    <3>1. ~Discard(s) /\ Unidirectional /\ s \in Abs!Stage
      BY <2>4 DEF Discard, Unidirectional, Abs!Stage, Stage
    <3>2. CASE Forward(s)
      BY <2>4, <3>1, <3>2, AbsForward DEF Abs!Next
    <3>3. CASE Backward(s)
      BY <2>4, <3>1, <3>3, AbsBackward DEF Abs!Next
    <3>4. CASE EndIteration(s)
      BY <2>4, <3>1, <3>4, AbsFinish DEF Abs!Next
    <3>5. CASE NextAction(s)
      BY <2>4, <3>1, <3>5, CountedNextAction, AbsStutter
    <3>6. CASE Send(s)
      BY <2>4, <3>1, <3>6, CountedSend, AbsStutter
    <3>7. QED
      BY <2>1, <3>1, <3>2, <3>3, <3>4, <3>5, <3>6 DEF StageNext
  <2>5. QED
    BY <2>3, <2>4
<1>3. QED
  BY <1>1, <1>2

LEMMA AbsInit == Init => Abs!Init
<1> SUFFICES ASSUME Init PROVE Abs!Init
  OBVIOUS
<1>1. ASSUME NEW u \in Stage
      PROVE  /\ Executed(u, "forward", fwd) = 0 /\ Executed(u, "backward", bwd) = 0
             /\ AbsDone(u) = 0
  <2>1. ops[u] = <<>> /\ fwd[u]["regular"] = 0 /\ bwd[u]["regular"] = 0 /\ done[u] = 0
    BY DEF Init, Fresh, Stream
  <2>2. 0 * NumMicroBatches = 0
    BY SchedulesAssumption
  <2>3. \A w : ~\E i \in DOMAIN ops[u] : ops[u][i].do = w
    BY <2>1
  <2>4. QED
    BY <2>1, <2>2, <2>3 DEF Executed, AbsDone
<1>2. Abs!Stage = Stage
  BY DEF Abs!Stage, Stage
<1>3. QED
  BY <1>1, <1>2 DEF Abs!Init, AbsDone

(* A pipeline whose stages are pulled by OneFOneB implements the abstract     *)
(* pipeline: micro-batches pass the stages in order, forward and back, a      *)
(* stage never holds more than NumStages - s activations, and it ends a step  *)
(* only when all the gradients of the step have passed it.                   *)
THEOREM Refinement == Spec => AbsSpec
<1>1. Init => Counted
  BY InitCounted
<1>2. IInv /\ IInv' /\ Counted /\ [Next]_vars => Counted'
  BY CountedInductive DEF IInv
<1>3. IInv /\ IInv' /\ Counted /\ [Next]_vars => [Abs!Next]_(Abs!absVars)
  <2>1. IInv => Base /\ Chained /\ Agree
    BY BaseAgree DEF IInv
  <2>2. IInv' => Base' /\ Agree'
    BY BaseAgree, PTL DEF IInv
  <2>3. QED
    BY <2>1, <2>2, AbsStep
<1>4. QED
  BY <1>1, <1>2, <1>3, AbsInit, Invariance, PTL DEF Spec, AbsSpec, Abs!Spec
=============================================================================
