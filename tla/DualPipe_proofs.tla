---------------------------- MODULE DualPipe_proofs ----------------------------
(***************************************************************************)
(* Proofs about DualPipe for every number of stages and micro-batches and  *)
(* every number of train_step calls.                                       *)
(*                                                                         *)
(* Plan: LocalInv ties the schedule entry a stage is at to its two         *)
(* indices, LinkInv says that what is in flight on a link is exactly the   *)
(* consecutive micro-batches the sender is ahead of the receiver, and      *)
(* StashInv gives the content of every stash from the same indices. None   *)
(* of them is inductive alone: the received tensor is right because the    *)
(* link is, and the sent one because the stash is.                         *)
(***************************************************************************)
EXTENDS DualPipe, FiniteSetTheorems, WellFoundedInduction, TLAPS

(* Activations and gradients of s computed in the current step, ...         *)
FwdDone(s) == fwd[s] + (IF pc[s] = "SEND_FORWARD" THEN 1 ELSE 0)
BwdDone(s) == bwd[s] + (IF pc[s] = "SEND_BACKWARD" THEN 1 ELSE 0)
(* ... sent to, and received from, a neighbour since the start of the job.  *)
SentF(s) == done[s] + fwd[s]
SentB(s) == done[s] + bwd[s]
RecvdF(s) == done[s] + fwd[s] + (IF pc[s] \in {"FORWARD", "SEND_FORWARD"} THEN 1 ELSE 0)
RecvdB(s) == done[s] + bwd[s] + (IF pc[s] \in {"BACKWARD", "SEND_BACKWARD"} THEN 1 ELSE 0)

Payload(s, mb) == done[s] + mb + 1

(* The channel holds from + 1, from + 2, ..., to. *)
Consecutive(c, from, to) ==
  /\ Len(c) = to - from
  /\ \A i \in 1 .. Len(c) : c[i] = from + i

LocalInv(s) ==
  /\ pc[s] # "RAISED"
  /\ pc[s] = "RECV_FORWARD" => s # FirstStage
  /\ pc[s] = "SEND_FORWARD" => s # LastStage
  /\ pc[s] = "RECV_BACKWARD" => s # LastStage
  /\ pc[s] = "SEND_BACKWARD" => s # FirstStage
  /\ pc[s] \in ForwardEntry =>
       /\ fwd[s] < NumMicroBatches
       /\ bwd[s] = IF fwd[s] <= NumWarmup(s) THEN 0 ELSE fwd[s] - NumWarmup(s)
  /\ pc[s] \in BackwardEntry =>
       /\ bwd[s] < NumMicroBatches
       /\ fwd[s] = IF NumWarmup(s) + bwd[s] + 1 < NumMicroBatches
                   THEN NumWarmup(s) + bwd[s] + 1 ELSE NumMicroBatches
  /\ pc[s] = "WAIT_ALL_SENDS" => fwd[s] = NumMicroBatches /\ bwd[s] = NumMicroBatches
  /\ pc[s] = "IDLE" => fwd[s] = 0 /\ bwd[s] = 0
  /\ pc[s] # "IDLE" => done[s] < MaxBatches

StashInv(s) ==
  /\ \A mb \in MicroBatch :
       outStash[s][mb] = IF BwdDone(s) <= mb /\ mb < FwdDone(s) THEN Payload(s, mb) ELSE None
  /\ \A mb \in MicroBatch : gradOut[s][mb] \in {None, Payload(s, mb)}
  /\ pc[s] = "FORWARD" /\ s # FirstStage => inStash[s][fwd[s]] = Payload(s, fwd[s])
  /\ pc[s] = "BACKWARD" /\ s # LastStage => gradOut[s][bwd[s]] = Payload(s, bwd[s])
  /\ pc[s] = "SEND_BACKWARD" => gradIn[s][bwd[s]] = Payload(s, bwd[s])
  /\ s = FirstStage => dataPos = done[s] + FwdDone(s)
  /\ s = LastStage => labelPos = done[s] + fwd[s]

LinkInv(s) ==
  s # LastStage =>
    /\ Consecutive(fchan[s], RecvdF(s + 1), SentF(s))
    /\ Consecutive(bchan[s + 1], RecvdB(s), SentB(s + 1))
    /\ done[s + 1] - done[s] \in {-NumMicroBatches, 0, NumMicroBatches}

IInv ==
  /\ TypeOK
  /\ \A s \in Stage : LocalInv(s)
  /\ \A s \in Stage : StashInv(s)
  /\ \A s \in Stage : LinkInv(s)
  /\ fchan[LastStage] = <<>>
  /\ bchan[FirstStage] = <<>>
-----------------------------------------------------------------------------
(* Channels of consecutive micro-batches. *)

LEMMA ConsecutiveAppend ==
  ASSUME NEW c \in Seq(Nat), NEW from \in Nat, NEW to \in Nat, NEW x \in Nat,
         Consecutive(c, from, to), x = to + 1
  PROVE  /\ Append(c, x) \in Seq(Nat)
         /\ Consecutive(Append(c, x), from, to + 1)
BY DEF Consecutive

LEMMA ConsecutiveTail ==
  ASSUME NEW c \in Seq(Nat), NEW from \in Nat, NEW to \in Nat,
         Consecutive(c, from, to), c # <<>>
  PROVE  /\ Head(c) = from + 1
         /\ Head(c) \in Nat
         /\ Tail(c) \in Seq(Nat)
         /\ Consecutive(Tail(c), from + 1, to)
BY DEF Consecutive

LEMMA ConsecutiveEmpty ==
  ASSUME NEW c \in Seq(Nat), NEW from \in Nat, NEW to \in Nat,
         Consecutive(c, from, to)
  PROVE  /\ from <= to
         /\ c = <<>> <=> from = to
BY DEF Consecutive

(* The constants, as the provers need them. *)
LEMMA StageFacts ==
  /\ NumStages \in Nat \ {0} /\ NumMicroBatches \in Nat \ {0} /\ MaxBatches \in Nat
  /\ FirstStage \in Stage /\ LastStage \in Stage
  /\ \A s \in Stage : s \in Nat /\ s <= LastStage
  /\ \A s \in Stage : s # LastStage => s + 1 \in Stage
  /\ \A s \in Stage : s # FirstStage => s - 1 \in Stage
  /\ \A s \in Stage : NumWarmup(s) \in 0 .. NumMicroBatches
  /\ NumWarmup(LastStage) = 0
BY DualPipeAssumption DEF Stage, FirstStage, LastStage, NumWarmup
-----------------------------------------------------------------------------
LEMMA InitIInv == Init => IInv
<1> SUFFICES ASSUME Init PROVE IInv
  OBVIOUS
<1> USE StageFacts
<1>1. TypeOK
  BY DEF Init, TypeOK, Empty, None
<1>2. ASSUME NEW s \in Stage PROVE LocalInv(s) /\ StashInv(s)
  BY DEF Init, LocalInv, StashInv, Empty, None, ForwardEntry, BackwardEntry,
         FwdDone, BwdDone, MicroBatch
<1>3. ASSUME NEW s \in Stage PROVE LinkInv(s)
  BY DEF Init, LinkInv, Consecutive, RecvdF, RecvdB, SentF, SentB
<1>4. QED
  BY <1>1, <1>2, <1>3 DEF IInv, Init
-----------------------------------------------------------------------------
(* What a step of stage t must establish: the parts of the invariant at t    *)
(* and at its two links. The rest of the pipeline is as before.             *)

SameStage(s) ==
  UNCHANGED <<done[s], pc[s], fwd[s], bwd[s], inStash[s], outStash[s], gradOut[s], gradIn[s]>>

LocalStep(t) ==
  /\ \A s \in Stage : s # t => SameStage(s)
  /\ t # FirstStage => UNCHANGED dataPos
  /\ t # LastStage => UNCHANGED labelPos

LEMMA StepFrame ==
  ASSUME IInv, NEW t \in Stage, LocalStep(t),
         TypeOK', LocalInv(t)', StashInv(t)', LinkInv(t)',
         t # FirstStage => LinkInv(t - 1)',
         \A s \in Stage : s # t /\ s + 1 # t => fchan'[s] = fchan[s],
         \A s \in Stage : s # t /\ s - 1 # t => bchan'[s] = bchan[s],
         fchan'[LastStage] = <<>>, bchan'[FirstStage] = <<>>
  PROVE  IInv'
<1> USE StageFacts
<1>1. ASSUME NEW s \in Stage PROVE LocalInv(s)'
  BY DEF IInv, LocalStep, SameStage, LocalInv
<1>2. ASSUME NEW s \in Stage PROVE StashInv(s)'
  <2>1. CASE s = t
    BY <2>1
  <2>2. CASE s # t
    <3>1. SameStage(s) /\ (s = FirstStage => UNCHANGED dataPos) /\ (s = LastStage => UNCHANGED labelPos)
      BY <2>2 DEF LocalStep
    <3>2. StashInv(s)
      BY DEF IInv
    <3>3. QED
      BY <3>1, <3>2 DEF SameStage, StashInv, FwdDone, BwdDone, Payload
  <2>3. QED
    BY <2>1, <2>2
<1>3. ASSUME NEW s \in Stage PROVE LinkInv(s)'
  <2>1. CASE s = t
    BY <2>1
  <2>2. CASE s + 1 = t
    BY <2>2, s = t - 1, t # FirstStage DEF FirstStage, Stage
  <2>3. CASE s # t /\ s + 1 # t /\ s # LastStage
    <3>1. s + 1 \in Stage /\ SameStage(s) /\ SameStage(s + 1)
      BY <2>3 DEF LocalStep
    <3>2. fchan'[s] = fchan[s] /\ bchan'[s + 1] = bchan[s + 1]
      BY <2>3, <3>1
    <3>3. LinkInv(s)
      BY DEF IInv
    <3>4. QED
      BY <2>3, <3>1, <3>2, <3>3
      DEF LinkInv, SameStage, RecvdF, RecvdB, SentF, SentB, Consecutive
  <2>4. CASE s = LastStage
    BY <2>4 DEF LinkInv
  <2>5. QED
    BY <2>1, <2>2, <2>3, <2>4
<1>4. QED
  BY <1>1, <1>2, <1>3 DEF IInv
-----------------------------------------------------------------------------
(* The types of a stage's indices, and of its neighbours. *)
LEMMA StageTypes ==
  ASSUME TypeOK, NEW t \in Stage
  PROVE  /\ done[t] \in Nat /\ fwd[t] \in Nat /\ bwd[t] \in Nat
         /\ fwd[t] <= NumMicroBatches /\ bwd[t] <= NumMicroBatches
         /\ NumWarmup(t) \in Nat /\ NumWarmup(t) <= NumMicroBatches
         /\ NumMicroBatches \in Nat /\ 0 < NumMicroBatches
         /\ fchan[t] \in Seq(Nat) /\ bchan[t] \in Seq(Nat)
         /\ RecvdF(t) \in Nat /\ SentF(t) \in Nat /\ RecvdB(t) \in Nat /\ SentB(t) \in Nat
<1>1. /\ done[t] \in Nat /\ fwd[t] \in Nat /\ bwd[t] \in Nat
      /\ fwd[t] <= NumMicroBatches /\ bwd[t] <= NumMicroBatches
      /\ fchan[t] \in Seq(Nat) /\ bchan[t] \in Seq(Nat)
  BY StageFacts DEF TypeOK
<1>2. /\ RecvdF(t) \in Nat /\ SentF(t) \in Nat
      /\ RecvdB(t) \in Nat /\ SentB(t) \in Nat
  BY <1>1 DEF RecvdF, SentF, RecvdB, SentB
<1>3. QED
  BY <1>1, <1>2, StageFacts

LEMMA Neighbours ==
  ASSUME NEW t \in Stage
  PROVE  /\ t \in Nat /\ t + 1 # t /\ t - 1 # t
         /\ t # FirstStage => t - 1 \in Stage /\ t - 1 # LastStage /\ (t - 1) + 1 = t
         /\ t # LastStage => t + 1 \in Stage /\ (t + 1) - 1 = t
         /\ \A s \in Stage : s + 1 = t <=> s = t - 1
         /\ \A s \in Stage : s - 1 = t <=> s = t + 1
BY DualPipeAssumption DEF Stage, FirstStage, LastStage

(* A step that leaves what the link's two ends sent and received as it was   *)
(* leaves the link as it was.                                               *)
LEMMA LinkFrame ==
  ASSUME NEW s \in Stage, LinkInv(s), UNCHANGED <<SentF(s), RecvdB(s), done[s]>>,
         s # LastStage => UNCHANGED <<RecvdF(s + 1), SentB(s + 1), done[s + 1]>>,
         s # LastStage => UNCHANGED <<fchan[s], bchan[s + 1]>>
  PROVE  LinkInv(s)'
<1>1. CASE s = LastStage
  BY <1>1 DEF LinkInv
<1>2. CASE s # LastStage
  BY <1>2 DEF LinkInv, Consecutive
<1>3. QED
  BY <1>1, <1>2

LEMMA SameStageSame ==
  ASSUME NEW s, SameStage(s)
  PROVE  UNCHANGED <<SentF(s), RecvdF(s), SentB(s), RecvdB(s), done[s]>>
BY DEF SameStage, SentF, RecvdF, SentB, RecvdB

(* One lemma per action, and what they share. *)

LEMMA BeginStepIInv ==
  ASSUME IInv, NEW t \in Stage, BeginStep(t)
  PROVE  IInv'
<1> USE StageFacts
<1>1. TypeOK /\ LocalInv(t) /\ StashInv(t) /\ LinkInv(t) /\ (t # FirstStage => LinkInv(t - 1))
  BY DEF IInv
<1>2. TypeOK'
  BY <1>1 DEF BeginStep, TypeOK, Empty, None, BeginForward, Entry, ForwardEntry
<1>3. LocalStep(t)
  BY <1>1 DEF BeginStep, TypeOK, LocalStep, SameStage
<1>4. /\ pc[t] = "IDLE" /\ pc'[t] \in {"FORWARD", "RECV_FORWARD"}
      /\ pc'[t] = "FORWARD" <=> t = FirstStage
      /\ UNCHANGED <<done, fwd, bwd, inStash, outStash, dataPos, labelPos, fchan, bchan>>
      /\ gradOut'[t] = Empty
      /\ fwd[t] = 0 /\ bwd[t] = 0
  BY <1>1 DEF BeginStep, TypeOK, LocalInv, BeginForward
<1>5. LocalInv(t)'
  BY <1>1, <1>4 DEF LocalInv, ForwardEntry, BackwardEntry, BeginStep
<1>6. StashInv(t)'
  BY <1>1, <1>4 DEF TypeOK, StashInv, FwdDone, BwdDone, Payload, Empty, None
<1>7. /\ UNCHANGED <<SentF(t), SentB(t), RecvdB(t), done[t], fchan, bchan>>
      /\ t # FirstStage => UNCHANGED RecvdF(t)
      /\ \A s \in Stage : s # t =>
           UNCHANGED <<SentF(s), RecvdF(s), SentB(s), RecvdB(s), done[s]>>
  <2>1. /\ UNCHANGED <<SentF(t), SentB(t), RecvdB(t), done[t], fchan, bchan>>
        /\ t # FirstStage => UNCHANGED RecvdF(t)
    BY <1>4 DEF SentF, RecvdF, SentB, RecvdB
  <2>2. ASSUME NEW s \in Stage, s # t
        PROVE  UNCHANGED <<SentF(s), RecvdF(s), SentB(s), RecvdB(s), done[s]>>
    BY <1>3, <2>2, SameStageSame DEF LocalStep
  <2>3. QED
    BY <2>1, <2>2
<1>8. LinkInv(t)'
  <2>1. t # LastStage => UNCHANGED <<RecvdF(t + 1), SentB(t + 1), done[t + 1]>>
    BY <1>7, Neighbours
  <2>2. QED
    BY <1>1, <1>7, <2>1, LinkFrame
<1>9. ASSUME t # FirstStage PROVE LinkInv(t - 1)'
  <2>1. /\ t - 1 \in Stage /\ t - 1 # t /\ (t - 1) + 1 = t
    BY <1>9, Neighbours
  <2>2. UNCHANGED <<SentF(t - 1), RecvdB(t - 1), done[t - 1]>>
    BY <1>7, <2>1
  <2>3. UNCHANGED <<RecvdF((t - 1) + 1), SentB((t - 1) + 1), done[(t - 1) + 1], fchan[t - 1],
                    bchan[(t - 1) + 1]>>
    BY <1>7, <1>9, <2>1
  <2>4. QED
    BY <1>1, <1>9, <2>1, <2>2, <2>3, LinkFrame
<1>10. QED
  BY <1>2, <1>3, <1>4, <1>5, <1>6, <1>8, <1>9, StepFrame DEF IInv

(* Where _build_schedule goes after a forward, and after a backward.         *)
LEMMA AfterForwardLocal ==
  ASSUME TypeOK, NEW t \in Stage, LocalInv(t), pc[t] \in ForwardEntry,
         UNCHANGED <<done[t], bwd[t]>>, fwd'[t] = fwd[t] + 1,
         pc'[t] = AfterForward(t, fwd[t])
  PROVE  /\ LocalInv(t)'
         /\ pc'[t] \in {"RECV_FORWARD", "FORWARD", "RECV_BACKWARD", "BACKWARD"}
         /\ pc'[t] = "FORWARD" => t = FirstStage
         /\ pc'[t] = "BACKWARD" => t = LastStage
         /\ fwd[t] + 1 \in 0 .. NumMicroBatches
<1>1. /\ bwd[t] = IF fwd[t] <= NumWarmup(t) THEN 0 ELSE fwd[t] - NumWarmup(t)
      /\ done[t] < MaxBatches /\ fwd[t] < NumMicroBatches
  BY DEF LocalInv, ForwardEntry
<1>2. /\ fwd[t] \in Nat /\ bwd[t] \in Nat /\ NumMicroBatches \in Nat
      /\ NumWarmup(t) \in Nat
  BY StageTypes
<1>3. /\ pc'[t] \in {"RECV_FORWARD", "FORWARD", "RECV_BACKWARD", "BACKWARD"}
      /\ pc'[t] = "FORWARD" => t = FirstStage
      /\ pc'[t] = "RECV_FORWARD" => t # FirstStage
      /\ pc'[t] = "BACKWARD" => t = LastStage
      /\ pc'[t] = "RECV_BACKWARD" => t # LastStage
  BY DEF AfterForward, BeginForward, BeginBackward
<1>4. CASE fwd[t] + 1 <= NumWarmup(t) /\ fwd[t] + 1 < NumMicroBatches
  <2>1. bwd'[t] = 0 /\ done'[t] = done[t]
    BY <1>1, <1>2, <1>4
  <2>2. pc'[t] \in {"FORWARD", "RECV_FORWARD"}
    BY <1>4 DEF AfterForward, BeginForward
  <2>3. QED
    BY <1>1, <1>2, <1>3, <1>4, <2>1, <2>2 DEF LocalInv, ForwardEntry, BackwardEntry
<1>5. CASE ~(fwd[t] + 1 <= NumWarmup(t) /\ fwd[t] + 1 < NumMicroBatches)
  <2>1. bwd[t] < NumMicroBatches
    BY <1>1, <1>2
  <2>2. fwd[t] + 1 = IF NumWarmup(t) + bwd[t] + 1 < NumMicroBatches
                     THEN NumWarmup(t) + bwd[t] + 1 ELSE NumMicroBatches
    <3>1. CASE fwd[t] <= NumWarmup(t)
      BY <1>1, <1>2, <1>5, <3>1
    <3>2. CASE fwd[t] > NumWarmup(t)
      BY <1>1, <1>2, <3>2
    <3>3. QED
      BY <1>2, <3>1, <3>2
  <2>3. pc'[t] \in {"BACKWARD", "RECV_BACKWARD"}
    BY <1>5 DEF AfterForward, BeginBackward
  <2>4. QED
    BY <1>1, <1>2, <1>3, <2>1, <2>2, <2>3 DEF LocalInv, ForwardEntry, BackwardEntry
<1>6. QED
  BY <1>4, <1>5

LEMMA AfterBackwardLocal ==
  ASSUME TypeOK, NEW t \in Stage, LocalInv(t), pc[t] \in BackwardEntry,
         UNCHANGED <<done[t], fwd[t]>>, bwd'[t] = bwd[t] + 1,
         pc'[t] = AfterBackward(t, bwd[t])
  PROVE  /\ LocalInv(t)'
         /\ pc'[t] \in {"RECV_FORWARD", "FORWARD", "RECV_BACKWARD", "BACKWARD", "WAIT_ALL_SENDS"}
         /\ pc'[t] = "FORWARD" => t = FirstStage
         /\ pc'[t] = "BACKWARD" => t = LastStage
         /\ bwd[t] + 1 \in 0 .. NumMicroBatches
<1>1. /\ fwd[t] = IF NumWarmup(t) + bwd[t] + 1 < NumMicroBatches
                  THEN NumWarmup(t) + bwd[t] + 1 ELSE NumMicroBatches
      /\ done[t] < MaxBatches /\ bwd[t] < NumMicroBatches
  BY DEF LocalInv, BackwardEntry
<1>2. /\ fwd[t] \in Nat /\ bwd[t] \in Nat /\ NumMicroBatches \in Nat
      /\ NumWarmup(t) \in Nat
  BY StageTypes
<1>3. /\ pc'[t] \in {"RECV_FORWARD", "FORWARD", "RECV_BACKWARD", "BACKWARD", "WAIT_ALL_SENDS"}
      /\ pc'[t] = "FORWARD" => t = FirstStage
      /\ pc'[t] = "RECV_FORWARD" => t # FirstStage
      /\ pc'[t] = "BACKWARD" => t = LastStage
      /\ pc'[t] = "RECV_BACKWARD" => t # LastStage
  BY DEF AfterBackward, BeginForward, BeginBackward
<1>4. CASE fwd[t] < NumMicroBatches
  <2>1. bwd[t] + 1 = fwd[t] - NumWarmup(t) /\ ~(fwd[t] <= NumWarmup(t))
    BY <1>1, <1>2, <1>4
  <2>2. pc'[t] \in {"FORWARD", "RECV_FORWARD"}
    BY <1>4 DEF AfterBackward, BeginForward
  <2>3. QED
    BY <1>1, <1>2, <1>3, <1>4, <2>1, <2>2 DEF LocalInv, ForwardEntry, BackwardEntry
<1>5. CASE ~(fwd[t] < NumMicroBatches) /\ bwd[t] + 1 < NumMicroBatches
  <2>1. fwd[t] = NumMicroBatches /\ ~(NumWarmup(t) + (bwd[t] + 1) + 1 < NumMicroBatches)
    BY <1>1, <1>2, <1>5
  <2>2. pc'[t] \in {"BACKWARD", "RECV_BACKWARD"}
    BY <1>5 DEF AfterBackward, BeginBackward
  <2>3. QED
    BY <1>1, <1>2, <1>3, <1>5, <2>1, <2>2 DEF LocalInv, ForwardEntry, BackwardEntry
<1>6. CASE ~(fwd[t] < NumMicroBatches) /\ ~(bwd[t] + 1 < NumMicroBatches)
  <2>1. fwd[t] = NumMicroBatches /\ bwd[t] + 1 = NumMicroBatches
    BY <1>1, <1>2, <1>6
  <2>2. pc'[t] = "WAIT_ALL_SENDS"
    BY <1>6 DEF AfterBackward
  <2>3. QED
    BY <1>1, <1>2, <2>1, <2>2 DEF LocalInv, ForwardEntry, BackwardEntry
<1>7. QED
  BY <1>4, <1>5, <1>6
-----------------------------------------------------------------------------
LEMMA RecvForwardIInv ==
  ASSUME IInv, NEW t \in Stage, RecvForward(t)
  PROVE  IInv'
<1>1. TypeOK /\ LocalInv(t) /\ StashInv(t) /\ LinkInv(t) /\ (t # FirstStage => LinkInv(t - 1))
  BY Neighbours DEF IInv
<1>2. t # FirstStage /\ t - 1 \in Stage /\ t - 1 # LastStage /\ (t - 1) + 1 = t
  BY <1>1, Neighbours DEF RecvForward, LocalInv
<1>3. RecvdF(t) = done[t] + fwd[t] /\ Payload(t, fwd[t]) = RecvdF(t) + 1
  BY <1>1, StageTypes DEF RecvForward, RecvdF, Payload
<1>4. /\ Head(fchan[t - 1]) = RecvdF(t) + 1
      /\ Tail(fchan[t - 1]) \in Seq(Nat)
      /\ Consecutive(Tail(fchan[t - 1]), RecvdF(t) + 1, SentF(t - 1))
  <2>1. Consecutive(fchan[t - 1], RecvdF(t), SentF(t - 1))
    BY <1>1, <1>2 DEF LinkInv
  <2>2. fchan[t - 1] \in Seq(Nat) /\ RecvdF(t) \in Nat /\ SentF(t - 1) \in Nat
    BY <1>1, <1>2, StageTypes
  <2>3. QED
    BY <2>1, <2>2, ConsecutiveTail DEF RecvForward
<1>5. /\ pc[t] = "RECV_FORWARD" /\ pc'[t] = "FORWARD"
      /\ fwd[t] \in MicroBatch
      /\ UNCHANGED <<done, fwd, bwd, outStash, gradOut, gradIn, dataPos, labelPos, bchan>>
  BY <1>1, StageTypes DEF RecvForward, LocalInv, ForwardEntry, MicroBatch, TypeOK
<1>6. inStash'[t][fwd[t]] = Payload(t, fwd[t]) /\ fchan'[t - 1] = Tail(fchan[t - 1])
  BY <1>1, <1>2, <1>3, <1>4, <1>5 DEF RecvForward, TypeOK
<1>7. TypeOK'
  <2>1. Head(fchan[t - 1]) \in Nat
    BY <1>1, <1>4, StageTypes
  <2>2. inStash' \in [Stage -> [MicroBatch -> Nat]] /\ fchan' \in [Stage -> Seq(Nat)]
    BY <1>1, <1>2, <1>4, <1>5, <2>1 DEF RecvForward, TypeOK
  <2>3. QED
    BY <1>1, <1>5, <2>2 DEF RecvForward, TypeOK, Entry, ForwardEntry
<1>8. LocalStep(t) /\ (\A s \in Stage : s # t - 1 => fchan'[s] = fchan[s])
  BY <1>1 DEF RecvForward, TypeOK, LocalStep, SameStage
<1>9. LocalInv(t)'
  BY <1>1, <1>5 DEF LocalInv, ForwardEntry, BackwardEntry
<1>10. StashInv(t)'
  BY <1>1, <1>2, <1>5, <1>6 DEF StashInv, FwdDone, BwdDone, Payload
<1>11. /\ UNCHANGED <<SentF(t), SentB(t), RecvdB(t), done[t]>>
       /\ RecvdF(t)' = RecvdF(t) + 1
  BY <1>1, <1>5, StageTypes DEF SentF, SentB, RecvdB, RecvdF
<1>12. LinkInv(t)'
  BY <1>1, <1>5, <1>8, <1>11, Neighbours, LinkFrame, SameStageSame DEF LocalStep
<1>13. LinkInv(t - 1)'
  <2>1. UNCHANGED <<SentF(t - 1), RecvdB(t - 1), done[t - 1]>>
    BY <1>2, <1>8, Neighbours, SameStageSame DEF LocalStep
  <2>2. QED
    BY <1>1, <1>2, <1>4, <1>5, <1>6, <1>11, <2>1 DEF LinkInv
<1>14. QED
  <2>1. fchan'[LastStage] = <<>> /\ bchan'[FirstStage] = <<>>
    BY <1>2, <1>5, <1>8, StageFacts DEF IInv
  <2>2. QED
    BY <1>5, <1>7, <1>8, <1>9, <1>10, <1>12, <1>13, <2>1, Neighbours, StepFrame

LEMMA SendForwardIInv ==
  ASSUME IInv, NEW t \in Stage, SendForward(t)
  PROVE  IInv'
<1>1. TypeOK /\ LocalInv(t) /\ StashInv(t) /\ LinkInv(t) /\ (t # FirstStage => LinkInv(t - 1))
  BY Neighbours DEF IInv
<1>2. t # LastStage /\ t + 1 \in Stage
  BY <1>1, Neighbours DEF SendForward, LocalInv
<1>3. pc[t] = "SEND_FORWARD" /\ fwd[t] < NumMicroBatches /\ fwd[t] \in MicroBatch
  BY <1>1, StageTypes DEF SendForward, LocalInv, ForwardEntry, MicroBatch
<1>4. outStash[t][fwd[t]] = SentF(t) + 1
  <2>1. bwd[t] <= fwd[t]
    BY <1>1, <1>3, StageTypes DEF LocalInv, ForwardEntry
  <2>2. outStash[t][fwd[t]] = Payload(t, fwd[t])
    BY <1>1, <1>3, <2>1, StageTypes DEF StashInv, FwdDone, BwdDone
  <2>3. QED
    BY <1>1, <2>2, StageTypes DEF Payload, SentF
<1>5. /\ pc'[t] = AfterForward(t, fwd[t])
      /\ fwd'[t] = fwd[t] + 1
      /\ fchan'[t] = Append(fchan[t], SentF(t) + 1)
      /\ UNCHANGED <<done, bwd, stashes, dataPos, labelPos, bchan>>
  BY <1>1, <1>4 DEF SendForward, TypeOK
<1>6. /\ Append(fchan[t], SentF(t) + 1) \in Seq(Nat)
      /\ Consecutive(Append(fchan[t], SentF(t) + 1), RecvdF(t + 1), SentF(t) + 1)
  <2>1. Consecutive(fchan[t], RecvdF(t + 1), SentF(t))
    BY <1>1, <1>2 DEF LinkInv
  <2>2. fchan[t] \in Seq(Nat) /\ RecvdF(t + 1) \in Nat /\ SentF(t) \in Nat /\ SentF(t) + 1 \in Nat
    BY <1>1, <1>2, StageTypes
  <2>3. QED
    BY <2>1, <2>2, ConsecutiveAppend
<1>7. /\ pc'[t] \in {"RECV_FORWARD", "FORWARD", "RECV_BACKWARD", "BACKWARD"}
      /\ pc'[t] = "FORWARD" => t = FirstStage
      /\ pc'[t] = "RECV_FORWARD" => t # FirstStage
      /\ pc'[t] # "BACKWARD"
  BY <1>2, <1>5 DEF AfterForward, BeginForward, BeginBackward
<1>8. TypeOK'
  <2>1. fchan' \in [Stage -> Seq(Nat)]
    BY <1>1, <1>4, <1>6 DEF SendForward, TypeOK
  <2>2. fwd[t] + 1 \in 0 .. NumMicroBatches
    BY <1>1, <1>3, StageTypes
  <2>3. fwd' \in [Stage -> 0 .. NumMicroBatches]
    BY <1>1, <2>2 DEF SendForward, TypeOK
  <2>4. pc' \in [Stage -> Entry \cup {"IDLE", "WAIT_ALL_SENDS", "RAISED"}]
    BY <1>1, <1>5, <1>7 DEF SendForward, TypeOK, Entry, ForwardEntry, BackwardEntry
  <2>5. QED
    BY <1>1, <1>5, <2>1, <2>3, <2>4 DEF TypeOK, stashes
<1>9. LocalStep(t) /\ (\A s \in Stage : s # t => fchan'[s] = fchan[s])
  BY <1>1 DEF SendForward, TypeOK, LocalStep, SameStage, stashes
<1>10. LocalInv(t)'
  BY <1>1, <1>3, <1>5, AfterForwardLocal DEF ForwardEntry
<1>11. StashInv(t)'
  <2>1. FwdDone(t)' = FwdDone(t) /\ BwdDone(t)' = BwdDone(t)
    BY <1>1, <1>3, <1>5, <1>7, StageTypes DEF FwdDone, BwdDone
  <2>2. UNCHANGED <<outStash, gradOut, done>> /\ pc'[t] # "SEND_BACKWARD"
        /\ UNCHANGED <<dataPos, labelPos>> /\ t # LastStage
    BY <1>2, <1>5, <1>7 DEF stashes
  <2>3. QED
    BY <1>1, <1>7, <2>1, <2>2 DEF StashInv, Payload
<1>12. /\ UNCHANGED <<SentB(t), RecvdB(t), done[t]>>
       /\ t # FirstStage => UNCHANGED RecvdF(t)
       /\ SentF(t)' = SentF(t) + 1
  BY <1>1, <1>3, <1>5, <1>7, StageTypes DEF SentF, SentB, RecvdB, RecvdF
<1>13. LinkInv(t)'
  <2>1. UNCHANGED <<RecvdF(t + 1), SentB(t + 1), done[t + 1]>>
    BY <1>2, <1>9, Neighbours, SameStageSame DEF LocalStep
  <2>2. QED
    BY <1>1, <1>2, <1>5, <1>6, <1>12, <2>1 DEF LinkInv
<1>14. ASSUME t # FirstStage PROVE LinkInv(t - 1)'
  <2>1. t - 1 \in Stage /\ t - 1 # t /\ (t - 1) + 1 = t /\ LinkInv(t - 1)
    BY <1>1, <1>14, Neighbours
  <2>2. UNCHANGED <<SentF(t - 1), RecvdB(t - 1), done[t - 1]>>
    BY <1>9, <2>1, SameStageSame DEF LocalStep
  <2>3. QED
    BY <1>5, <1>9, <1>12, <1>14, <2>1, <2>2 DEF LinkInv
<1>15. QED
  <2>1. fchan'[LastStage] = <<>> /\ bchan'[FirstStage] = <<>>
    BY <1>2, <1>5, <1>9, StageFacts DEF IInv
  <2>2. QED
    BY <1>5, <1>8, <1>9, <1>10, <1>11, <1>13, <1>14, <2>1, StepFrame

LEMMA ForwardIInv ==
  ASSUME IInv, NEW t \in Stage, Forward(t)
  PROVE  IInv'
<1> DEFINE x == IF t = FirstStage THEN dataPos + 1 ELSE inStash[t][fwd[t]]
<1>1. TypeOK /\ LocalInv(t) /\ StashInv(t) /\ LinkInv(t) /\ (t # FirstStage => LinkInv(t - 1))
  BY Neighbours DEF IInv
<1>2. pc[t] = "FORWARD" /\ fwd[t] < NumMicroBatches /\ fwd[t] \in MicroBatch
  BY <1>1, StageTypes DEF Forward, LocalInv, ForwardEntry, MicroBatch
<1>3. /\ x = Payload(t, fwd[t]) /\ x \in Nat /\ x # None
      /\ t = LastStage => labelPos + 1 = Payload(t, fwd[t])
      /\ t = FirstStage => dataPos + 1 = Payload(t, fwd[t])
  <2>1. /\ t = FirstStage => dataPos = done[t] + fwd[t]
        /\ t # FirstStage => inStash[t][fwd[t]] = Payload(t, fwd[t])
        /\ t = LastStage => labelPos = done[t] + fwd[t]
    BY <1>1, <1>2, StageTypes DEF StashInv, FwdDone
  <2>2. done[t] \in Nat /\ fwd[t] \in Nat
    BY <1>1, StageTypes
  <2>3. QED
    BY <2>1, <2>2 DEF Payload, None
<1>4. /\ outStash'[t] = [outStash[t] EXCEPT ![fwd[t]] = x]
      /\ t = LastStage => gradOut'[t] = [gradOut[t] EXCEPT ![fwd[t]] = labelPos + 1]
      /\ t # LastStage => gradOut' = gradOut
      /\ dataPos' = IF t = FirstStage THEN dataPos + 1 ELSE dataPos
      /\ labelPos' = IF t = LastStage THEN labelPos + 1 ELSE labelPos
      /\ fwd'[t] = IF t = LastStage THEN fwd[t] + 1 ELSE fwd[t]
      /\ pc'[t] = IF t = LastStage THEN AfterForward(t, fwd[t]) ELSE "SEND_FORWARD"
      /\ UNCHANGED <<done, bwd, gradIn, fchan, bchan>>
  BY <1>1, <1>2, <1>3 DEF Forward, TypeOK
<1>5. /\ pc'[t] \in Entry
      /\ fwd'[t] \in 0 .. NumMicroBatches
      /\ t # FirstStage => UNCHANGED RecvdF(t)
      /\ t # LastStage => UNCHANGED <<SentF(t), RecvdB(t)>>
      /\ UNCHANGED <<SentB(t), done[t]>>
      /\ FwdDone(t)' = fwd[t] + 1 /\ BwdDone(t)' = BwdDone(t) /\ BwdDone(t) = bwd[t]
      /\ pc'[t] \notin {"SEND_BACKWARD", "RAISED"}
      /\ pc'[t] = "FORWARD" => t = FirstStage
      /\ pc'[t] = "BACKWARD" => t = LastStage
      /\ LocalInv(t)'
  <2>1. CASE t # LastStage
    <3>1. pc'[t] = "SEND_FORWARD" /\ fwd'[t] = fwd[t]
      BY <1>4, <2>1
    <3>2. LocalInv(t)'
      BY <1>1, <1>2, <1>4, <2>1, <3>1 DEF LocalInv, ForwardEntry, BackwardEntry
    <3>3. fwd'[t] \in 0 .. NumMicroBatches
      BY <1>1, <3>1, StageTypes
    <3>4. QED
      BY <1>1, <1>2, <1>4, <2>1, <3>1, <3>2, <3>3, StageTypes
      DEF Entry, ForwardEntry, SentF, SentB, RecvdF, RecvdB, FwdDone, BwdDone
  <2>2. CASE t = LastStage
    <3>1. pc'[t] = AfterForward(t, fwd[t]) /\ fwd'[t] = fwd[t] + 1
      BY <1>4, <2>2
    <3>2. /\ LocalInv(t)'
          /\ pc'[t] \in {"RECV_FORWARD", "FORWARD", "RECV_BACKWARD", "BACKWARD"}
          /\ pc'[t] = "FORWARD" => t = FirstStage
          /\ pc'[t] = "BACKWARD" => t = LastStage
          /\ fwd[t] + 1 \in 0 .. NumMicroBatches
      BY <1>1, <1>2, <1>4, <3>1, AfterForwardLocal DEF ForwardEntry
    <3>3. pc'[t] \in {"FORWARD", "RECV_FORWARD", "BACKWARD"}
      BY <2>2, <3>1 DEF AfterForward, BeginForward, BeginBackward
    <3>4. pc'[t] \in Entry /\ pc'[t] \notin {"SEND_BACKWARD", "RAISED"}
      BY <3>3 DEF Entry, ForwardEntry, BackwardEntry
    <3>5. done[t] \in Nat /\ fwd[t] \in Nat /\ bwd[t] \in Nat
      BY <1>1, StageTypes
    <3>6. FwdDone(t)' = fwd[t] + 1 /\ BwdDone(t)' = BwdDone(t) /\ BwdDone(t) = bwd[t]
      BY <1>2, <1>4, <3>1, <3>3, <3>5 DEF FwdDone, BwdDone
    <3>7. t # FirstStage => UNCHANGED RecvdF(t)
      BY <1>2, <1>4, <3>1, <3>2, <3>3, <3>5 DEF RecvdF
    <3>8. UNCHANGED <<SentB(t), done[t]>>
      BY <1>4 DEF SentB
    <3>9. QED
      BY <2>2, <3>1, <3>2, <3>4, <3>6, <3>7, <3>8
  <2>3. QED
    BY <2>1, <2>2
<1>6. TypeOK'
  <2>1. /\ inStash' \in [Stage -> [MicroBatch -> Nat]]
        /\ outStash' \in [Stage -> [MicroBatch -> Nat]]
    BY <1>1, <1>2, <1>3 DEF Forward, TypeOK
  <2>2. /\ gradOut' \in [Stage -> [MicroBatch -> Nat]]
        /\ dataPos' \in Nat /\ labelPos' \in Nat
    BY <1>1, <1>2 DEF Forward, TypeOK
  <2>3. /\ fwd' \in [Stage -> 0 .. NumMicroBatches]
        /\ pc' \in [Stage -> Entry \cup {"IDLE", "WAIT_ALL_SENDS", "RAISED"}]
    <3>1. fwd' = [fwd EXCEPT ![t] = fwd'[t]] /\ pc' = [pc EXCEPT ![t] = pc'[t]]
      BY <1>1 DEF Forward, TypeOK
    <3>2. QED
      BY <1>1, <1>5, <3>1 DEF TypeOK
  <2>4. QED
    BY <1>1, <1>4, <2>1, <2>2, <2>3 DEF TypeOK
<1>7. LocalStep(t)
  BY <1>1 DEF Forward, TypeOK, LocalStep, SameStage
<1>8. StashInv(t)'
  <2>1. /\ outStash[t] \in [MicroBatch -> Nat] /\ gradOut[t] \in [MicroBatch -> Nat]
        /\ fwd[t] \in Nat /\ bwd[t] \in Nat /\ done[t] \in Nat /\ MicroBatch \subseteq Nat
    BY <1>1, StageTypes DEF TypeOK, MicroBatch
  <2>2. \A mb \in MicroBatch : Payload(t, mb)' = Payload(t, mb)
    BY <1>4 DEF Payload
  <2>3. bwd[t] <= fwd[t] /\ FwdDone(t) = fwd[t]
    BY <1>1, <1>2, StageTypes DEF LocalInv, ForwardEntry, FwdDone
  <2>4. \A mb \in MicroBatch :
          outStash'[t][mb] = IF BwdDone(t)' <= mb /\ mb < FwdDone(t)' THEN Payload(t, mb)' ELSE None
    <3> SUFFICES ASSUME NEW mb \in MicroBatch
                 PROVE  outStash'[t][mb] = IF BwdDone(t)' <= mb /\ mb < FwdDone(t)'
                                           THEN Payload(t, mb)' ELSE None
      OBVIOUS
    <3>1. CASE mb = fwd[t]
      BY <1>3, <1>4, <1>5, <2>1, <2>2, <2>3, <3>1
    <3>2. CASE mb # fwd[t]
      <4>1. outStash'[t][mb] = outStash[t][mb]
        BY <1>4, <2>1, <3>2
      <4>2. mb < FwdDone(t)' <=> mb < FwdDone(t)
        BY <1>5, <2>1, <2>3, <3>2
      <4>3. outStash[t][mb] = IF BwdDone(t) <= mb /\ mb < FwdDone(t)
                              THEN Payload(t, mb) ELSE None
        BY <1>1 DEF StashInv
      <4>4. QED
        BY <1>5, <2>2, <4>1, <4>2, <4>3
    <3>3. QED
      BY <3>1, <3>2
  <2>5. \A mb \in MicroBatch : gradOut'[t][mb] \in {None, Payload(t, mb)'}
    BY <1>1, <1>3, <1>4, <2>1, <2>2 DEF StashInv
  <2>6. /\ t = FirstStage => dataPos' = done'[t] + FwdDone(t)'
        /\ t = LastStage => labelPos' = done'[t] + fwd'[t]
    BY <1>3, <1>4, <1>5, <2>1 DEF Payload
  <2>7. QED
    BY <1>5, <2>4, <2>5, <2>6 DEF StashInv
<1>9. LinkInv(t)'
  BY <1>1, <1>4, <1>5, <1>7, Neighbours, SameStageSame DEF LocalStep, LinkInv
<1>10. ASSUME t # FirstStage PROVE LinkInv(t - 1)'
  <2>1. t - 1 \in Stage /\ t - 1 # t /\ (t - 1) + 1 = t /\ LinkInv(t - 1)
    BY <1>1, <1>10, Neighbours
  <2>2. UNCHANGED <<SentF(t - 1), RecvdB(t - 1), done[t - 1]>>
    BY <1>7, <2>1, SameStageSame DEF LocalStep
  <2>3. QED
    BY <1>4, <1>5, <1>10, <2>1, <2>2 DEF LinkInv
<1>11. QED
  <2>1. fchan'[LastStage] = <<>> /\ bchan'[FirstStage] = <<>>
    BY <1>4 DEF IInv
  <2>2. QED
    BY <1>4, <1>5, <1>6, <1>7, <1>8, <1>9, <1>10, <2>1, StepFrame

LEMMA RecvBackwardIInv ==
  ASSUME IInv, NEW t \in Stage, RecvBackward(t)
  PROVE  IInv'
<1>1. TypeOK /\ LocalInv(t) /\ StashInv(t) /\ LinkInv(t) /\ (t # FirstStage => LinkInv(t - 1))
  BY Neighbours DEF IInv
<1>2. t # LastStage /\ t + 1 \in Stage
  BY <1>1, Neighbours DEF RecvBackward, LocalInv
<1>3. RecvdB(t) = done[t] + bwd[t] /\ Payload(t, bwd[t]) = RecvdB(t) + 1
  BY <1>1, StageTypes DEF RecvBackward, RecvdB, Payload
<1>4. /\ Head(bchan[t + 1]) = RecvdB(t) + 1
      /\ Tail(bchan[t + 1]) \in Seq(Nat)
      /\ Consecutive(Tail(bchan[t + 1]), RecvdB(t) + 1, SentB(t + 1))
  <2>1. Consecutive(bchan[t + 1], RecvdB(t), SentB(t + 1))
    BY <1>1, <1>2 DEF LinkInv
  <2>2. bchan[t + 1] \in Seq(Nat) /\ RecvdB(t) \in Nat /\ SentB(t + 1) \in Nat
    BY <1>1, <1>2, StageTypes
  <2>3. QED
    BY <2>1, <2>2, ConsecutiveTail DEF RecvBackward
<1>5. /\ pc[t] = "RECV_BACKWARD" /\ pc'[t] = "BACKWARD"
      /\ bwd[t] \in MicroBatch
      /\ UNCHANGED <<done, fwd, bwd, inStash, outStash, gradIn, dataPos, labelPos, fchan>>
  BY <1>1, StageTypes DEF RecvBackward, LocalInv, BackwardEntry, MicroBatch, TypeOK
<1>6. /\ gradOut'[t] = [gradOut[t] EXCEPT ![bwd[t]] = Payload(t, bwd[t])]
      /\ bchan'[t + 1] = Tail(bchan[t + 1])
  BY <1>1, <1>2, <1>3, <1>4, <1>5 DEF RecvBackward, TypeOK
<1>7. TypeOK'
  <2>1. Head(bchan[t + 1]) \in Nat
    BY <1>1, <1>4, StageTypes
  <2>2. gradOut' \in [Stage -> [MicroBatch -> Nat]] /\ bchan' \in [Stage -> Seq(Nat)]
    BY <1>1, <1>2, <1>4, <1>5, <2>1 DEF RecvBackward, TypeOK
  <2>3. QED
    BY <1>1, <1>5, <2>2 DEF RecvBackward, TypeOK, Entry, BackwardEntry
<1>8. LocalStep(t) /\ (\A s \in Stage : s # t + 1 => bchan'[s] = bchan[s])
  BY <1>1 DEF RecvBackward, TypeOK, LocalStep, SameStage
<1>9. LocalInv(t)'
  BY <1>1, <1>5 DEF LocalInv, ForwardEntry, BackwardEntry
<1>10. StashInv(t)'
  <2>1. gradOut[t] \in [MicroBatch -> Nat]
    BY <1>1 DEF TypeOK
  <2>2. FwdDone(t)' = FwdDone(t) /\ BwdDone(t)' = BwdDone(t)
    BY <1>5 DEF FwdDone, BwdDone
  <2>3. QED
    BY <1>1, <1>2, <1>5, <1>6, <2>1, <2>2 DEF StashInv, Payload
<1>11. /\ UNCHANGED <<SentF(t), SentB(t), RecvdF(t), done[t]>>
       /\ RecvdB(t)' = RecvdB(t) + 1
  BY <1>1, <1>5, StageTypes DEF SentF, SentB, RecvdB, RecvdF
<1>12. LinkInv(t)'
  <2>1. UNCHANGED <<RecvdF(t + 1), SentB(t + 1), done[t + 1]>>
    BY <1>2, <1>8, Neighbours, SameStageSame DEF LocalStep
  <2>2. QED
    BY <1>1, <1>2, <1>4, <1>5, <1>6, <1>11, <2>1 DEF LinkInv
<1>13. ASSUME t # FirstStage PROVE LinkInv(t - 1)'
  <2>1. t - 1 \in Stage /\ t - 1 # t /\ (t - 1) + 1 = t /\ LinkInv(t - 1) /\ t # t + 1
    BY <1>1, <1>13, Neighbours
  <2>2. UNCHANGED <<SentF(t - 1), RecvdB(t - 1), done[t - 1]>>
    BY <1>8, <2>1, SameStageSame DEF LocalStep
  <2>3. QED
    BY <1>5, <1>8, <1>11, <1>13, <2>1, <2>2 DEF LinkInv
<1>14. QED
  <2>1. fchan'[LastStage] = <<>> /\ bchan'[FirstStage] = <<>>
    <3>1. t + 1 # FirstStage
      BY Neighbours DEF FirstStage
    <3>2. QED
      BY <1>5, <1>8, <3>1, StageFacts DEF IInv
  <2>2. \A s \in Stage : s # t /\ s - 1 # t => bchan'[s] = bchan[s]
    BY <1>8, Neighbours
  <2>3. QED
    BY <1>5, <1>7, <1>8, <1>9, <1>10, <1>12, <1>13, <2>1, <2>2, StepFrame

LEMMA SendBackwardIInv ==
  ASSUME IInv, NEW t \in Stage, SendBackward(t)
  PROVE  IInv'
<1>1. TypeOK /\ LocalInv(t) /\ StashInv(t) /\ LinkInv(t) /\ (t # FirstStage => LinkInv(t - 1))
  BY Neighbours DEF IInv
<1>2. t # FirstStage /\ t - 1 \in Stage /\ t - 1 # LastStage /\ (t - 1) + 1 = t
  BY <1>1, Neighbours DEF SendBackward, LocalInv
<1>3. pc[t] = "SEND_BACKWARD" /\ bwd[t] < NumMicroBatches /\ bwd[t] \in MicroBatch
  BY <1>1, StageTypes DEF SendBackward, LocalInv, BackwardEntry, MicroBatch
<1>4. gradIn[t][bwd[t]] = SentB(t) + 1
  BY <1>1, <1>3, StageTypes DEF StashInv, Payload, SentB
<1>5. /\ pc'[t] = AfterBackward(t, bwd[t])
      /\ bwd'[t] = bwd[t] + 1
      /\ bchan'[t] = Append(bchan[t], SentB(t) + 1)
      /\ UNCHANGED <<done, fwd, inStash, outStash, gradOut, gradIn, dataPos, labelPos, fchan>>
  BY <1>1, <1>4 DEF SendBackward, TypeOK, stashes
<1>6. /\ Append(bchan[t], SentB(t) + 1) \in Seq(Nat)
      /\ Consecutive(Append(bchan[t], SentB(t) + 1), RecvdB(t - 1), SentB(t) + 1)
  <2>1. Consecutive(bchan[t], RecvdB(t - 1), SentB(t))
    BY <1>1, <1>2 DEF LinkInv
  <2>2. bchan[t] \in Seq(Nat) /\ RecvdB(t - 1) \in Nat /\ SentB(t) \in Nat /\ SentB(t) + 1 \in Nat
    BY <1>1, <1>2, StageTypes
  <2>3. QED
    BY <2>1, <2>2, ConsecutiveAppend
<1>7. /\ LocalInv(t)'
      /\ pc'[t] \in {"RECV_FORWARD", "FORWARD", "RECV_BACKWARD", "BACKWARD", "WAIT_ALL_SENDS"}
      /\ pc'[t] = "FORWARD" => t = FirstStage
      /\ pc'[t] = "BACKWARD" => t = LastStage
      /\ bwd[t] + 1 \in 0 .. NumMicroBatches
  BY <1>1, <1>3, <1>5, AfterBackwardLocal DEF BackwardEntry
<1>8. TypeOK'
  <2>1. bchan' \in [Stage -> Seq(Nat)]
    BY <1>1, <1>4, <1>6 DEF SendBackward, TypeOK
  <2>2. bwd' \in [Stage -> 0 .. NumMicroBatches]
    BY <1>1, <1>7 DEF SendBackward, TypeOK
  <2>3. pc' \in [Stage -> Entry \cup {"IDLE", "WAIT_ALL_SENDS", "RAISED"}]
    BY <1>1, <1>5, <1>7 DEF SendBackward, TypeOK, Entry, ForwardEntry, BackwardEntry
  <2>4. QED
    BY <1>1, <1>5, <2>1, <2>2, <2>3 DEF TypeOK
<1>9. LocalStep(t) /\ (\A s \in Stage : s # t => bchan'[s] = bchan[s])
  BY <1>1 DEF SendBackward, TypeOK, LocalStep, SameStage, stashes
<1>10. StashInv(t)'
  <2>1. FwdDone(t)' = FwdDone(t) /\ BwdDone(t)' = BwdDone(t)
    BY <1>1, <1>3, <1>5, <1>7, StageTypes DEF FwdDone, BwdDone
  <2>2. QED
    BY <1>1, <1>2, <1>5, <1>7, <2>1 DEF StashInv, Payload
<1>11. /\ UNCHANGED <<SentF(t), done[t], RecvdF(t)>>
       /\ t # LastStage => UNCHANGED RecvdB(t)
       /\ SentB(t)' = SentB(t) + 1
  <2>1. done[t] \in Nat /\ fwd[t] \in Nat /\ bwd[t] \in Nat
    BY <1>1, StageTypes
  <2>2. t # LastStage => UNCHANGED RecvdB(t)
    <3>1. RecvdB(t) = done[t] + bwd[t] + 1
      BY <1>3 DEF RecvdB
    <3>2. ASSUME t # LastStage PROVE RecvdB(t)' = done'[t] + bwd'[t] + 0
      <4>1. pc'[t] \notin {"BACKWARD", "SEND_BACKWARD"}
        BY <1>7, <3>2
      <4>2. QED
        BY <4>1 DEF RecvdB
    <3>3. done'[t] = done[t] /\ bwd'[t] = bwd[t] + 1
      BY <1>5
    <3>4. QED
      BY <2>1, <3>1, <3>2, <3>3
  <2>3. UNCHANGED <<SentF(t), done[t], RecvdF(t)>>
    BY <1>2, <1>3, <1>5, <1>7 DEF SentF, RecvdF
  <2>4. QED
    BY <1>5, <2>1, <2>2, <2>3 DEF SentB
<1>12. LinkInv(t - 1)'
  <2>1. UNCHANGED <<SentF(t - 1), RecvdB(t - 1), done[t - 1]>>
    BY <1>2, <1>9, Neighbours, SameStageSame DEF LocalStep
  <2>2. QED
    BY <1>1, <1>2, <1>5, <1>6, <1>11, <2>1 DEF LinkInv
<1>13. LinkInv(t)'
  <2>1. CASE t = LastStage
    BY <2>1 DEF LinkInv
  <2>2. CASE t # LastStage
    <3>1. t + 1 \in Stage /\ t + 1 # t
      BY <2>2, Neighbours
    <3>2. UNCHANGED <<RecvdF(t + 1), SentB(t + 1), done[t + 1], bchan[t + 1]>>
      BY <1>9, <3>1, SameStageSame DEF LocalStep
    <3>3. QED
      BY <1>1, <1>5, <1>11, <2>2, <3>2 DEF LinkInv
  <2>3. QED
    BY <2>1, <2>2
<1>14. QED
  <2>1. fchan'[LastStage] = <<>> /\ bchan'[FirstStage] = <<>>
    BY <1>2, <1>5, <1>9, StageFacts DEF IInv
  <2>2. QED
    BY <1>5, <1>7, <1>8, <1>9, <1>10, <1>12, <1>13, <2>1, Neighbours, StepFrame

LEMMA BackwardIInv ==
  ASSUME IInv, NEW t \in Stage, Backward(t)
  PROVE  IInv'
<1>1. TypeOK /\ LocalInv(t) /\ StashInv(t) /\ LinkInv(t) /\ (t # FirstStage => LinkInv(t - 1))
  BY Neighbours DEF IInv
<1>2. pc[t] = "BACKWARD" /\ bwd[t] < NumMicroBatches /\ bwd[t] \in MicroBatch
  BY <1>1, StageTypes DEF Backward, LocalInv, BackwardEntry, MicroBatch
<1>3. bwd[t] < fwd[t] /\ FwdDone(t) = fwd[t] /\ BwdDone(t) = bwd[t]
  BY <1>1, <1>2, StageTypes DEF LocalInv, BackwardEntry, FwdDone, BwdDone
<1>4. /\ outStash[t][bwd[t]] = Payload(t, bwd[t])
      /\ t # LastStage => gradOut[t][bwd[t]] = Payload(t, bwd[t])
      /\ Payload(t, bwd[t]) \in Nat /\ Payload(t, bwd[t]) # None
  <2>1. bwd[t] \in Nat /\ done[t] \in Nat
    BY <1>1, StageTypes
  <2>2. QED
    BY <1>1, <1>2, <1>3, <2>1 DEF StashInv, Payload, None
<1>5. /\ outStash'[t] = [outStash[t] EXCEPT ![bwd[t]] = None]
      /\ gradIn'[t][bwd[t]] = Payload(t, bwd[t])
      /\ bwd'[t] = IF t = FirstStage THEN bwd[t] + 1 ELSE bwd[t]
      /\ pc'[t] = IF t = FirstStage THEN AfterBackward(t, bwd[t]) ELSE "SEND_BACKWARD"
      /\ UNCHANGED <<done, fwd, gradOut, dataPos, labelPos, fchan, bchan>>
  BY <1>1, <1>2, <1>4 DEF Backward, TypeOK
<1>6. /\ pc'[t] \in Entry \cup {"WAIT_ALL_SENDS"}
      /\ bwd'[t] \in 0 .. NumMicroBatches
      /\ t # LastStage => UNCHANGED RecvdB(t)
      /\ t # FirstStage => UNCHANGED <<SentB(t), RecvdF(t)>>
      /\ UNCHANGED <<SentF(t), done[t]>>
      /\ FwdDone(t)' = fwd[t] /\ BwdDone(t)' = bwd[t] + 1
      /\ pc'[t] \notin {"SEND_FORWARD", "RAISED"}
      /\ pc'[t] = "FORWARD" => t = FirstStage
      /\ pc'[t] = "BACKWARD" => t = LastStage
      /\ LocalInv(t)'
  <2>1. CASE t # FirstStage
    <3>1. pc'[t] = "SEND_BACKWARD" /\ bwd'[t] = bwd[t]
      BY <1>5, <2>1
    <3>2. LocalInv(t)'
      BY <1>1, <1>2, <1>5, <2>1, <3>1 DEF LocalInv, ForwardEntry, BackwardEntry
    <3>3. bwd'[t] \in 0 .. NumMicroBatches
      BY <1>1, <3>1, StageTypes
    <3>4. QED
      BY <1>1, <1>2, <1>5, <2>1, <3>1, <3>2, <3>3, StageTypes
      DEF Entry, BackwardEntry, SentF, SentB, RecvdF, RecvdB, FwdDone, BwdDone
  <2>2. CASE t = FirstStage
    <3>1. pc'[t] = AfterBackward(t, bwd[t]) /\ bwd'[t] = bwd[t] + 1
      BY <1>5, <2>2
    <3>2. /\ LocalInv(t)'
          /\ pc'[t] \in {"RECV_FORWARD", "FORWARD", "RECV_BACKWARD", "BACKWARD", "WAIT_ALL_SENDS"}
          /\ pc'[t] = "FORWARD" => t = FirstStage
          /\ pc'[t] = "BACKWARD" => t = LastStage
          /\ bwd[t] + 1 \in 0 .. NumMicroBatches
      BY <1>1, <1>2, <1>5, <3>1, AfterBackwardLocal DEF BackwardEntry
    <3>3. done[t] \in Nat /\ fwd[t] \in Nat /\ bwd[t] \in Nat
      BY <1>1, StageTypes
    <3>4. /\ pc'[t] \in Entry \cup {"WAIT_ALL_SENDS"}
          /\ pc'[t] \notin {"SEND_FORWARD", "SEND_BACKWARD", "RAISED"}
      BY <3>2 DEF Entry, ForwardEntry, BackwardEntry
    <3>5. FwdDone(t)' = fwd[t] /\ BwdDone(t)' = bwd[t] + 1
      BY <1>5, <3>1, <3>3, <3>4 DEF FwdDone, BwdDone
    <3>6. t # LastStage => UNCHANGED RecvdB(t)
      BY <1>2, <1>5, <3>1, <3>2, <3>3 DEF RecvdB
    <3>7. UNCHANGED <<SentF(t), done[t]>>
      BY <1>5 DEF SentF
    <3>8. QED
      BY <2>2, <3>1, <3>2, <3>4, <3>5, <3>6, <3>7
  <2>3. QED
    BY <2>1, <2>2
<1>7. TypeOK'
  <2>1. /\ inStash' \in [Stage -> [MicroBatch -> Nat]]
        /\ outStash' \in [Stage -> [MicroBatch -> Nat]]
    BY <1>1, <1>2 DEF Backward, TypeOK, None
  <2>2. gradIn' \in [Stage -> [MicroBatch -> Nat]]
    BY <1>1, <1>2, <1>4 DEF Backward, TypeOK
  <2>3. /\ bwd' \in [Stage -> 0 .. NumMicroBatches]
        /\ pc' \in [Stage -> Entry \cup {"IDLE", "WAIT_ALL_SENDS", "RAISED"}]
    <3>1. bwd' = [bwd EXCEPT ![t] = bwd'[t]] /\ pc' = [pc EXCEPT ![t] = pc'[t]]
      BY <1>1 DEF Backward, TypeOK
    <3>2. QED
      BY <1>1, <1>6, <3>1 DEF TypeOK
  <2>4. QED
    BY <1>1, <1>5, <2>1, <2>2, <2>3 DEF TypeOK
<1>8. LocalStep(t)
  BY <1>1 DEF Backward, TypeOK, LocalStep, SameStage
<1>9. StashInv(t)'
  <2>1. /\ outStash[t] \in [MicroBatch -> Nat]
        /\ fwd[t] \in Nat /\ bwd[t] \in Nat /\ done[t] \in Nat /\ MicroBatch \subseteq Nat
    BY <1>1, StageTypes DEF TypeOK, MicroBatch
  <2>2. \A mb \in MicroBatch : Payload(t, mb)' = Payload(t, mb)
    BY <1>5 DEF Payload
  <2>3. \A mb \in MicroBatch :
          outStash'[t][mb] = IF BwdDone(t)' <= mb /\ mb < FwdDone(t)' THEN Payload(t, mb)' ELSE None
    <3> SUFFICES ASSUME NEW mb \in MicroBatch
                 PROVE  outStash'[t][mb] = IF BwdDone(t)' <= mb /\ mb < FwdDone(t)'
                                           THEN Payload(t, mb)' ELSE None
      OBVIOUS
    <3>1. CASE mb = bwd[t]
      BY <1>5, <1>6, <2>1, <3>1
    <3>2. CASE mb # bwd[t]
      <4>1. outStash'[t][mb] = outStash[t][mb]
        BY <1>5, <2>1, <3>2
      <4>2. BwdDone(t)' <= mb <=> BwdDone(t) <= mb
        BY <1>3, <1>6, <2>1, <3>2
      <4>3. outStash[t][mb] = IF BwdDone(t) <= mb /\ mb < FwdDone(t)
                              THEN Payload(t, mb) ELSE None
        BY <1>1 DEF StashInv
      <4>4. QED
        BY <1>3, <1>6, <2>2, <4>1, <4>2, <4>3
    <3>3. QED
      BY <3>1, <3>2
  <2>4. \A mb \in MicroBatch : gradOut'[t][mb] \in {None, Payload(t, mb)'}
    BY <1>1, <1>5, <2>2 DEF StashInv
  <2>5. pc'[t] = "SEND_BACKWARD" => gradIn'[t][bwd'[t]] = done'[t] + bwd'[t] + 1
    <3>1. CASE t # FirstStage
      <4>1. bwd'[t] = bwd[t] /\ done'[t] = done[t]
        BY <1>5, <3>1
      <4>2. gradIn'[t][bwd[t]] = done[t] + bwd[t] + 1
        BY <1>5 DEF Payload
      <4>3. QED
        BY <4>1, <4>2
    <3>2. CASE t = FirstStage
      BY <1>6, <3>2 DEF LocalInv
    <3>3. QED
      BY <3>1, <3>2
  <2>6. /\ t = FirstStage => dataPos' = done'[t] + FwdDone(t)'
        /\ t = LastStage => labelPos' = done'[t] + fwd'[t]
    <3>1. /\ t = FirstStage => dataPos = done[t] + FwdDone(t)
          /\ t = LastStage => labelPos = done[t] + fwd[t]
      BY <1>1 DEF StashInv
    <3>2. FwdDone(t)' = FwdDone(t) /\ UNCHANGED <<done, fwd, dataPos, labelPos>>
      BY <1>3, <1>5, <1>6
    <3>3. QED
      BY <3>1, <3>2
  <2>7. /\ ~(pc'[t] = "FORWARD" /\ t # FirstStage)
        /\ ~(pc'[t] = "BACKWARD" /\ t # LastStage)
    BY <1>6
  <2>8. QED
    BY <2>3, <2>4, <2>5, <2>6, <2>7 DEF StashInv, Payload
<1>10. LinkInv(t)'
  BY <1>1, <1>5, <1>6, <1>8, Neighbours, SameStageSame DEF LocalStep, LinkInv
<1>11. ASSUME t # FirstStage PROVE LinkInv(t - 1)'
  <2>1. t - 1 \in Stage /\ t - 1 # t /\ (t - 1) + 1 = t /\ LinkInv(t - 1)
    BY <1>1, <1>11, Neighbours
  <2>2. UNCHANGED <<SentF(t - 1), RecvdB(t - 1), done[t - 1]>>
    BY <1>8, <2>1, SameStageSame DEF LocalStep
  <2>3. QED
    BY <1>5, <1>6, <1>11, <2>1, <2>2 DEF LinkInv
<1>12. QED
  <2>1. fchan'[LastStage] = <<>> /\ bchan'[FirstStage] = <<>>
    BY <1>5 DEF IInv
  <2>2. QED
    BY <1>5, <1>6, <1>7, <1>8, <1>9, <1>10, <1>11, <2>1, StepFrame

LEMMA WaitAllSendsIInv ==
  ASSUME IInv, NEW t \in Stage, WaitAllSends(t)
  PROVE  IInv'
<1>1. TypeOK /\ LocalInv(t) /\ StashInv(t) /\ LinkInv(t) /\ (t # FirstStage => LinkInv(t - 1))
  BY Neighbours DEF IInv
<1>2. /\ pc[t] = "WAIT_ALL_SENDS"
      /\ fwd[t] = NumMicroBatches /\ bwd[t] = NumMicroBatches
      /\ FwdDone(t) = NumMicroBatches /\ BwdDone(t) = NumMicroBatches
  BY <1>1, StageFacts DEF WaitAllSends, LocalInv, FwdDone, BwdDone
<1>3. done[t] \in Nat /\ NumMicroBatches \in Nat \ {0} /\ MicroBatch \subseteq 0 .. NumMicroBatches - 1
  BY <1>1, StageTypes, StageFacts DEF MicroBatch
<1>4. /\ done'[t] = done[t] + NumMicroBatches /\ fwd'[t] = 0 /\ bwd'[t] = 0
      /\ pc'[t] = "IDLE"
      /\ gradOut'[t] = Empty
      /\ UNCHANGED <<inStash, outStash, dataPos, labelPos, fchan, bchan>>
  BY <1>1 DEF WaitAllSends, TypeOK
<1>5. TypeOK'
  <2>1. Empty \in [MicroBatch -> Nat]
    BY DEF Empty, None
  <2>2. done' \in [Stage -> Nat]
    BY <1>1, <1>3 DEF WaitAllSends, TypeOK
  <2>3. /\ fwd' \in [Stage -> 0 .. NumMicroBatches]
        /\ bwd' \in [Stage -> 0 .. NumMicroBatches]
    BY <1>1, <1>3 DEF WaitAllSends, TypeOK
  <2>4. QED
    BY <1>1, <1>4, <2>1, <2>2, <2>3 DEF WaitAllSends, TypeOK
<1>6. LocalStep(t)
  BY <1>1 DEF WaitAllSends, TypeOK, LocalStep, SameStage
<1>7. LocalInv(t)'
  BY <1>4 DEF LocalInv, ForwardEntry, BackwardEntry
<1>8. StashInv(t)'
  <2>1. FwdDone(t)' = 0 /\ BwdDone(t)' = 0
    BY <1>4 DEF FwdDone, BwdDone
  <2>2. \A mb \in MicroBatch : outStash[t][mb] = None
    BY <1>1, <1>2, <1>3 DEF StashInv
  <2>3. \A mb \in MicroBatch : gradOut'[t][mb] = None
    BY <1>4 DEF Empty
  <2>4. /\ t = FirstStage => dataPos' = done'[t] + 0
        /\ t = LastStage => labelPos' = done'[t] + 0
    BY <1>1, <1>2, <1>3, <1>4 DEF StashInv
  <2>5. ~(0 <= 0 /\ 0 < 0) /\ \A mb \in MicroBatch : ~(mb < 0)
    BY <1>3
  <2>6. QED
    BY <1>4, <2>1, <2>2, <2>3, <2>4, <2>5 DEF StashInv
<1>9. UNCHANGED <<SentF(t), SentB(t), RecvdF(t), RecvdB(t)>>
  <2>1. /\ SentF(t) = done[t] + NumMicroBatches /\ SentB(t) = done[t] + NumMicroBatches
        /\ RecvdF(t) = done[t] + NumMicroBatches + 0 /\ RecvdB(t) = done[t] + NumMicroBatches + 0
    BY <1>2 DEF SentF, SentB, RecvdF, RecvdB
  <2>2. /\ SentF(t)' = done'[t] + 0 /\ SentB(t)' = done'[t] + 0
        /\ RecvdF(t)' = done'[t] + 0 + 0 /\ RecvdB(t)' = done'[t] + 0 + 0
    BY <1>4 DEF SentF, SentB, RecvdF, RecvdB
  <2>3. QED
    BY <1>3, <1>4, <2>1, <2>2
<1>10. LinkInv(t)'
  <2>1. CASE t = LastStage
    BY <2>1 DEF LinkInv
  <2>2. CASE t # LastStage
    <3>1. t + 1 \in Stage /\ t + 1 # t
      BY <2>2, Neighbours
    <3>2. UNCHANGED <<RecvdF(t + 1), SentB(t + 1), done[t + 1]>>
      BY <1>6, <3>1, SameStageSame DEF LocalStep
    <3>3. /\ Consecutive(fchan[t], RecvdF(t + 1), SentF(t))
          /\ Consecutive(bchan[t + 1], RecvdB(t), SentB(t + 1))
          /\ done[t + 1] - done[t] \in {-NumMicroBatches, 0, NumMicroBatches}
      BY <1>1, <2>2 DEF LinkInv
    <3>4. done[t] + NumMicroBatches <= done[t + 1] + bwd[t + 1]
      <4>1. RecvdB(t) \in Nat /\ SentB(t + 1) \in Nat /\ bchan[t + 1] \in Seq(Nat)
        BY <1>1, <3>1, StageTypes
      <4>2. RecvdB(t) <= SentB(t + 1)
        BY <3>3, <4>1, ConsecutiveEmpty
      <4>3. RecvdB(t) = done[t] + NumMicroBatches + 0
        BY <1>2 DEF RecvdB
      <4>4. QED
        BY <1>3, <4>2, <4>3 DEF SentB
    <3>5. done[t + 1] \in Nat /\ bwd[t + 1] \in 0 .. NumMicroBatches
      BY <1>1, <3>1, StageTypes
    <3>6. done[t + 1] - done'[t] \in {-NumMicroBatches, 0, NumMicroBatches}
      BY <1>3, <1>4, <3>3, <3>4, <3>5
    <3>7. QED
      BY <1>4, <1>9, <3>2, <3>3, <3>6 DEF LinkInv
  <2>3. QED
    BY <2>1, <2>2
<1>11. ASSUME t # FirstStage PROVE LinkInv(t - 1)'
  <2>1. t - 1 \in Stage /\ t - 1 # t /\ (t - 1) + 1 = t /\ t - 1 # LastStage
    BY <1>11, Neighbours
  <2>2. UNCHANGED <<SentF(t - 1), RecvdB(t - 1), done[t - 1]>>
    BY <1>6, <2>1, SameStageSame DEF LocalStep
  <2>3. /\ Consecutive(fchan[t - 1], RecvdF(t), SentF(t - 1))
        /\ Consecutive(bchan[t], RecvdB(t - 1), SentB(t))
        /\ done[t] - done[t - 1] \in {-NumMicroBatches, 0, NumMicroBatches}
    BY <1>1, <1>11, <2>1 DEF LinkInv
  <2>4. done[t] + NumMicroBatches <= SentF(t - 1)
    <3>1. RecvdF(t) \in Nat /\ SentF(t - 1) \in Nat /\ fchan[t - 1] \in Seq(Nat)
      BY <1>1, <2>1, StageTypes
    <3>2. RecvdF(t) <= SentF(t - 1)
      BY <2>3, <3>1, ConsecutiveEmpty
    <3>3. RecvdF(t) = done[t] + NumMicroBatches + 0
      BY <1>2 DEF RecvdF
    <3>4. QED
      BY <1>3, <3>2, <3>3
  <2>5. SentF(t - 1) <= done[t - 1] + NumMicroBatches
    <3>1. done[t - 1] \in Nat /\ fwd[t - 1] \in 0 .. NumMicroBatches
      BY <1>1, <2>1, StageTypes
    <3>2. QED
      BY <1>3, <3>1 DEF SentF
  <2>6. done'[t] - done[t - 1] \in {-NumMicroBatches, 0, NumMicroBatches}
    <3>1. done[t - 1] \in Nat /\ SentF(t - 1) \in Nat
      BY <1>1, <2>1, StageTypes
    <3>2. QED
      BY <1>3, <1>4, <2>3, <2>4, <2>5, <3>1
  <2>7. QED
    BY <1>4, <1>9, <2>1, <2>2, <2>3, <2>6 DEF LinkInv
<1>12. QED
  BY <1>4, <1>5, <1>6, <1>7, <1>8, <1>10, <1>11, StepFrame DEF IInv
-----------------------------------------------------------------------------
(* Every step preserves the invariant. *)
LEMMA NextIInv ==
  ASSUME IInv, [Next]_vars
  PROVE  IInv'
<1>1. ASSUME NEW s \in Stage, StageNext(s) PROVE IInv'
  BY <1>1, BeginStepIInv, RecvForwardIInv, ForwardIInv, SendForwardIInv,
     RecvBackwardIInv, BackwardIInv, SendBackwardIInv, WaitAllSendsIInv DEF StageNext
<1>2. ASSUME UNCHANGED vars PROVE IInv'
  BY <1>2 DEF vars, stashes, IInv, TypeOK, LocalInv, StashInv, LinkInv, FwdDone, BwdDone,
     Payload, SentF, SentB, RecvdF, RecvdB, Consecutive
<1>3. QED
  BY <1>1, <1>2 DEF Next, Terminating

(* The inductive invariant. *)
THEOREM Invariance == Spec => []IInv
BY InitIInv, NextIInv, PTL DEF Spec

(* Every variable keeps its type; in particular a rank never leaves the     *)
(* entries for which train_step has a branch (dualpipe.py:647-715).         *)
THEOREM TypeCorrect == Spec => []TypeOK
<1>1. IInv => TypeOK
  BY DEF IInv
<1>2. QED
  BY <1>1, Invariance, PTL
-----------------------------------------------------------------------------
(* What the invariant says of the stashes. *)

(* A gradient or a label batch is always attributed to the micro-batch it   *)
(* was computed from, and no pass finds its stash empty: the matching by    *)
(* position of the untagged isend / irecv of PipelineStage is sound.        *)
THEOREM GradientsMatched == Spec => []MatchedGradients
<1>1. IInv => MatchedGradients
  BY DEF IInv, LocalInv, StashInv, MatchedGradients
<1>2. QED
  BY <1>1, Invariance, PTL

(* The activation stashed for a micro-batch is that micro-batch of the       *)
(* train_step its stage is in, however far ahead the neighbours are.        *)
THEOREM ActivationsMatched == Spec => []MatchedActivations
<1>1. IInv => MatchedActivations
  BY DEF IInv, StashInv, MatchedActivations, Payload
<1>2. QED
  BY <1>1, Invariance, PTL

(* A stage is at most NumWarmup + 1 micro-batches further forward than back. *)
LEMMA Ahead ==
  ASSUME IInv, NEW s \in Stage
  PROVE  /\ FwdDone(s) - BwdDone(s) <= NumWarmup(s) + 1
         /\ FwdDone(s) \in Nat /\ BwdDone(s) \in Nat
<1>1. TypeOK /\ LocalInv(s) /\ pc[s] \in Entry \cup {"IDLE", "WAIT_ALL_SENDS"}
  BY DEF IInv, TypeOK, LocalInv
<1>2. /\ fwd[s] \in Nat /\ bwd[s] \in Nat /\ NumWarmup(s) \in Nat
      /\ fwd[s] <= NumMicroBatches /\ NumMicroBatches \in Nat
  BY <1>1, StageTypes
<1>3. CASE pc[s] \in ForwardEntry
  <2>1. FwdDone(s) <= fwd[s] + 1 /\ FwdDone(s) \in Nat /\ BwdDone(s) = bwd[s]
    BY <1>2, <1>3 DEF FwdDone, BwdDone, ForwardEntry
  <2>2. bwd[s] = IF fwd[s] <= NumWarmup(s) THEN 0 ELSE fwd[s] - NumWarmup(s)
    BY <1>1, <1>3 DEF LocalInv
  <2>3. QED
    BY <1>2, <2>1, <2>2
<1>4. CASE pc[s] \in BackwardEntry
  <2>1. BwdDone(s) >= bwd[s] /\ BwdDone(s) \in Nat /\ FwdDone(s) = fwd[s]
    BY <1>2, <1>4 DEF FwdDone, BwdDone, BackwardEntry
  <2>2. fwd[s] <= NumWarmup(s) + bwd[s] + 1
    BY <1>1, <1>2, <1>4 DEF LocalInv
  <2>3. QED
    BY <1>2, <2>1, <2>2
<1>5. CASE pc[s] \in {"IDLE", "WAIT_ALL_SENDS"}
  <2>1. FwdDone(s) = fwd[s] /\ BwdDone(s) = bwd[s] /\ fwd[s] = bwd[s]
    BY <1>1, <1>2, <1>5 DEF FwdDone, BwdDone, LocalInv
  <2>2. QED
    BY <1>2, <2>1
<1>6. QED
  BY <1>1, <1>3, <1>4, <1>5 DEF Entry

(* The memory bound of the 1F1B schedule: at most one stashed activation    *)
(* per stage from s to the end of the pipeline.                             *)
THEOREM StashBounded == Spec => []StashBound
<1>1. ASSUME IInv, NEW s \in Stage PROVE Cardinality(Stashed(s)) <= NumStages - s
  <2> DEFINE lo == BwdDone(s)
             hi == FwdDone(s) - 1
  <2>1. lo \in Int /\ hi \in Int /\ hi - lo + 1 <= NumWarmup(s) + 1
    BY <1>1, Ahead
  <2>2. NumWarmup(s) + 1 <= NumStages - s /\ 0 < NumStages - s /\ NumWarmup(s) \in Nat
    BY DualPipeAssumption DEF NumWarmup, Stage
  <2>3. Stashed(s) \in SUBSET (lo .. hi)
    <3>1. ASSUME NEW mb \in MicroBatch, outStash[s][mb] # None PROVE mb \in lo .. hi
      <4>1. BwdDone(s) <= mb /\ mb < FwdDone(s)
        BY <1>1, <3>1 DEF IInv, StashInv
      <4>2. mb \in Int
        BY DEF MicroBatch
      <4>3. QED
        BY <1>1, <4>1, <4>2, Ahead
    <3>2. QED
      BY <3>1 DEF Stashed
  <2> HIDE DEF lo, hi
  <2>4. /\ IsFiniteSet(lo .. hi)
        /\ Cardinality(lo .. hi) = IF lo > hi THEN 0 ELSE hi - lo + 1
    BY <2>1, FS_Interval
  <2>5. /\ Cardinality(Stashed(s)) <= Cardinality(lo .. hi)
        /\ IsFiniteSet(Stashed(s))
    BY <2>3, <2>4, FS_Subset
  <2>6. Cardinality(Stashed(s)) \in Nat
    BY <2>5, FS_CardinalityType
  <2>7. CASE lo > hi
    BY <2>2, <2>4, <2>5, <2>6, <2>7, StageFacts
  <2>8. CASE ~(lo > hi)
    <3>1. s \in Nat /\ NumStages \in Nat
      BY StageFacts
    <3>2. QED
      BY <2>1, <2>2, <2>4, <2>5, <2>6, <2>8, <3>1
  <2>9. QED
    BY <2>7, <2>8
<1>2. IInv => StashBound
  BY <1>1 DEF StashBound
<1>3. QED
  BY <1>2, Invariance, PTL
-----------------------------------------------------------------------------
(* No circular wait. If no rank can step, then every rank is at a blocking   *)
(* entry or idle for good. Consider the last one waiting for a gradient,    *)
(* then the first one waiting for an activation: in both cases what the     *)
(* links hold shows that the rank it waits for is not blocked.              *)

LEMMA FirstOf ==
  ASSUME NEW T \in SUBSET Stage, T # {}
  PROVE  \E x \in T : \A y \in T : x <= y
<1> DEFINE R == {p \in Nat \X Nat : p[1] < p[2]}
<1>1. IsWellFoundedOn(R, Nat)
  <2>1. IsWellFoundedOn(OpToRel(<, Nat), Nat)
    BY NatLessThanWellFounded
  <2>2. R \cap (Nat \X Nat) \subseteq OpToRel(<, Nat)
    BY DEF OpToRel
  <2> HIDE DEF R
  <2>3. QED
    BY <2>1, <2>2, IsWellFoundedOnSubrelation
<1>2. T \subseteq Nat
  BY StageFacts
<1>3. \E x \in T : \A y \in T : ~ (<<y, x>> \in R)
  <2> HIDE DEF R
  <2> QED
    BY <1>1, <1>2, WFMin
<1>4. \A x, y \in Nat : <<y, x>> \in R <=> y < x
  OBVIOUS
<1>5. \A x, y \in Nat : x <= y <=> ~ (y < x)
  OBVIOUS
<1>6. QED
  <2> HIDE DEF R
  <2> QED
    BY <1>2, <1>3, <1>4, <1>5

LEMMA LastOf ==
  ASSUME NEW T \in SUBSET Stage, T # {}
  PROVE  \E x \in T : \A y \in T : y <= x
<1> DEFINE U == {s \in Stage : LastStage - s \in T}
<1>1. \A s \in Stage : LastStage - s \in Stage /\ LastStage - (LastStage - s) = s
  BY DualPipeAssumption DEF Stage, LastStage
<1>2. U \in SUBSET Stage /\ U # {}
  BY <1>1
<1>3. PICK u \in U : \A v \in U : u <= v
  <2> HIDE DEF U
  <2> QED
    BY <1>2, FirstOf
<1>4. ASSUME NEW y \in T PROVE y <= LastStage - u
  <2>1. LastStage - y \in U
    BY <1>1
  <2>2. u \in Stage /\ u <= LastStage - y
    BY <1>3, <2>1
  <2>3. QED
    BY <2>2, StageFacts DEF Stage, LastStage
<1>5. QED
  BY <1>3, <1>4

(* What a link says of its two ends. *)
LEMMA LinkFlow ==
  ASSUME IInv, NEW t \in Stage, t # LastStage
  PROVE  /\ t + 1 \in Stage
         /\ RecvdF(t + 1) <= SentF(t)
         /\ fchan[t] = <<>> <=> RecvdF(t + 1) = SentF(t)
         /\ RecvdB(t) <= SentB(t + 1)
         /\ bchan[t + 1] = <<>> <=> RecvdB(t) = SentB(t + 1)
         /\ done[t + 1] - done[t] \in {-NumMicroBatches, 0, NumMicroBatches}
<1>1. t + 1 \in Stage /\ TypeOK /\ LinkInv(t)
  BY Neighbours DEF IInv
<1>2. /\ fchan[t] \in Seq(Nat) /\ RecvdF(t + 1) \in Nat /\ SentF(t) \in Nat
      /\ bchan[t + 1] \in Seq(Nat) /\ RecvdB(t) \in Nat /\ SentB(t + 1) \in Nat
  BY <1>1, StageTypes
<1>3. /\ Consecutive(fchan[t], RecvdF(t + 1), SentF(t))
      /\ Consecutive(bchan[t + 1], RecvdB(t), SentB(t + 1))
      /\ done[t + 1] - done[t] \in {-NumMicroBatches, 0, NumMicroBatches}
  BY <1>1 DEF LinkInv
<1>4. QED
  BY <1>1, <1>2, <1>3, ConsecutiveEmpty

(* What the entry of a rank says of its counters. *)
LEMMA Counters ==
  ASSUME IInv, NEW t \in Stage
  PROVE  /\ done[t] \in Nat /\ fwd[t] \in Nat /\ bwd[t] \in Nat
         /\ SentF(t) = done[t] + fwd[t] /\ SentB(t) = done[t] + bwd[t]
         /\ fwd[t] <= NumMicroBatches /\ bwd[t] <= fwd[t]
         /\ done[t] + fwd[t] <= RecvdF(t) /\ done[t] + bwd[t] <= RecvdB(t)
         /\ pc[t] \notin {"FORWARD", "SEND_FORWARD"} => RecvdF(t) = done[t] + fwd[t]
         /\ pc[t] \notin {"BACKWARD", "SEND_BACKWARD"} => RecvdB(t) = done[t] + bwd[t]
         /\ pc[t] = "WAIT_ALL_SENDS" => fwd[t] = NumMicroBatches /\ bwd[t] = NumMicroBatches
         /\ pc[t] = "IDLE" => fwd[t] = 0 /\ bwd[t] = 0
         /\ pc[t] # "IDLE" => done[t] < MaxBatches
<1>1. TypeOK /\ LocalInv(t) /\ pc[t] \in Entry \cup {"IDLE", "WAIT_ALL_SENDS"}
  BY DEF IInv, TypeOK, LocalInv
<1>2. /\ done[t] \in Nat /\ fwd[t] \in Nat /\ bwd[t] \in Nat /\ fwd[t] <= NumMicroBatches
      /\ NumWarmup(t) \in Nat /\ NumMicroBatches \in Nat
  BY <1>1, StageTypes
<1>3. /\ SentF(t) = done[t] + fwd[t] /\ SentB(t) = done[t] + bwd[t]
      /\ done[t] + fwd[t] <= RecvdF(t) /\ done[t] + bwd[t] <= RecvdB(t)
      /\ pc[t] \notin {"FORWARD", "SEND_FORWARD"} => RecvdF(t) = done[t] + fwd[t]
      /\ pc[t] \notin {"BACKWARD", "SEND_BACKWARD"} => RecvdB(t) = done[t] + bwd[t]
  BY <1>2 DEF SentF, SentB, RecvdF, RecvdB
<1>4. bwd[t] <= fwd[t]
  <2>1. CASE pc[t] \in ForwardEntry
    BY <1>1, <1>2, <2>1 DEF LocalInv
  <2>2. CASE pc[t] \in BackwardEntry
    BY <1>1, <1>2, <2>2 DEF LocalInv
  <2>3. CASE pc[t] \in {"IDLE", "WAIT_ALL_SENDS"}
    BY <1>1, <1>2, <2>3 DEF LocalInv
  <2>4. QED
    BY <1>1, <2>1, <2>2, <2>3 DEF Entry
<1>5. QED
  BY <1>1, <1>2, <1>3, <1>4 DEF LocalInv

(* A rank in wait_all_sends does not wait for its activations, and waits    *)
(* for its gradients only while the previous rank is about to receive one.  *)
LEMMA WaitEnds ==
  ASSUME IInv, NEW t \in Stage, pc[t] = "WAIT_ALL_SENDS",
         t # FirstStage => pc[t - 1] \in {"WAIT_ALL_SENDS", "IDLE"}
  PROVE  CanStep(t)
<1>1. fchan[t] = <<>>
  <2>1. CASE t = LastStage
    BY <2>1 DEF IInv
  <2>2. CASE t # LastStage
    <3>1. /\ t + 1 \in Stage
          /\ RecvdF(t + 1) <= SentF(t) /\ RecvdB(t) <= SentB(t + 1)
          /\ fchan[t] = <<>> <=> RecvdF(t + 1) = SentF(t)
      BY <2>2, LinkFlow
    <3>2. SentF(t) = done[t] + NumMicroBatches /\ RecvdB(t) = done[t] + NumMicroBatches
      BY Counters
    <3>3. SentB(t + 1) <= RecvdF(t + 1)
      <4>1. /\ done[t + 1] \in Nat /\ fwd[t + 1] \in Nat /\ bwd[t + 1] \in Nat
            /\ bwd[t + 1] <= fwd[t + 1]
            /\ SentB(t + 1) = done[t + 1] + bwd[t + 1]
            /\ done[t + 1] + fwd[t + 1] <= RecvdF(t + 1)
        BY <3>1, Counters
      <4>2. RecvdF(t + 1) \in Nat
        BY <3>1, StageTypes DEF IInv
      <4>3. QED
        BY <4>1, <4>2
    <3>4. /\ RecvdF(t + 1) \in Nat /\ SentB(t + 1) \in Nat
          /\ done[t] \in Nat /\ NumMicroBatches \in Nat
      BY <3>1, StageTypes DEF IInv
    <3>5. QED
      BY <3>1, <3>2, <3>3, <3>4
  <2>3. QED
    BY <2>1, <2>2
<1>2. bchan[t] = <<>>
  <2>1. CASE t = FirstStage
    BY <2>1 DEF IInv
  <2>2. CASE t # FirstStage
    <3>1. t - 1 \in Stage /\ t - 1 # LastStage /\ (t - 1) + 1 = t
      BY <2>2, Neighbours
    <3>2. /\ RecvdF(t) <= SentF(t - 1) /\ RecvdB(t - 1) <= SentB(t)
          /\ bchan[t] = <<>> <=> RecvdB(t - 1) = SentB(t)
      BY <3>1, LinkFlow
    <3>3. RecvdF(t) = done[t] + NumMicroBatches /\ SentB(t) = done[t] + NumMicroBatches
      BY Counters
    <3>4. SentF(t - 1) = RecvdB(t - 1)
      BY <2>2, <3>1, Counters
    <3>5. /\ RecvdB(t - 1) \in Nat /\ SentF(t - 1) \in Nat
          /\ done[t] \in Nat /\ NumMicroBatches \in Nat
      BY <3>1, StageTypes DEF IInv
    <3>6. QED
      BY <3>2, <3>3, <3>4, <3>5
  <2>3. QED
    BY <2>1, <2>2
<1>3. QED
  BY <1>1, <1>2 DEF CanStep

(* A rank that cannot step, by the entry it is at. *)
LEMMA Blocked ==
  ASSUME IInv, NEW t \in Stage, ~CanStep(t)
  PROVE  /\ pc[t] \in {"RECV_FORWARD", "RECV_BACKWARD", "WAIT_ALL_SENDS", "IDLE"}
         /\ pc[t] = "IDLE" => done[t] >= MaxBatches
         /\ pc[t] = "RECV_FORWARD" => t # FirstStage /\ fchan[t - 1] = <<>>
         /\ pc[t] = "RECV_BACKWARD" => t # LastStage /\ bchan[t + 1] = <<>>
<1>1. /\ TypeOK /\ LocalInv(t) /\ done[t] \in Nat /\ MaxBatches \in Nat
  BY StageTypes, StageFacts DEF IInv
<1>2. pc[t] \in Entry \cup {"IDLE", "WAIT_ALL_SENDS"}
  BY <1>1 DEF TypeOK, LocalInv
<1>3. pc[t] = "IDLE" => done[t] >= MaxBatches
  BY <1>1 DEF CanStep
<1>4. QED
  BY <1>1, <1>2, <1>3 DEF CanStep, LocalInv, Entry, ForwardEntry, BackwardEntry

(* Some rank can always execute its next schedule entry, until every rank   *)
(* has returned from its last train_step: neither the blocking receives nor *)
(* wait_all_sends ever wait for one another in a circle, for any number of  *)
(* stages and micro-batches.                                                *)
THEOREM DeadlockFree == Spec => []NoCircularWait
<1>1. ASSUME IInv, \A s \in Stage : ~CanStep(s) PROVE Finished
  <2>1. \A s \in Stage : pc[s] # "RECV_BACKWARD"
    <3> SUFFICES ASSUME NEW s0 \in Stage, pc[s0] = "RECV_BACKWARD" PROVE FALSE
      OBVIOUS
    <3> DEFINE T == {s \in Stage : pc[s] = "RECV_BACKWARD"}
    <3>1. PICK t \in T : \A y \in T : y <= t
      BY LastOf
    <3>2. /\ t \in Stage /\ pc[t] = "RECV_BACKWARD" /\ t # LastStage
          /\ t + 1 \in Stage /\ bchan[t + 1] = <<>> /\ pc[t + 1] # "RECV_BACKWARD"
      <4>1. t \in Stage /\ pc[t] = "RECV_BACKWARD"
        BY <3>1
      <4>2. t # LastStage /\ bchan[t + 1] = <<>> /\ t + 1 \in Stage
        BY <1>1, <4>1, Blocked, Neighbours
      <4>3. ~(t + 1 <= t)
        BY <4>1, StageFacts
      <4>4. QED
        BY <3>1, <4>1, <4>2, <4>3
    <3> HIDE DEF T
    <3>3. /\ done[t] \in Nat /\ fwd[t] \in Nat /\ bwd[t] \in Nat /\ done[t] < MaxBatches
          /\ SentF(t) = done[t] + fwd[t] /\ RecvdB(t) = done[t] + bwd[t]
          /\ NumMicroBatches \in Nat \ {0} /\ MaxBatches \in Nat
      BY <1>1, <3>2, Counters, StageFacts
    <3>4. /\ done[t + 1] \in Nat /\ fwd[t + 1] \in Nat /\ bwd[t + 1] \in Nat
          /\ SentB(t + 1) = done[t + 1] + bwd[t + 1]
      BY <1>1, <3>2, Counters
    <3>5. /\ done[t] + bwd[t] = done[t + 1] + bwd[t + 1]
          /\ done[t + 1] - done[t] \in {-NumMicroBatches, 0, NumMicroBatches}
      BY <1>1, <3>2, <3>3, <3>4, LinkFlow
    <3>6. /\ bwd[t] < NumMicroBatches
          /\ fwd[t] = IF NumWarmup(t) + bwd[t] + 1 < NumMicroBatches
                      THEN NumWarmup(t) + bwd[t] + 1 ELSE NumMicroBatches
      BY <1>1, <3>2 DEF IInv, LocalInv, BackwardEntry
    <3>7. CASE pc[t + 1] = "RECV_FORWARD"
      <4>1. fchan[t] = <<>>
        <5>1. fchan[(t + 1) - 1] = <<>>
          BY <1>1, <3>2, <3>7, Blocked
        <5>2. (t + 1) - 1 = t
          BY <3>2, Neighbours
        <5>3. QED
          BY <5>1, <5>2
      <4>2. done[t + 1] + fwd[t + 1] = done[t] + fwd[t]
        <5>1. RecvdF(t + 1) = done[t + 1] + fwd[t + 1]
          BY <1>1, <3>2, <3>7, Counters
        <5>2. QED
          BY <1>1, <3>2, <3>3, <4>1, <5>1, LinkFlow
      <4>3. /\ fwd[t + 1] < NumMicroBatches
            /\ bwd[t + 1] = IF fwd[t + 1] <= NumWarmup(t + 1) THEN 0
                            ELSE fwd[t + 1] - NumWarmup(t + 1)
        BY <1>1, <3>2, <3>7 DEF IInv, LocalInv, ForwardEntry
      <4>4. NumWarmup(t + 1) <= NumWarmup(t) /\ NumWarmup(t) \in Nat /\ NumWarmup(t + 1) \in Nat
        BY <3>2, DualPipeAssumption DEF Stage, NumWarmup
      <4>5. NumWarmup(t) < NumMicroBatches => NumWarmup(t + 1) < NumWarmup(t)
        BY <3>2, DualPipeAssumption DEF Stage, NumWarmup
      <4>6. QED
        BY <3>3, <3>4, <3>5, <3>6, <4>2, <4>3, <4>4, <4>5
    <3>8. CASE pc[t + 1] = "WAIT_ALL_SENDS"
      <4>1. bwd[t + 1] = NumMicroBatches /\ fwd[t + 1] = NumMicroBatches
        BY <1>1, <3>2, <3>8, Counters
      <4>2. fchan[t + 1] # <<>>
        BY <1>1, <3>2, <3>8 DEF CanStep
      <4>3. t + 1 # LastStage
        BY <4>2, <1>1 DEF IInv
      <4>4. /\ (t + 1) + 1 \in Stage
            /\ RecvdF((t + 1) + 1) <= SentF(t + 1) /\ RecvdB(t + 1) <= SentB((t + 1) + 1)
            /\ fchan[t + 1] = <<>> <=> RecvdF((t + 1) + 1) = SentF(t + 1)
        BY <1>1, <3>2, <4>3, LinkFlow
      <4>5. SentF(t + 1) = done[t + 1] + NumMicroBatches /\ RecvdB(t + 1) = done[t + 1] + NumMicroBatches
        BY <1>1, <3>2, <3>8, <4>1, Counters
      <4>6. /\ done[(t + 1) + 1] \in Nat /\ fwd[(t + 1) + 1] \in Nat /\ bwd[(t + 1) + 1] \in Nat
            /\ bwd[(t + 1) + 1] <= fwd[(t + 1) + 1]
            /\ SentB((t + 1) + 1) = done[(t + 1) + 1] + bwd[(t + 1) + 1]
            /\ done[(t + 1) + 1] + fwd[(t + 1) + 1] <= RecvdF((t + 1) + 1)
            /\ RecvdF((t + 1) + 1) \in Nat
        BY <1>1, <4>4, Counters, StageTypes DEF IInv
      <4>7. RecvdF((t + 1) + 1) < done[t + 1] + NumMicroBatches
        <5>1. RecvdF((t + 1) + 1) # SentF(t + 1)
          BY <4>2, <4>4
        <5>2. /\ RecvdF((t + 1) + 1) <= done[t + 1] + NumMicroBatches
              /\ RecvdF((t + 1) + 1) # done[t + 1] + NumMicroBatches
          BY <4>4, <4>5, <5>1
        <5>3. RecvdF((t + 1) + 1) \in Nat /\ done[t + 1] + NumMicroBatches \in Nat
          BY <3>3, <3>4, <4>6
        <5>4. \A x, y \in Nat : x <= y /\ x # y => x < y
          OBVIOUS
        <5>5. QED
          BY <5>2, <5>3, <5>4
      <4>8. done[t + 1] + NumMicroBatches <= done[(t + 1) + 1] + bwd[(t + 1) + 1]
        BY <4>4, <4>5, <4>6
      <4>9. QED
        BY <3>3, <3>4, <4>6, <4>7, <4>8
    <3>9. CASE pc[t + 1] = "IDLE"
      <4>1. bwd[t + 1] = 0 /\ done[t + 1] >= MaxBatches
        BY <1>1, <3>2, <3>9, Blocked, Counters
      <4>2. done[t + 1] = done[t] + bwd[t] /\ bwd[t] < NumMicroBatches
        BY <3>4, <3>5, <3>6, <4>1
      <4>3. done[t + 1] = done[t]
        BY <3>3, <3>4, <3>5, <4>2
      <4>4. QED
        BY <3>3, <4>1, <4>3
    <3>10. QED
      BY <1>1, <3>2, <3>7, <3>8, <3>9, Blocked
  <2>2. \A s \in Stage : pc[s] # "RECV_FORWARD"
    <3> SUFFICES ASSUME NEW s0 \in Stage, pc[s0] = "RECV_FORWARD" PROVE FALSE
      OBVIOUS
    <3> DEFINE T == {s \in Stage : pc[s] = "RECV_FORWARD"}
    <3>1. PICK t \in T : \A y \in T : t <= y
      BY FirstOf
    <3>2. /\ t \in Stage /\ pc[t] = "RECV_FORWARD" /\ t # FirstStage
          /\ t - 1 \in Stage /\ (t - 1) + 1 = t /\ t - 1 # LastStage
          /\ fchan[t - 1] = <<>>
      BY <1>1, <3>1, Blocked, Neighbours
    <3>3. \A s \in Stage : s < t => pc[s] \in {"WAIT_ALL_SENDS", "IDLE"}
      <4>1. ASSUME NEW s \in Stage, s < t PROVE pc[s] # "RECV_FORWARD"
        BY <3>1, <3>2, <4>1, StageFacts
      <4>2. QED
        BY <1>1, <2>1, <4>1, Blocked
    <3> HIDE DEF T
    <3>4. pc[t - 1] \in {"WAIT_ALL_SENDS", "IDLE"}
      BY <3>2, <3>3, StageFacts
    <3>5. pc[t - 1] # "WAIT_ALL_SENDS"
      <4>1. ASSUME t - 1 # FirstStage PROVE pc[(t - 1) - 1] \in {"WAIT_ALL_SENDS", "IDLE"}
        <5>1. (t - 1) - 1 \in Stage /\ (t - 1) - 1 < t
          BY <3>2, <4>1, StageFacts
        <5>2. QED
          BY <3>3, <5>1
      <4>2. QED
        BY <1>1, <3>2, <4>1, WaitEnds
    <3>6. /\ pc[t - 1] = "IDLE" /\ done[t - 1] >= MaxBatches /\ SentF(t - 1) = done[t - 1] + 0
          /\ done[t - 1] \in Nat /\ MaxBatches \in Nat
      BY <1>1, <3>2, <3>4, <3>5, Blocked, Counters, StageFacts
    <3>7. /\ RecvdF(t) = done[t] + fwd[t] /\ done[t] < MaxBatches
          /\ done[t] \in Nat /\ fwd[t] \in Nat /\ NumMicroBatches \in Nat
          /\ fwd[t] < NumMicroBatches
      <4>1. fwd[t] < NumMicroBatches
        BY <1>1, <3>2 DEF IInv, LocalInv, ForwardEntry
      <4>2. QED
        BY <1>1, <3>2, <4>1, Counters, StageFacts
    <3>8. /\ RecvdF(t) = SentF(t - 1)
          /\ done[t] - done[t - 1] \in {-NumMicroBatches, 0, NumMicroBatches}
      BY <1>1, <3>2, LinkFlow
    <3>9. QED
      BY <3>6, <3>7, <3>8
  <2>3. \A s \in Stage : pc[s] \in {"WAIT_ALL_SENDS", "IDLE"}
    BY <1>1, <2>1, <2>2, Blocked
  <2>4. \A s \in Stage : pc[s] # "WAIT_ALL_SENDS"
    BY <1>1, <2>3, WaitEnds, Neighbours
  <2>5. QED
    BY <1>1, <2>3, <2>4, Blocked DEF Finished
<1>2. IInv => NoCircularWait
  BY <1>1 DEF NoCircularWait
<1>3. QED
  BY <1>2, Invariance, PTL
-----------------------------------------------------------------------------
(* Refinement. The counters of the abstract pipeline move exactly at the     *)
(* FORWARD and BACKWARD entries and when train_step returns.                *)

LEMMA AbsInit == Init => Abs!Init
<1> SUFFICES ASSUME Init PROVE Abs!Init
  OBVIOUS
<1>1. \A s \in Stage : Forwarded(s) = 0 /\ Reversed(s) = 0
  BY DEF Init, Forwarded, Reversed
<1>2. QED
  BY <1>1 DEF Init, Abs!Init, Abs!Stage, Stage

(* What a step of stage t does to the abstract counters. *)
LEMMA AbsFrame ==
  ASSUME NEW t \in Stage, LocalStep(t)
  PROVE  /\ Forwarded(t)' = Forwarded(t) + 1 =>
              [s \in Stage |-> Forwarded(s)]'
                = [[s \in Stage |-> Forwarded(s)] EXCEPT ![t] = @ + 1]
         /\ Forwarded(t)' = Forwarded(t) =>
              [s \in Stage |-> Forwarded(s)]' = [s \in Stage |-> Forwarded(s)]
         /\ Reversed(t)' = Reversed(t) + 1 =>
              [s \in Stage |-> Reversed(s)]'
                = [[s \in Stage |-> Reversed(s)] EXCEPT ![t] = @ + 1]
         /\ Reversed(t)' = Reversed(t) =>
              [s \in Stage |-> Reversed(s)]' = [s \in Stage |-> Reversed(s)]
<1>1. \A s \in Stage : s # t => UNCHANGED <<Forwarded(s), Reversed(s)>>
  BY DEF LocalStep, SameStage, Forwarded, Reversed
<1>2. \A s \in Stage : s # t => Forwarded(s)' = Forwarded(s) /\ Reversed(s)' = Reversed(s)
  BY <1>1
<1>3. QED
  BY <1>2

LEMMA AbsStutter ==
  ASSUME IInv, NEW t \in Stage, LocalStep(t), UNCHANGED done,
         Forwarded(t)' = Forwarded(t), Reversed(t)' = Reversed(t)
  PROVE  UNCHANGED Abs!absVars
<1>1. \A s \in Stage : Forwarded(s)' = Forwarded(s) /\ Reversed(s)' = Reversed(s)
  BY DEF LocalStep, SameStage, Forwarded, Reversed
<1>2. QED
  BY <1>1 DEF Abs!absVars

(* FORWARD: the input is there, and the window is not full. *)
LEMMA AbsForward ==
  ASSUME IInv, NEW t \in Stage, Forward(t)
  PROVE  Abs!PassForward(t)
<1>1. TypeOK /\ LocalInv(t)
  BY DEF IInv
<1>2. /\ pc[t] = "FORWARD" /\ fwd[t] < NumMicroBatches
      /\ bwd[t] = IF fwd[t] <= NumWarmup(t) THEN 0 ELSE fwd[t] - NumWarmup(t)
  BY <1>1 DEF Forward, LocalInv, ForwardEntry
<1>3. /\ done[t] \in Nat /\ fwd[t] \in Nat /\ bwd[t] \in Nat /\ NumMicroBatches \in Nat
      /\ NumWarmup(t) \in Nat
  BY <1>1, StageTypes
<1>4. /\ Forwarded(t) = done[t] + fwd[t] + 0 /\ Reversed(t) = done[t] + bwd[t] + 0
      /\ RecvdF(t) = done[t] + fwd[t] + 1
  BY <1>2 DEF Forwarded, Reversed, RecvdF
<1>5. LocalStep(t) /\ UNCHANGED <<done, bwd>>
  BY <1>1 DEF Forward, TypeOK, LocalStep, SameStage
<1>6. Forwarded(t)' = Forwarded(t) + 1 /\ Reversed(t)' = Reversed(t)
  <2>1. fwd'[t] = (IF t = LastStage THEN fwd[t] + 1 ELSE fwd[t])
    BY <1>1 DEF Forward, TypeOK
  <2>2. CASE t = LastStage
    <3>1. pc'[t] \notin {"SEND_FORWARD", "SEND_BACKWARD"}
      BY <1>1, <2>2 DEF Forward, TypeOK, AfterForward, BeginForward, BeginBackward
    <3>2. Forwarded(t)' = done'[t] + fwd'[t] + 0 /\ Reversed(t)' = done'[t] + bwd'[t] + 0
      BY <3>1 DEF Forwarded, Reversed
    <3>3. QED
      BY <1>3, <1>4, <1>5, <2>1, <2>2, <3>2
  <2>3. CASE t # LastStage
    <3>1. pc'[t] = "SEND_FORWARD"
      <4>1. pc'[t] # "RAISED"
        BY ForwardIInv DEF IInv, LocalInv
      <4>2. QED
        BY <1>1, <2>3, <4>1 DEF Forward, TypeOK
    <3>2. Forwarded(t)' = done'[t] + fwd'[t] + 1 /\ Reversed(t)' = done'[t] + bwd'[t] + 0
      BY <3>1 DEF Forwarded, Reversed
    <3>3. QED
      BY <1>3, <1>4, <1>5, <2>1, <2>3, <3>2
  <2>4. QED
    BY <2>2, <2>3
<1>7. t # FirstStage => t - 1 \in Stage /\ Forwarded(t) < Forwarded(t - 1)
  <2> SUFFICES ASSUME t # FirstStage PROVE t - 1 \in Stage /\ Forwarded(t) < Forwarded(t - 1)
    OBVIOUS
  <2>1. t - 1 \in Stage /\ t - 1 # LastStage /\ (t - 1) + 1 = t
    BY Neighbours
  <2>2. RecvdF(t) <= SentF(t - 1)
    BY <2>1, LinkFlow
  <2>3. SentF(t - 1) <= Forwarded(t - 1) /\ SentF(t - 1) \in Nat /\ Forwarded(t - 1) \in Nat
    <3>1. done[t - 1] \in Nat /\ fwd[t - 1] \in Nat
      BY <1>1, <2>1, StageTypes
    <3>2. QED
      BY <3>1 DEF SentF, Forwarded
  <2>4. QED
    BY <1>3, <1>4, <2>1, <2>2, <2>3
<1>8. Forwarded(t) < done[t] + NumMicroBatches
  BY <1>2, <1>3, <1>4
<1>9. Forwarded(t) - Reversed(t) < Abs!Window(t)
  <2>1. Forwarded(t) - Reversed(t) <= NumWarmup(t) /\ Forwarded(t) - Reversed(t) <= fwd[t]
    BY <1>2, <1>3, <1>4
  <2>2. NumWarmup(t) < NumStages - t /\ NumStages - t \in Nat
    BY DualPipeAssumption DEF NumWarmup, Stage
  <2>3. Forwarded(t) - Reversed(t) \in Int
    BY <1>3, <1>4
  <2>4. QED
    BY <1>2, <1>3, <2>1, <2>2, <2>3 DEF Abs!Window
<1>10. /\ [s \in Stage |-> Forwarded(s)]' = [[s \in Stage |-> Forwarded(s)] EXCEPT ![t] = @ + 1]
       /\ [s \in Stage |-> Reversed(s)]' = [s \in Stage |-> Reversed(s)]
  BY <1>5, <1>6, AbsFrame
<1>11. QED
  BY <1>5, <1>7, <1>8, <1>9, <1>10 DEF Abs!PassForward, FirstStage

(* BACKWARD: the gradient is there. *)
LEMMA AbsBackward ==
  ASSUME IInv, NEW t \in Stage, Backward(t)
  PROVE  Abs!PassBackward(t)
<1>1. TypeOK /\ LocalInv(t)
  BY DEF IInv
<1>2. /\ pc[t] = "BACKWARD" /\ bwd[t] < NumMicroBatches
      /\ fwd[t] = IF NumWarmup(t) + bwd[t] + 1 < NumMicroBatches
                  THEN NumWarmup(t) + bwd[t] + 1 ELSE NumMicroBatches
  BY <1>1 DEF Backward, LocalInv, BackwardEntry
<1>3. /\ done[t] \in Nat /\ fwd[t] \in Nat /\ bwd[t] \in Nat /\ NumMicroBatches \in Nat
      /\ NumWarmup(t) \in Nat
  BY <1>1, StageTypes
<1>4. /\ Forwarded(t) = done[t] + fwd[t] + 0 /\ Reversed(t) = done[t] + bwd[t] + 0
      /\ RecvdB(t) = done[t] + bwd[t] + 1
  BY <1>2 DEF Forwarded, Reversed, RecvdB
<1>5. LocalStep(t) /\ UNCHANGED <<done, fwd>>
  BY <1>1 DEF Backward, TypeOK, LocalStep, SameStage
<1>6. Forwarded(t)' = Forwarded(t) /\ Reversed(t)' = Reversed(t) + 1
  <2>1. bwd'[t] = (IF t = FirstStage THEN bwd[t] + 1 ELSE bwd[t])
    BY <1>1 DEF Backward, TypeOK
  <2>2. CASE t = FirstStage
    <3>1. pc'[t] \notin {"SEND_FORWARD", "SEND_BACKWARD"}
      BY <1>1, <2>2 DEF Backward, TypeOK, AfterBackward, BeginForward, BeginBackward
    <3>2. Forwarded(t)' = done'[t] + fwd'[t] + 0 /\ Reversed(t)' = done'[t] + bwd'[t] + 0
      BY <3>1 DEF Forwarded, Reversed
    <3>3. QED
      BY <1>3, <1>4, <1>5, <2>1, <2>2, <3>2
  <2>3. CASE t # FirstStage
    <3>1. pc'[t] = "SEND_BACKWARD"
      <4>1. pc'[t] # "RAISED"
        BY BackwardIInv DEF IInv, LocalInv
      <4>2. QED
        BY <1>1, <2>3, <4>1 DEF Backward, TypeOK
    <3>2. Forwarded(t)' = done'[t] + fwd'[t] + 0 /\ Reversed(t)' = done'[t] + bwd'[t] + 1
      BY <3>1 DEF Forwarded, Reversed
    <3>3. QED
      BY <1>3, <1>4, <1>5, <2>1, <2>3, <3>2
  <2>4. QED
    BY <2>2, <2>3
<1>7. t # LastStage => t + 1 \in Stage /\ Reversed(t) < Reversed(t + 1)
  <2> SUFFICES ASSUME t # LastStage PROVE t + 1 \in Stage /\ Reversed(t) < Reversed(t + 1)
    OBVIOUS
  <2>1. t + 1 \in Stage /\ RecvdB(t) <= SentB(t + 1)
    BY LinkFlow
  <2>2. SentB(t + 1) <= Reversed(t + 1) /\ SentB(t + 1) \in Nat /\ Reversed(t + 1) \in Nat
    <3>1. done[t + 1] \in Nat /\ bwd[t + 1] \in Nat
      BY <1>1, <2>1, StageTypes
    <3>2. QED
      BY <3>1 DEF SentB, Reversed
  <2>3. QED
    BY <1>3, <1>4, <2>1, <2>2
<1>8. Reversed(t) < Forwarded(t)
  BY <1>2, <1>3, <1>4
<1>9. /\ [s \in Stage |-> Forwarded(s)]' = [s \in Stage |-> Forwarded(s)]
      /\ [s \in Stage |-> Reversed(s)]' = [[s \in Stage |-> Reversed(s)] EXCEPT ![t] = @ + 1]
  BY <1>5, <1>6, AbsFrame
<1>10. QED
  BY <1>5, <1>7, <1>8, <1>9 DEF Abs!PassBackward, Abs!LastStage, LastStage

(* wait_all_sends and return: the abstract step is finished. *)
LEMMA AbsFinish ==
  ASSUME IInv, NEW t \in Stage, WaitAllSends(t)
  PROVE  Abs!FinishStep(t)
<1>1. TypeOK /\ pc[t] = "WAIT_ALL_SENDS"
  BY DEF IInv, WaitAllSends
<1>2. done[t] \in Nat /\ fwd[t] = NumMicroBatches /\ bwd[t] = NumMicroBatches /\ NumMicroBatches \in Nat
  BY <1>1, Counters, StageFacts
<1>3. LocalStep(t)
  BY <1>1 DEF WaitAllSends, TypeOK, LocalStep, SameStage
<1>4. /\ done'[t] = done[t] + NumMicroBatches /\ fwd'[t] = 0 /\ bwd'[t] = 0 /\ pc'[t] = "IDLE"
      /\ done' = [done EXCEPT ![t] = @ + NumMicroBatches]
  BY <1>1 DEF WaitAllSends, TypeOK
<1>5. Forwarded(t) = done[t] + NumMicroBatches /\ Reversed(t) = done[t] + NumMicroBatches
  BY <1>1, <1>2 DEF Forwarded, Reversed
<1>6. Forwarded(t)' = done[t] + NumMicroBatches /\ Reversed(t)' = done[t] + NumMicroBatches
  BY <1>2, <1>4 DEF Forwarded, Reversed
<1>7. /\ [s \in Stage |-> Forwarded(s)]' = [s \in Stage |-> Forwarded(s)]
      /\ [s \in Stage |-> Reversed(s)]' = [s \in Stage |-> Reversed(s)]
  BY <1>3, <1>5, <1>6, AbsFrame
<1>8. QED
  BY <1>4, <1>5, <1>7 DEF Abs!FinishStep

LEMMA AbsQuiet ==
  ASSUME IInv, NEW t \in Stage,
         BeginStep(t) \/ RecvForward(t) \/ SendForward(t) \/ RecvBackward(t) \/ SendBackward(t)
  PROVE  UNCHANGED Abs!absVars
<1>1. /\ TypeOK /\ LocalInv(t)
      /\ done[t] \in Nat /\ fwd[t] \in Nat /\ bwd[t] \in Nat
  BY StageTypes DEF IInv
<1>2. LocalStep(t) /\ UNCHANGED done
  BY <1>1 DEF BeginStep, RecvForward, SendForward, RecvBackward, SendBackward, TypeOK,
     LocalStep, SameStage, stashes
<1>3. Forwarded(t)' = Forwarded(t) /\ Reversed(t)' = Reversed(t)
  <2>1. CASE BeginStep(t) \/ RecvForward(t) \/ RecvBackward(t)
    <3>1. /\ pc[t] \notin {"SEND_FORWARD", "SEND_BACKWARD"}
          /\ pc'[t] \notin {"SEND_FORWARD", "SEND_BACKWARD"}
          /\ UNCHANGED <<fwd, bwd>>
      BY <1>1, <2>1 DEF BeginStep, RecvForward, RecvBackward, TypeOK, BeginForward
    <3>2. QED
      BY <1>2, <3>1 DEF Forwarded, Reversed
  <2>2. CASE SendForward(t)
    <3>1. /\ pc[t] = "SEND_FORWARD" /\ fwd'[t] = fwd[t] + 1 /\ UNCHANGED bwd
          /\ pc'[t] \notin {"SEND_FORWARD", "SEND_BACKWARD"}
      BY <1>1, <2>2 DEF SendForward, TypeOK, AfterForward, BeginForward, BeginBackward
    <3>2. Forwarded(t) = done[t] + fwd[t] + 1 /\ Reversed(t) = done[t] + bwd[t] + 0
      BY <3>1 DEF Forwarded, Reversed
    <3>3. Forwarded(t)' = done'[t] + fwd'[t] + 0 /\ Reversed(t)' = done'[t] + bwd'[t] + 0
      BY <3>1 DEF Forwarded, Reversed
    <3>4. QED
      BY <1>1, <1>2, <3>1, <3>2, <3>3
  <2>3. CASE SendBackward(t)
    <3>1. /\ pc[t] = "SEND_BACKWARD" /\ bwd'[t] = bwd[t] + 1 /\ UNCHANGED fwd
          /\ pc'[t] \notin {"SEND_FORWARD", "SEND_BACKWARD"}
      BY <1>1, <2>3 DEF SendBackward, TypeOK, AfterBackward, BeginForward, BeginBackward
    <3>2. Forwarded(t) = done[t] + fwd[t] + 0 /\ Reversed(t) = done[t] + bwd[t] + 1
      BY <3>1 DEF Forwarded, Reversed
    <3>3. Forwarded(t)' = done'[t] + fwd'[t] + 0 /\ Reversed(t)' = done'[t] + bwd'[t] + 0
      BY <3>1 DEF Forwarded, Reversed
    <3>4. QED
      BY <1>1, <1>2, <3>1, <3>2, <3>3
  <2>4. QED
    BY <2>1, <2>2, <2>3
<1>4. QED
  BY <1>2, <1>3, AbsStutter

(* The engine implements the abstract pipeline: micro-batches pass the      *)
(* stages in the order of the data, forward and back, within the window of  *)
(* every stage, and a training step ends only when it is complete.          *)
THEOREM Refinement == Spec => AbsSpec
<1>1. ASSUME IInv, [Next]_vars PROVE [Abs!Next]_(Abs!absVars)
  <2>1. ASSUME NEW t \in Stage, StageNext(t) PROVE Abs!Next \/ UNCHANGED Abs!absVars
    <3>1. t \in Abs!Stage
      BY DEF Abs!Stage, Stage
    <3>2. QED
      BY <1>1, <2>1, <3>1, AbsForward, AbsBackward, AbsFinish, AbsQuiet DEF StageNext, Abs!Next
  <2>2. ASSUME UNCHANGED vars PROVE UNCHANGED Abs!absVars
    BY <2>2 DEF vars, Abs!absVars, Forwarded, Reversed
  <2>3. QED
    BY <1>1, <2>1, <2>2 DEF Next, Terminating
<1>2. QED
  BY <1>1, AbsInit, Invariance, PTL DEF Spec, AbsSpec, Abs!Spec
=============================================================================
