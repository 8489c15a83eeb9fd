------------------------ MODULE LocalCollectives_proofs ------------------------
(***************************************************************************)
(* Proofs about LocalCollectives for every number of ranks and calls, and  *)
(* every program of them.                                                  *)
(*                                                                         *)
(* Plan: the barrier opens for all ranks at once, though they notice it at *)
(* different times. So all ranks are in the same round, the call whose two *)
(* barriers they pass, and all or none are between the two (InStep). In    *)
(* between no rank is outside of the call: all slots hold the tensors      *)
(* passed to it (SlotsWritten).                                            *)
(***************************************************************************)
EXTENDS LocalCollectives, Sequences, TLAPS

(* Rank r has been let out of the barrier of its call, the first but not    *)
(* the second time; it need not have run again since.                       *)
Between(r) ==
  \/ pc[r] \in {"read", "failed"}
  \/ pc[r] = "waits_first" /\ r \notin arrived
  \/ pc[r] = "waits_second" /\ r \in arrived

(* The second time, or it has returned. *)
Beyond(r) == pc[r] = "outside" \/ (pc[r] = "waits_second" /\ r \notin arrived)

(* The call whose barriers rank r passes next. *)
Round(r) == IF Beyond(r) THEN call[r] + 1 ELSE call[r]

(* What is said of a rank alone. *)
RankInv(r) ==
  /\ pc[r] # "outside" => call[r] \in 1 .. MaxCalls
  /\ r \in arrived => pc[r] \in {"waits_first", "waits_second"}
  /\ pc[r] \in {"read", "waits_second"} => program[call[r]].fits
  /\ pc[r] = "failed" => ~ program[call[r]].fits

SlotsWritten ==
  \A r \in Rank :
    pc[r] # "outside" /\ r \in program[call[r]].from => buffers[r] = Tensor(r, call[r])

InStep == \A r, q \in Rank : Round(r) = Round(q) /\ (Between(r) <=> Between(q))

IInv ==
  /\ TypeOK
  /\ \A r \in Rank : RankInv(r)
  /\ SlotsWritten
  /\ InStep
  /\ arrived # Rank
-----------------------------------------------------------------------------
(* What a rank can read: tensors from some of the slots. *)
Readings == UNION {[S -> Tensors] : S \in SUBSET Rank}

(* A call reads the slots of ranks, and its place in the program is typed. *)
LEMMA CallFacts ==
  ASSUME TypeOK, NEW k \in 1 .. MaxCalls
  PROVE  /\ program[k] \in Call
         /\ program[k].from \subseteq Rank
         /\ program[k].fits \in BOOLEAN
<1>1. program[k] \in Call
  BY DEF TypeOK
<1>2. program[k].from \in {Rank} \cup {{r} : r \in Rank} /\ program[k].fits \in BOOLEAN
  BY <1>1 DEF Call
<1>3. QED
  BY <1>1, <1>2

(* Between the two waits of a call no rank is outside of it. *)
LEMMA SameCall ==
  ASSUME IInv, NEW r \in Rank, pc[r] = "waits_first", r \notin arrived
  PROVE  \A q \in Rank : pc[q] # "outside" /\ call[q] = call[r]
<1>1. Between(r) /\ Round(r) = call[r]
  BY DEF Between, Round, Beyond
<1>2. \A q \in Rank : Between(q) /\ Round(q) = call[r]
  BY <1>1 DEF IInv, InStep
<1>3. QED
  BY <1>2 DEF Between, Round, Beyond

(* What a rank between the two waits reads. *)
LEMMA SlotsOfCall ==
  ASSUME IInv, NEW r \in Rank, pc[r] = "waits_first", r \notin arrived,
         NEW q \in program[call[r]].from
  PROVE  q \in Rank /\ buffers[q] = Tensor(q, call[r]) /\ buffers[q] \in Tensors
<1>1. call[r] \in 1 .. MaxCalls
  BY DEF IInv, RankInv
<1>2. q \in Rank
  BY <1>1, CallFacts DEF IInv
<1>3. pc[q] # "outside" /\ call[q] = call[r]
  BY <1>2, SameCall
<1>4. buffers[q] = Tensor(q, call[r])
  BY <1>2, <1>3 DEF IInv, SlotsWritten
<1>5. Tensor(q, call[r]) \in Tensors
  BY <1>1, <1>2 DEF Tensor, Tensors
<1>6. QED
  BY <1>2, <1>4, <1>5
-----------------------------------------------------------------------------
LEMMA InitIInv == Init => IInv
<1> SUFFICES ASSUME Init PROVE IInv
  OBVIOUS
<1>1. NumRanks \in Nat \ {0} /\ MaxCalls \in Nat
  BY LocalCollectivesAssumption
<1>2. TypeOK
  <2>1. <<>> \in [1 .. 0 -> Tensors] /\ 1 .. 0 \in SUBSET Rank
    <3>1. <<>> \in Seq(Tensors) /\ Len(<<>>) = 0
      OBVIOUS
    <3>2. \A x \in 1 .. 0 : FALSE
      OBVIOUS
    <3>3. QED
      BY <3>1, <3>2
  <2>2. <<>> \in Readings
    BY <2>1 DEF Readings
  <2>3. result \in [Rank -> Readings]
    BY <2>2 DEF Init
  <2>4. call \in [Rank -> 0 .. MaxCalls]
    BY <1>1 DEF Init
  <2>5. QED
    BY <2>3, <2>4 DEF Init, TypeOK, Readings
<1>3. arrived # Rank
  <2>1. 0 \in Rank
    BY <1>1 DEF Rank
  <2>2. QED
    BY <2>1 DEF Init
<1>4. QED
  BY <1>2, <1>3 DEF Init, IInv, RankInv, SlotsWritten, InStep, Round, Between, Beyond

(* A step of rank t leaves the others where they are. *)
Alone(t) ==
  /\ \A r \in Rank : r # t =>
       /\ UNCHANGED <<pc[r], call[r], buffers[r]>>
       /\ r \in arrived' <=> r \in arrived
  /\ UNCHANGED program

LEMMA StepFrame ==
  ASSUME IInv, NEW t \in Rank, Alone(t), TypeOK', RankInv(t)', Round(t)' = Round(t),
         Between(t)' <=> Between(t),
         pc'[t] # "outside" /\ t \in program[call'[t]].from => buffers'[t] = Tensor(t, call'[t]),
         arrived' # Rank
  PROVE  IInv'
<1>1. \A r \in Rank : r # t => RankInv(r)' /\ Round(r)' = Round(r) /\ (Between(r)' <=> Between(r))
  BY DEF IInv, Alone, RankInv, Round, Between, Beyond
<1>2. SlotsWritten'
  BY DEF IInv, Alone, SlotsWritten, Tensor
<1>3. InStep'
  BY <1>1 DEF IInv, InStep
<1>4. QED
  BY <1>1, <1>2, <1>3 DEF IInv

LEMMA WriteIInv == ASSUME IInv, NEW t \in Rank, Write(t) PROVE IInv'
<1>1. TypeOK /\ RankInv(t) /\ MaxCalls \in Nat
  BY LocalCollectivesAssumption DEF IInv
<1>2. /\ pc[t] = "outside" /\ call[t] \in 0 .. MaxCalls /\ call[t] + 1 <= MaxCalls
      /\ call[t] + 1 \in 1 .. MaxCalls /\ call[t] + 1 \in 0 .. MaxCalls
  <2>1. pc[t] = "outside" /\ call[t] + 1 <= MaxCalls
    BY DEF Write
  <2>2. call[t] \in 0 .. MaxCalls
    BY <1>1 DEF TypeOK
  <2>3. QED
    BY <1>1, <2>1, <2>2
<1>3. /\ call' = [call EXCEPT ![t] = call[t] + 1] /\ call'[t] = call[t] + 1
      /\ pc' = [pc EXCEPT ![t] = "written"] /\ pc'[t] = "written"
      /\ UNCHANGED <<program, arrived, result>>
  BY <1>1 DEF Write, TypeOK
<1>4. Tensor(t, call[t] + 1) \in Tensors
  BY <1>2 DEF Tensor, Tensors
<1>5. /\ buffers' \in [Rank -> Tensors \cup {NoTensor}]
      /\ t \in program[call'[t]].from => buffers'[t] = Tensor(t, call'[t])
      /\ \A r \in Rank : r # t => buffers'[r] = buffers[r]
  BY <1>1, <1>3, <1>4 DEF Write, TypeOK
<1>6. Alone(t)
  BY <1>1, <1>3, <1>5 DEF Alone, TypeOK
<1>7. TypeOK'
  <2>1. /\ pc' \in [Rank -> {"outside", "written", "waits_first", "read", "waits_second", "failed"}]
        /\ call' \in [Rank -> 0 .. MaxCalls]
    BY <1>1, <1>2, <1>3 DEF TypeOK
  <2>2. QED
    BY <1>1, <1>3, <1>5, <2>1 DEF TypeOK
<1>8. t \notin arrived
  BY <1>1, <1>2 DEF RankInv
<1>9. RankInv(t)' /\ Round(t)' = Round(t) /\ (Between(t)' <=> Between(t))
  BY <1>2, <1>3, <1>8 DEF RankInv, Round, Beyond, Between
<1>10. QED
  BY <1>3, <1>5, <1>6, <1>7, <1>9, StepFrame DEF IInv

LEMMA ReadIInv == ASSUME IInv, NEW t \in Rank, Read(t) PROVE IInv'
<1>1. TypeOK /\ RankInv(t) /\ pc[t] = "waits_first" /\ t \notin arrived /\ call[t] \in 1 .. MaxCalls
  BY DEF IInv, RankInv, Read
<1>2. /\ result' = [result EXCEPT ![t] = [q \in program[call[t]].from |-> buffers[q]]]
      /\ pc' = [pc EXCEPT ![t] = "read"] /\ pc'[t] = "read"
      /\ program[call[t]].fits
      /\ UNCHANGED <<program, call, buffers, arrived>>
  BY <1>1 DEF Read, TypeOK
<1>3. [q \in program[call[t]].from |-> buffers[q]] \in Readings
  <2>1. program[call[t]].from \in SUBSET Rank
    BY <1>1, CallFacts
  <2>2. [q \in program[call[t]].from |-> buffers[q]] \in [program[call[t]].from -> Tensors]
    BY <1>1, SlotsOfCall
  <2>3. QED
    BY <2>1, <2>2 DEF Readings
<1>4. Alone(t)
  BY <1>1, <1>2 DEF Alone, TypeOK
<1>5. TypeOK'
  <2>1. result' \in [Rank -> Readings]
    BY <1>1, <1>2, <1>3 DEF TypeOK, Readings
  <2>2. pc' \in [Rank -> {"outside", "written", "waits_first", "read", "waits_second", "failed"}]
    BY <1>1, <1>2 DEF TypeOK
  <2>3. QED
    BY <1>1, <1>2, <2>1, <2>2 DEF TypeOK, Readings
<1>6. RankInv(t)' /\ Round(t)' = Round(t) /\ (Between(t)' <=> Between(t))
  BY <1>1, <1>2 DEF RankInv, Round, Beyond, Between
<1>7. t \in program[call'[t]].from => buffers'[t] = Tensor(t, call'[t])
  BY <1>1, <1>2 DEF IInv, SlotsWritten
<1>8. QED
  BY <1>2, <1>4, <1>5, <1>6, <1>7, StepFrame DEF IInv

(* An error and the return change nothing but where the rank is. *)
LEMMA ReadFailsOrReturnIInv ==
  ASSUME IInv, NEW t \in Rank, ReadFails(t) \/ Return(t)
  PROVE  IInv'
<1>1. TypeOK /\ RankInv(t) /\ t \notin arrived
  BY DEF IInv, ReadFails, Return
<1>2. UNCHANGED <<program, call, buffers, arrived, result>>
  BY DEF ReadFails, Return
<1>3. \/ pc[t] = "waits_first" /\ pc'[t] = "failed" /\ ~ program[call[t]].fits
      \/ pc[t] = "waits_second" /\ pc'[t] = "outside"
  BY <1>1 DEF ReadFails, Return, TypeOK
<1>4. Alone(t) /\ pc' \in [Rank -> {"outside", "written", "waits_first", "read", "waits_second", "failed"}]
  BY <1>1, <1>2 DEF ReadFails, Return, Alone, TypeOK
<1>5. TypeOK'
  BY <1>1, <1>2, <1>4 DEF TypeOK
<1>6. RankInv(t)' /\ Round(t)' = Round(t) /\ (Between(t)' <=> Between(t))
  BY <1>1, <1>2, <1>3 DEF RankInv, Round, Beyond, Between
<1>7. pc'[t] # "outside" /\ t \in program[call'[t]].from => buffers'[t] = Tensor(t, call'[t])
  BY <1>1, <1>2, <1>3 DEF IInv, SlotsWritten
<1>8. QED
  BY <1>2, <1>4, <1>5, <1>6, <1>7, StepFrame DEF IInv

(* A rank that is not the last to arrive waits; the last opens the barrier  *)
(* for all, between the waits of the round or beyond them.                  *)
LEMMA ArriveIInv == ASSUME IInv, NEW t \in Rank, Arrive(t) PROVE IInv'
<1>1. TypeOK /\ RankInv(t) /\ pc[t] \in {"written", "read"}
  BY DEF IInv, Arrive
<1>2. /\ UNCHANGED <<program, call, buffers, result>>
      /\ pc'[t] = IF pc[t] = "written" THEN "waits_first" ELSE "waits_second"
      /\ \A r \in Rank : r # t => pc'[r] = pc[r]
      /\ pc' \in [Rank -> {"outside", "written", "waits_first", "read", "waits_second", "failed"}]
  BY <1>1 DEF Arrive, TypeOK
<1>3. t \notin arrived
  BY <1>1 DEF RankInv
<1>4. arrived' \in SUBSET Rank
  BY <1>1 DEF Arrive, TypeOK
<1>5. TypeOK'
  BY <1>1, <1>2, <1>4 DEF TypeOK
<1>6. CASE arrived \cup {t} # Rank
  <2>1. arrived' = arrived \cup {t}
    BY <1>6 DEF Arrive
  <2>2. Alone(t)
    BY <1>2, <2>1 DEF Alone
  <2>3. RankInv(t)' /\ Round(t)' = Round(t) /\ (Between(t)' <=> Between(t))
    BY <1>1, <1>2, <1>3, <2>1 DEF RankInv, Round, Beyond, Between
  <2>4. t \in program[call'[t]].from => buffers'[t] = Tensor(t, call'[t])
    BY <1>1, <1>2 DEF IInv, SlotsWritten
  <2>5. QED
    BY <1>5, <1>6, <2>1, <2>2, <2>3, <2>4, StepFrame
<1>7. CASE arrived \cup {t} = Rank
  <2>1. arrived' = {}
    BY <1>7 DEF Arrive
  <2>2. \A r \in Rank : r # t => r \in arrived /\ pc[r] \in {"waits_first", "waits_second"}
    BY <1>7 DEF IInv, RankInv
  <2>3. \A r \in Rank : RankInv(r)'
    BY <1>1, <1>2, <2>1 DEF IInv, RankInv
  <2>4. SlotsWritten'
    BY <1>1, <1>2 DEF IInv, SlotsWritten, Tensor
  <2>5. \A r \in Rank : Round(r) = Round(t) /\ (Between(r) <=> Between(t))
    BY DEF IInv, InStep
  <2>6. CASE pc[t] = "written"
    <3>1. \A r \in Rank : Between(r)' /\ Round(r)' = Round(r)
      BY <1>2, <1>3, <2>1, <2>2, <2>5, <2>6 DEF Between, Beyond, Round
    <3>2. InStep'
      BY <2>5, <3>1 DEF InStep
    <3>3. QED
      BY <1>5, <2>1, <2>3, <2>4, <3>2 DEF IInv
  <2>7. CASE pc[t] = "read"
    <3>1. \A r \in Rank : ~Between(r)' /\ Round(r)' = call[r] + 1 /\ Round(r) = call[r]
      BY <1>2, <1>3, <2>1, <2>2, <2>5, <2>7 DEF Between, Beyond, Round
    <3>2. InStep'
      BY <2>5, <3>1 DEF InStep
    <3>3. QED
      BY <1>5, <2>1, <2>3, <2>4, <3>2 DEF IInv
  <2>8. QED
    BY <1>1, <2>6, <2>7
<1>8. QED
  BY <1>6, <1>7

LEMMA NextIInv == IInv /\ [Next]_vars => IInv'
<1>1. ASSUME IInv, UNCHANGED vars PROVE IInv'
  BY <1>1 DEF vars, IInv, TypeOK, RankInv, SlotsWritten, InStep, Round, Beyond, Between
<1>2. QED
  BY <1>1, WriteIInv, ReadIInv, ReadFailsOrReturnIInv, ArriveIInv DEF Next, Step, Terminating
-----------------------------------------------------------------------------
(* Every reachable state is one between two barriers of one call. *)
THEOREM Invariance == Spec => []IInv
BY InitIInv, NextIInv, PTL DEF Spec

(* The variables keep their types; above all, no slot is read that is still *)
(* None, where `unwrap` would panic.                                        *)
THEOREM TypeCorrect == Spec => []TypeOK
<1>1. IInv => TypeOK
  BY DEF IInv
<1>2. QED
  BY <1>1, Invariance, PTL
-----------------------------------------------------------------------------
(* What a rank of the abstract collective sees of a rank that only moves    *)
(* through the barrier.                                                     *)
LEMMA AbsQuiet ==
  ASSUME IInv, NEW t \in Rank, Arrive(t) \/ Return(t)
  PROVE  UNCHANGED Abs!absVars
<1>1. TypeOK /\ UNCHANGED <<program, call, result>>
  BY DEF IInv, Arrive, Return
<1>2. \A r \in Rank : Decided(r)' = Decided(r) /\ (pc'[r] = "failed" <=> pc[r] = "failed")
  BY <1>1 DEF Arrive, Return, Decided, TypeOK
<1>3. QED
  BY <1>1, <1>2 DEF Abs!absVars

LEMMA AbsEnter ==
  ASSUME IInv, NEW t \in Rank, Write(t)
  PROVE  Abs!Enter(t)
<1>1. TypeOK /\ UNCHANGED <<program, result>>
  BY DEF IInv, Write
<1>2. /\ pc[t] = "outside" /\ call[t] \in 0 .. MaxCalls /\ call[t] + 1 <= MaxCalls
      /\ call' = [call EXCEPT ![t] = @ + 1]
      /\ pc' = [pc EXCEPT ![t] = "written"]
  BY <1>1 DEF Write, TypeOK
<1>3. MaxCalls \in Nat /\ call[t] < MaxCalls /\ call[t] + 1 - 1 = call[t]
  BY <1>2, LocalCollectivesAssumption
<1>4. \A r \in Rank : Decided(r)' = Decided(r) /\ (pc'[r] = "failed" <=> pc[r] = "failed")
  <2>1. \A r \in Rank : r # t => UNCHANGED <<call[r], pc[r]>>
    BY <1>1, <1>2 DEF TypeOK
  <2>2. call'[t] = call[t] + 1 /\ pc'[t] = "written"
    BY <1>1, <1>2 DEF TypeOK
  <2>3. Decided(t) = call[t]
    BY <1>2 DEF Decided
  <2>4. Decided(t)' = call'[t] - 1
    BY <2>2 DEF Decided
  <2>5. Decided(t)' = Decided(t)
    BY <1>2, <1>3, <2>2, <2>3, <2>4
  <2>6. QED
    BY <1>2, <2>1, <2>2, <2>5 DEF Decided
<1>5. Decided(t) = call[t]
  BY <1>2 DEF Decided
<1>6. QED
  BY <1>1, <1>2, <1>3, <1>4, <1>5 DEF Abs!Enter

(* When a rank has passed the first wait, all have entered the call. *)
LEMMA AllEntered ==
  ASSUME IInv, NEW r \in Rank, pc[r] = "waits_first", r \notin arrived
  PROVE  /\ Abs!EveryRankEntered(call[r])
         /\ call[r] \in 1 .. MaxCalls
         /\ Decided(r) = call[r] - 1 /\ Decided(r) < call[r]
<1>1. call[r] \in 1 .. MaxCalls /\ Decided(r) = call[r] - 1
  BY DEF IInv, RankInv, Decided
<1>2. call[r] \in Int /\ call[r] - 1 < call[r]
  BY <1>1, LocalCollectivesAssumption
<1>3. \A q \in Rank : call[q] >= call[r]
  BY <1>2, SameCall
<1>4. Abs!EveryRankEntered(call[r])
  BY <1>3 DEF Abs!EveryRankEntered, Abs!Rank, Rank
<1>5. QED
  BY <1>1, <1>2, <1>4

LEMMA AbsDecide ==
  ASSUME IInv, NEW t \in Rank, Read(t)
  PROVE  Abs!Decide(t)
<1>1. /\ TypeOK /\ pc[t] = "waits_first" /\ t \notin arrived /\ program[call[t]].fits
      /\ UNCHANGED <<program, call>>
  BY DEF IInv, Read
<1>2. pc' = [pc EXCEPT ![t] = "read"]
  BY DEF Read
<1>3. \A r \in Rank :
        /\ Decided(r)' = IF r = t THEN call[t] ELSE Decided(r)
        /\ pc'[r] = "failed" <=> pc[r] = "failed"
  BY <1>1, <1>2 DEF Decided, TypeOK
<1>4. [r \in Rank |-> Decided(r)]' = [[r \in Rank |-> Decided(r)] EXCEPT ![t] = call[t]]
  BY <1>3
<1>5. [q \in program[call[t]].from |-> buffers[q]]
        = [q \in program[call[t]].from |-> Abs!Tensor(q, call[t])]
  BY <1>1, SlotsOfCall DEF Tensor, Abs!Tensor
<1>6. result' = [result EXCEPT ![t] = [q \in program[call[t]].from |-> Abs!Tensor(q, call[t])]]
  BY <1>5 DEF Read
<1>7. {r \in Rank : pc[r] = "failed"}' = {r \in Rank : pc[r] = "failed"}
  BY <1>3
<1>8. [r \in Rank |-> Decided(r)][t] < call[t]
  BY <1>1, AllEntered
<1>9. QED
  BY <1>1, <1>4, <1>6, <1>7, <1>8, AllEntered DEF Abs!Decide

LEMMA AbsFail ==
  ASSUME IInv, NEW t \in Rank, ReadFails(t)
  PROVE  Abs!Fail(t)
<1>1. /\ TypeOK /\ pc[t] = "waits_first" /\ t \notin arrived /\ ~ program[call[t]].fits
      /\ pc' = [pc EXCEPT ![t] = "failed"]
      /\ UNCHANGED <<program, call, result>>
  BY DEF IInv, ReadFails
<1>2. \A r \in Rank :
        /\ Decided(r)' = Decided(r)
        /\ pc'[r] = "failed" <=> pc[r] = "failed" \/ r = t
  BY <1>1 DEF Decided, TypeOK
<1>3. {r \in Rank : pc[r] = "failed"}' = {r \in Rank : pc[r] = "failed"} \cup {t}
  BY <1>2
<1>4. [r \in Rank |-> Decided(r)]' = [r \in Rank |-> Decided(r)]
  BY <1>2
<1>5. [r \in Rank |-> Decided(r)][t] < call[t]
  BY <1>1, AllEntered
<1>6. QED
  BY <1>1, <1>3, <1>4, <1>5, AllEntered DEF Abs!Fail

LEMMA AbsInit == Init => Abs!Init
<1> SUFFICES ASSUME Init PROVE Abs!Init
  OBVIOUS
<1>1. {r \in Rank : pc[r] = "failed"} = {} /\ [r \in Rank |-> Decided(r)] = [r \in Rank |-> 0]
  BY DEF Init, Decided
<1>2. QED
  BY <1>1 DEF Init, Abs!Init, Call, Abs!Call, Rank, Abs!Rank

(* The threads, their slots and their one barrier implement the abstract    *)
(* collective: a rank that reads gets exactly the tensors that the ranks it *)
(* reads passed to this very call, all of which have entered it, and an     *)
(* error is one for all ranks.                                              *)
THEOREM Refinement == Spec => AbsSpec
<1>1. ASSUME IInv, [Next]_vars PROVE [Abs!Next]_(Abs!absVars)
  <2>1. ASSUME NEW t \in Rank, Step(t) PROVE Abs!Next \/ UNCHANGED Abs!absVars
    <3>1. t \in Abs!Rank
      BY DEF Abs!Rank, Rank
    <3>2. QED
      BY <1>1, <2>1, <3>1, AbsEnter, AbsDecide, AbsFail, AbsQuiet DEF Step, Abs!Next
  <2>2. ASSUME UNCHANGED vars PROVE UNCHANGED Abs!absVars
    BY <2>2 DEF vars, Abs!absVars, Decided
  <2>3. QED
    BY <1>1, <2>1, <2>2 DEF Next, Terminating
<1>2. QED
  BY <1>1, AbsInit, Invariance, PTL DEF Spec, AbsSpec, Abs!Spec
=============================================================================
