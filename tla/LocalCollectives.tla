-------------------------- MODULE LocalCollectives --------------------------
(***************************************************************************)
(* src/rust-src/src/distributed/backend.rs: LocalCommunicator, the          *)
(* collectives of ranks that are threads of one process. Every call writes *)
(* the caller's tensor into its slot of the shared buffers, waits at the   *)
(* shared barrier, reads the slots, and waits at the barrier again, so     *)
(* that a fast rank does not overwrite its slot for the next call before   *)
(* the slow ones have read it. A read that fails (`?`) skips the second    *)
(* wait; the callers modelled, synchronize_gradients and the layers of     *)
(* tp_ops.rs, pass the error on and make no further call.                  *)
(*                                                                         *)
(* A tensor is the rank and the call it was passed to. all_reduce and      *)
(* all_gather differ in what they compute from the same slots, and         *)
(* reduce_scatter is all_reduce and a slice: here they are one call.       *)
(***************************************************************************)
EXTENDS Integers

CONSTANTS
  NumRanks, \* world_size
  MaxCalls, \* bound: collective calls made by every rank
  NoTensor  \* a slot that is still None

ASSUME LocalCollectivesAssumption ==
  /\ NumRanks \in Nat \ {0}
  /\ MaxCalls \in Nat

Rank == 0 .. NumRanks - 1
Tensor(r, k) == [by |-> r, call |-> k]
Tensors == [by : Rank, call : 1 .. MaxCalls]
Call == [from : {Rank}, fits : BOOLEAN] \cup [from : {{r} : r \in Rank}, fits : {TRUE}]

VARIABLES
  program, \* program[k]: the k-th call, the same on every rank
  pc,      \* pc[r]: where rank r is in a call, or outside, or done with an error
  call,    \* call[r]: calls rank r has begun
  buffers, \* SharedState.buffers
  arrived, \* the ranks waiting in the current generation of the barrier
  result   \* result[r]: the tensors in what r has read last

vars == <<program, pc, call, buffers, arrived, result>>

Init ==
  /\ program \in [1 .. MaxCalls -> Call]
  /\ pc = [r \in Rank |-> "outside"]
  /\ call = [r \in Rank |-> 0]
  /\ buffers = [r \in Rank |-> NoTensor]
  /\ arrived = {}
  /\ result = [r \in Rank |-> <<>>]
-----------------------------------------------------------------------------
(* Mutation of Write: the root of a broadcast does not wait to read back   *)
(* the tensor it has.                                                      *)
WriteRootGoesOn(r) ==
  LET k == call[r] + 1 IN
  /\ pc[r] = "outside"
  /\ k <= MaxCalls
  /\ call' = [call EXCEPT ![r] = k]
  /\ buffers' = IF r \in program[k].from
                THEN [buffers EXCEPT ![r] = Tensor(r, k)] ELSE buffers
  /\ pc' = [pc EXCEPT ![r] = IF program[k].from = {r} THEN "read" ELSE "written"]
  /\ UNCHANGED <<program, arrived, result>>

(* Mutation of Write: the first wait is left out. *)
WriteReadsAtOnce(r) ==
  LET k == call[r] + 1 IN
  /\ pc[r] = "outside"
  /\ k <= MaxCalls
  /\ call' = [call EXCEPT ![r] = k]
  /\ buffers' = IF r \in program[k].from
                THEN [buffers EXCEPT ![r] = Tensor(r, k)] ELSE buffers
  /\ pc' = [pc EXCEPT ![r] = "waits_first"]
  /\ UNCHANGED <<program, arrived, result>>

(* Step 1 of every call; in a broadcast only the root writes. *)
Write(r) ==
  LET k == call[r] + 1 IN
  /\ pc[r] = "outside"
  /\ k <= MaxCalls
  /\ call' = [call EXCEPT ![r] = k]
  /\ buffers' = IF r \in program[k].from
                THEN [buffers EXCEPT ![r] = Tensor(r, k)] ELSE buffers
  /\ pc' = [pc EXCEPT ![r] = "written"]
  /\ UNCHANGED <<program, arrived, result>>

(* barrier.wait(): the last rank to arrive opens the barrier and resets it; *)
(* a rank has passed when it is no longer among the arrived.                *)
Arrive(r) ==
  /\ pc[r] \in {"written", "read"}
  /\ arrived' = IF arrived \cup {r} = Rank THEN {} ELSE arrived \cup {r}
  /\ pc' = [pc EXCEPT ![r] = IF @ = "written" THEN "waits_first" ELSE "waits_second"]
  /\ UNCHANGED <<program, call, buffers, result>>

(* Mutation of Read: the second wait, "optional if we overwrite next time", *)
(* is left out.                                                             *)
ReadReturns(r) ==
  /\ pc[r] = "waits_first"
  /\ r \notin arrived
  /\ program[call[r]].fits
  /\ result' = [result EXCEPT ![r] = [q \in program[call[r]].from |-> buffers[q]]]
  /\ pc' = [pc EXCEPT ![r] = "outside"]
  /\ UNCHANGED <<program, call, buffers, arrived>>

(* Step 3: the slots are read under the mutex, all at once. *)
Read(r) ==
  /\ pc[r] = "waits_first"
  /\ r \notin arrived
  /\ program[call[r]].fits
  /\ result' = [result EXCEPT ![r] = [q \in program[call[r]].from |-> buffers[q]]]
  /\ pc' = [pc EXCEPT ![r] = "read"]
  /\ UNCHANGED <<program, call, buffers, arrived>>

(* The sum or the concatenation fails: the call returns the error without *)
(* the second wait, and so does its caller.                                *)
ReadFails(r) ==
  /\ pc[r] = "waits_first"
  /\ r \notin arrived
  /\ ~ program[call[r]].fits
  /\ pc' = [pc EXCEPT ![r] = "failed"]
  /\ UNCHANGED <<program, call, buffers, arrived, result>>

(* The rank has passed the second wait and returns. *)
Return(r) ==
  /\ pc[r] = "waits_second"
  /\ r \notin arrived
  /\ pc' = [pc EXCEPT ![r] = "outside"]
  /\ UNCHANGED <<program, call, buffers, arrived, result>>

Step(r) == Write(r) \/ Arrive(r) \/ Read(r) \/ ReadFails(r) \/ Return(r)

Over(r) == pc[r] = "failed" \/ (pc[r] = "outside" /\ call[r] = MaxCalls)
Terminating == (\A r \in Rank : Over(r)) /\ UNCHANGED vars

Next == (\E r \in Rank : Step(r)) \/ Terminating

Spec == Init /\ [][Next]_vars

(* Every rank is a thread that runs until it blocks, and the loops around  *)
(* the calls do not depend on anything else.                               *)
FairSpec == Spec /\ \A r \in Rank : WF_vars(Step(r))
-----------------------------------------------------------------------------
(* No slot is read before it has been written: the unwraps do not panic. *)
TypeOK ==
  /\ program \in [1 .. MaxCalls -> Call]
  /\ pc \in [Rank -> {"outside", "written", "waits_first", "read", "waits_second", "failed"}]
  /\ call \in [Rank -> 0 .. MaxCalls]
  /\ buffers \in [Rank -> Tensors \cup {NoTensor}]
  /\ arrived \in SUBSET Rank
  /\ result \in [Rank -> UNION {[S -> Tensors] : S \in SUBSET Rank}]

(* The outcome of a call is known to a rank when it has read the slots. *)
Decided(r) == IF pc[r] \in {"written", "waits_first", "failed"} THEN call[r] - 1 ELSE call[r]

Abs == INSTANCE Collective WITH
  entered <- call,
  decided <- [r \in Rank |-> Decided(r)],
  outcome <- result,
  failed <- {r \in Rank : pc[r] = "failed"}

(* However far apart the ranks run, every call is a collective: a rank gets *)
(* exactly the tensors passed to this call by the ranks it reads, after all *)
(* have entered it, and a call is an error on all ranks or on none. The     *)
(* same slots and one barrier serve all calls.                              *)
AbsSpec == Abs!Spec

(* Every rank comes to the end of its calls or to an error that it shares   *)
(* with the others: no rank is left waiting at the barrier.                 *)
EveryCallReturns == \A r \in Rank : <>Over(r)
=============================================================================
