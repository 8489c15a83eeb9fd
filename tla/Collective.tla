----------------------------- MODULE Collective -----------------------------
(***************************************************************************)
(* What a collective call promises the ranks that make it (the trait       *)
(* CollectiveCommunicator in src/rust-src/src/distributed/mod.rs): all     *)
(* ranks make the same calls in the same order, none has the outcome of a  *)
(* call before every rank has entered it, and the outcome is made of the   *)
(* tensors passed to that very call. It is an error for all or for none.   *)
(***************************************************************************)
EXTENDS Integers

CONSTANTS
  NumRanks, \* positive; the ranks are 0 .. NumRanks-1
  MaxCalls  \* bound: the calls every rank makes

Rank == 0 .. NumRanks - 1

(* A call reads the tensors of all ranks (all_reduce, all_gather), which    *)
(* may not fit together, or the one of its root (broadcast).                *)
Call == [from : {Rank}, fits : BOOLEAN] \cup [from : {{r} : r \in Rank}, fits : {TRUE}]

VARIABLES
  program, \* program[k]: the k-th call, the same on every rank
  entered, \* entered[r]: calls rank r has entered
  decided, \* decided[r]: calls whose outcome r has without an error
  outcome, \* outcome[r]: the tensors in the last one
  failed   \* the ranks whose last call is an error

absVars == <<program, entered, decided, outcome, failed>>

(* The tensor that rank r passes to its k-th call. *)
Tensor(r, k) == [by |-> r, call |-> k]

Init ==
  /\ program \in [1 .. MaxCalls -> Call]
  /\ entered = [r \in Rank |-> 0]
  /\ decided = [r \in Rank |-> 0]
  /\ outcome = [r \in Rank |-> <<>>]
  /\ failed = {}

Enter(r) ==
  /\ r \notin failed
  /\ entered[r] = decided[r]
  /\ entered[r] < MaxCalls
  /\ entered' = [entered EXCEPT ![r] = @ + 1]
  /\ UNCHANGED <<program, decided, outcome, failed>>

EveryRankEntered(k) == \A q \in Rank : entered[q] >= k

Decide(r) ==
  LET k == entered[r] IN
  /\ decided[r] < k
  /\ EveryRankEntered(k)
  /\ program[k].fits
  /\ decided' = [decided EXCEPT ![r] = k]
  /\ outcome' = [outcome EXCEPT ![r] = [q \in program[k].from |-> Tensor(q, k)]]
  /\ UNCHANGED <<program, entered, failed>>

Fail(r) ==
  /\ r \notin failed
  /\ decided[r] < entered[r]
  /\ EveryRankEntered(entered[r])
  /\ ~ program[entered[r]].fits
  /\ failed' = failed \cup {r}
  /\ UNCHANGED <<program, entered, decided, outcome>>

Next == \E r \in Rank : Enter(r) \/ Decide(r) \/ Fail(r)

Spec == Init /\ [][Next]_absVars
=============================================================================
