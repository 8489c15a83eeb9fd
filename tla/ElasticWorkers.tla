----------------------------- MODULE ElasticWorkers -----------------------------
(***************************************************************************)
(* src/rust-src/src/distributed/fault_tolerance.rs: HeartbeatMonitor and    *)
(* GracefulDegradation of one ElasticTrainer, with handle_failure and       *)
(* handle_recovery registered as the handlers of the monitor (on_failure    *)
(* and on_recovery are made for that; nothing in the crate registers them). *)
(* The monitor thread looks for workers without a heartbeat; the heartbeats *)
(* of each worker arrive on a thread of their own. Handlers run on the      *)
(* thread that found the failure or the recovery, after the lock of the     *)
(* worker table was released.                                              *)
(*                                                                         *)
(* A RwLock held over several steps is held by whoever is at those steps.   *)
(* Readers wait for a writer that waits (the policy of std::sync::RwLock    *)
(* on Linux).                                                              *)
(***************************************************************************)
EXTENDS Integers, FiniteSets

CONSTANTS
  Worker,      \* workers registered with the monitor
  Rank,        \* ElasticTrainer.rank, the worker whose process this is
  MinWorkers,  \* config.min_workers
  MaxWorkers,  \* config.max_workers
  MaxAttempts, \* max_attempts of RestartFailed
  Strategies,  \* values of the degradation strategy
  None         \* no worker

ASSUME ElasticAssumption ==
  /\ IsFiniteSet(Worker)
  /\ None \notin Worker /\ Rank \in Worker
  /\ MinWorkers \in Nat /\ MaxWorkers \in Nat /\ MaxAttempts \in Nat
  /\ Strategies \subseteq {"Abort", "ContinueWithLess", "WaitForRecovery", "RestartFailed"}

VARIABLES
  life,     \* life[w]: the worker's process is starting, up, silent, ending or shut down
  wstate,   \* wstate[w]: WorkerInfo.state; "Running" stands for Ready, Running, Paused,
            \* "Stopped" for ShuttingDown and Terminated
  late,     \* late[w]: no heartbeat for the length of the timeout
  running,  \* HeartbeatMonitor.running
  strategy, \* GracefulDegradation.strategy
  attempts, \* restart_counts, counted up to MaxAttempts + 1
  active,   \* active_workers
  current,  \* config.current_workers
  mpc,      \* where the monitor thread is
  todo,     \* the unhealthy workers check_workers has left to look at
  failing,  \* the worker whose failure is being handled, or None
  hpc,      \* hpc[w]: where the thread with the heartbeats of w is
  recovery, \* holder of the mutex of recovery_handlers, or None
  counted   \* the count a thread has read and not yet stored: the monitor's, the holder's

vars == <<life, wstate, late, running, strategy, attempts, active, current, mpc, todo, failing, hpc,
          recovery, counted>>
table == <<life, wstate, late, running>>
pool == <<strategy, attempts, active, current>>
monitor == <<mpc, todo, failing>>

(* Training has started with any of the workers, or not at all: then the    *)
(* pool is empty and its count what the configuration says.                *)
Init ==
  /\ life = [w \in Worker |-> "new"]
  /\ wstate = [w \in Worker |-> "Initializing"]
  /\ late = [w \in Worker |-> FALSE]
  /\ running = TRUE
  /\ strategy \in Strategies
  /\ attempts = [w \in Worker |-> 0]
  /\ active \in SUBSET Worker
  /\ current \in 0 .. Cardinality(Worker)
  /\ current = Cardinality(active) \/ active = {}
  /\ mpc = "idle"
  /\ todo = {}
  /\ failing = None
  /\ hpc = [w \in Worker |-> "idle"]
  /\ recovery = None
  /\ counted = [failure |-> 0, recovery |-> 0]
-----------------------------------------------------------------------------
(* The workers *)

(* set_state(Ready), some time after register_worker *)
BecomeReady(w) ==
  /\ life[w] = "new"
  /\ life' = [life EXCEPT ![w] = "up"]
  /\ wstate' = [wstate EXCEPT ![w] = "Running"]
  /\ UNCHANGED <<late, running, pool, monitor, hpc, recovery, counted>>

(* shutdown of this trainer: set_state(ShuttingDown) ... *)
Shutdown ==
  /\ life[Rank] = "up" /\ hpc[Rank] = "idle"
  /\ life' = [life EXCEPT ![Rank] = "ending"]
  /\ wstate' = [wstate EXCEPT ![Rank] = "Stopped"]
  /\ UNCHANGED <<late, running, pool, monitor, hpc, recovery, counted>>

(* ... then stop, which ends the loop of the monitor, and                   *)
(* set_state(Terminated), whatever the monitor has made of the state.       *)
ShutdownStops ==
  /\ life[Rank] = "ending"
  /\ life' = [life EXCEPT ![Rank] = "shutdown"]
  /\ wstate' = [wstate EXCEPT ![Rank] = "Stopped"]
  /\ running' = FALSE
  /\ UNCHANGED <<late, pool, monitor, hpc, recovery, counted>>

(* The process of the worker, or the way to it, goes silent or comes back.  *)
GoSilent(w) ==
  /\ life[w] = "up"
  /\ life' = [life EXCEPT ![w] = "silent"]
  /\ UNCHANGED <<wstate, late, running, pool, monitor, hpc, recovery, counted>>

ComeBack(w) ==
  /\ life[w] = "silent"
  /\ life' = [life EXCEPT ![w] = "up"]
  /\ UNCHANGED <<wstate, late, running, pool, monitor, hpc, recovery, counted>>

(* The timeout passes without a heartbeat. *)
TimeOut(w) ==
  /\ ~late[w]
  /\ late' = [late EXCEPT ![w] = TRUE]
  /\ UNCHANGED <<life, wstate, running, pool, monitor, hpc, recovery, counted>>

(* heartbeat; a failed worker runs again, and its recovery is to be handled. *)
Heartbeat(w) ==
  /\ life[w] = "up" /\ hpc[w] = "idle"
  /\ late' = [late EXCEPT ![w] = FALSE]
  /\ IF wstate[w] = "Failed"
     THEN /\ wstate' = [wstate EXCEPT ![w] = "Running"]
          /\ hpc' = [hpc EXCEPT ![w] = "lock"]
     ELSE UNCHANGED <<wstate, hpc>>
  /\ UNCHANGED <<life, running, pool, monitor, recovery, counted>>
-----------------------------------------------------------------------------
(* The monitor thread *)

Healthy(w) == wstate[w] = "Running" /\ ~late[w]

(* While the monitor runs: check_workers, which begins with                 *)
(* get_failed_workers under the lock of the table.                          *)
Collect ==
  /\ mpc = "idle" /\ running
  /\ todo' = {w \in Worker : ~Healthy(w)}
  /\ mpc' = "check"
  /\ UNCHANGED <<table, pool, failing, hpc, recovery, counted>>

(* The next of them, with the lock taken again: marked as failed unless it   *)
(* is already, whatever it has done since.                                  *)
Mark(w) ==
  /\ mpc = "check" /\ w \in todo
  /\ todo' = todo \ {w}
  /\ IF wstate[w] = "Failed" THEN UNCHANGED <<wstate, failing, mpc>>
     ELSE /\ wstate' = [wstate EXCEPT ![w] = "Failed"]
          /\ failing' = w
          /\ mpc' = "config"
  /\ UNCHANGED <<life, late, running, pool, hpc, recovery, counted>>

(* The list is through; the thread sleeps for the interval. *)
Sleep ==
  /\ mpc = "check" /\ todo = {}
  /\ mpc' = "idle"
  /\ UNCHANGED <<table, pool, todo, failing, hpc, recovery, counted>>
-----------------------------------------------------------------------------
(* The locks of GracefulDegradation *)

ConfigRead == mpc \in {"remove", "count"}
ConfigWriterWaits == mpc = "store" \/ \E w \in Worker : hpc[w] = "store"

(* Mutation of ActiveWritten: no drop(active) before the count is stored. *)
ActiveWrittenOn == \E w \in Worker : hpc[w] \in {"insert", "update", "store"}

ActiveWritten == \E w \in Worker : hpc[w] = "insert"

FailureReturns == mpc' = "check" /\ failing' = None

(* handle_failure: config.read, held until the count is known. *)
FailureConfig ==
  /\ mpc = "config" /\ ~ConfigWriterWaits
  /\ mpc' = "remove"
  /\ UNCHANGED <<table, pool, todo, failing, hpc, recovery, counted>>

FailureRemove ==
  /\ mpc = "remove" /\ ~ActiveWritten
  /\ active' = active \ {failing}
  /\ mpc' = "count"
  /\ UNCHANGED <<table, strategy, attempts, current, todo, failing, hpc, recovery, counted>>

(* Mutation of Remaining: the failed worker is subtracted a second time. *)
RemainingLess == Cardinality(active) - 1

Remaining == Cardinality(active)

(* The restarts of the failing worker, with this one. *)
Restarts == IF attempts[failing] > MaxAttempts THEN attempts[failing] ELSE attempts[failing] + 1

(* ContinueWithLess is returned, which stores the count. *)
ContinuesWithLess ==
  /\ Remaining >= MinWorkers
  /\ \/ strategy = "ContinueWithLess"
     \/ strategy = "RestartFailed" /\ Restarts > MaxAttempts

(* The match on the strategy, after the count was read. The lock of config  *)
(* is given back, by drop(config) or by the return.                         *)
FailureCount ==
  /\ mpc = "count" /\ ~ActiveWritten
  /\ counted' = [counted EXCEPT !.failure = Remaining]
  /\ attempts' = IF strategy = "RestartFailed" THEN [attempts EXCEPT ![failing] = Restarts]
                 ELSE attempts
  /\ IF ContinuesWithLess THEN mpc' = "update" /\ UNCHANGED failing ELSE FailureReturns
  /\ UNCHANGED <<table, strategy, active, current, todo, hpc, recovery>>

(* update_worker_count, without any lock so far, asks for config.write ... *)
FailureUpdate ==
  /\ mpc = "update"
  /\ mpc' = "store"
  /\ UNCHANGED <<table, pool, todo, failing, hpc, recovery, counted>>

(* ... and stores the count that was read before. *)
FailureStore ==
  /\ mpc = "store"
  /\ current' = counted.failure
  /\ FailureReturns
  /\ UNCHANGED <<table, strategy, attempts, active, todo, hpc, recovery, counted>>
-----------------------------------------------------------------------------
(* Mutation of RecoveryLock: handlers run outside of the mutex. *)
RecoveryLockFree(w) ==
  /\ hpc[w] = "lock"
  /\ hpc' = [hpc EXCEPT ![w] = "active"]
  /\ UNCHANGED <<table, pool, monitor, recovery, counted>>

(* trigger_recovery: the mutex of the handlers is held while they run. *)
RecoveryLock(w) ==
  /\ hpc[w] = "lock" /\ recovery = None
  /\ recovery' = w
  /\ hpc' = [hpc EXCEPT ![w] = "active"]
  /\ UNCHANGED <<table, pool, monitor, counted>>

RecoveryReturns(w) == hpc' = [hpc EXCEPT ![w] = "idle"] /\ recovery' = None

(* handle_recovery: active_workers.write; AlreadyActive is returned ... *)
RecoveryActive(w) ==
  /\ hpc[w] = "active" /\ ~ActiveWritten
  /\ IF w \in active THEN RecoveryReturns(w)
     ELSE hpc' = [hpc EXCEPT ![w] = "insert"] /\ UNCHANGED recovery
  /\ UNCHANGED <<table, pool, monitor, counted>>

HasRoom == Cardinality(active) < MaxWorkers

(* ... or the lock is kept while config is read: PoolFull, or the worker is  *)
(* in the pool, and both locks are given back.                              *)
RecoveryInsert(w) ==
  /\ hpc[w] = "insert" /\ ~ConfigWriterWaits
  /\ IF HasRoom
     THEN /\ active' = active \cup {w}
          /\ counted' = [counted EXCEPT !.recovery = Cardinality(active) + 1]
          /\ hpc' = [hpc EXCEPT ![w] = "update"]
          /\ UNCHANGED recovery
     ELSE RecoveryReturns(w) /\ UNCHANGED <<active, counted>>
  /\ UNCHANGED <<table, strategy, attempts, current, monitor>>

(* update_worker_count asks for config.write ... *)
RecoveryUpdate(w) ==
  /\ hpc[w] = "update"
  /\ hpc' = [hpc EXCEPT ![w] = "store"]
  /\ UNCHANGED <<table, pool, monitor, recovery, counted>>

(* ... and stores the count that was read before: AddedToPool. *)
RecoveryStore(w) ==
  /\ hpc[w] = "store" /\ ~ConfigRead
  /\ current' = counted.recovery
  /\ RecoveryReturns(w)
  /\ UNCHANGED <<table, strategy, attempts, active, monitor, counted>>

Monitor ==
  \/ Collect \/ (\E w \in Worker : Mark(w)) \/ Sleep
  \/ FailureConfig \/ FailureRemove \/ FailureCount \/ FailureUpdate \/ FailureStore

Recovery(w) ==
  \/ RecoveryLock(w) \/ RecoveryActive(w) \/ RecoveryInsert(w)
  \/ RecoveryUpdate(w) \/ RecoveryStore(w)

Next ==
  \/ Monitor \/ Shutdown \/ ShutdownStops
  \/ \E w \in Worker :
       \/ BecomeReady(w) \/ GoSilent(w) \/ ComeBack(w) \/ TimeOut(w)
       \/ Heartbeat(w) \/ Recovery(w)

Spec == Init /\ [][Next]_vars

(* The threads run, time passes. No worker has to beat, and none has to be   *)
(* given the mutex of the recovery handlers before the others.              *)
FairSpec ==
  /\ Spec
  /\ WF_vars(Monitor)
  /\ \A w \in Worker : WF_vars(Recovery(w)) /\ WF_vars(TimeOut(w))
-----------------------------------------------------------------------------
TypeOK ==
  /\ life \in [Worker -> {"new", "up", "silent", "ending", "shutdown"}]
  /\ wstate \in [Worker -> {"Initializing", "Running", "Failed", "Stopped"}]
  /\ late \in [Worker -> BOOLEAN]
  /\ running \in BOOLEAN
  /\ strategy \in Strategies
  /\ attempts \in [Worker -> 0 .. MaxAttempts + 1]
  /\ active \in SUBSET Worker
  /\ current \in 0 .. Cardinality(Worker)
  /\ mpc \in {"idle", "check", "config", "remove", "count", "update", "store"}
  /\ todo \in SUBSET Worker
  /\ failing \in Worker \cup {None}
  /\ hpc \in [Worker -> {"idle", "lock", "active", "insert", "update", "store"}]
  /\ recovery \in Worker \cup {None}
  /\ counted \in [failure : 0 .. Cardinality(Worker), recovery : 0 .. Cardinality(Worker)]

(* A thread waits for a lock that another one holds or asks for. *)
MonitorWaits ==
  \/ mpc = "config" /\ ConfigWriterWaits
  \/ mpc \in {"remove", "count"} /\ ActiveWritten

RecoveryWaits(w) ==
  \/ hpc[w] = "lock" /\ recovery # None
  \/ hpc[w] = "active" /\ ActiveWritten
  \/ hpc[w] = "insert" /\ ConfigWriterWaits
  \/ hpc[w] = "store" /\ ConfigRead

Holding == {"active", "insert", "update", "store"}

(* handle_failure takes config and then active_workers, handle_recovery     *)
(* active_workers and then config, and readers wait for a writer that waits; *)
(* yet the handlers never wait for each other in a circle: the monitor does  *)
(* not wait, or a recovery that holds locks does not.                       *)
SomeoneMoves == ~MonitorWaits \/ \E w \in Worker : hpc[w] \in Holding /\ ~RecoveryWaits(w)

(* While the monitor runs, a worker that stays silent is marked as failed in *)
(* the end and stays so. In particular the monitor thread always comes back  *)
(* from its handlers, whatever locks recoveries hold or wait for.           *)
DeadDetected ==
  \A w \in Worker : <>[](life[w] = "silent" /\ running) => <>[](wstate[w] = "Failed")
=============================================================================
