------------------------- MODULE ElasticWorkers_proofs -------------------------
(***************************************************************************)
(* Proofs about ElasticWorkers for every set of workers, every limit and    *)
(* every strategy.                                                         *)
(*                                                                         *)
(* Plan: the mutex of the recovery handlers makes the recoveries follow one *)
(* another (OneRecovery), so that a worker a recovery has not found in the  *)
(* pool is not there when it is inserted. That gives the type of the counts  *)
(* and the order of the locks. The bound on the pool is carried from the     *)
(* start: a recovery inserts only where there is room, and both counts that  *)
(* can still be stored were within the bound when they were read.           *)
(***************************************************************************)
EXTENDS ElasticWorkers, FiniteSetTheorems, TLAPS

OneRecovery == \A w \in Worker : hpc[w] \in Holding => recovery = w

(* A recovery inserts a worker that is not in the pool. *)
InsertsNew == \A w \in Worker : hpc[w] = "insert" => w \notin active

FailureOfWorker == mpc \in {"config", "remove", "count", "update", "store"} => failing \in Worker

IInv ==
  /\ TypeOK
  /\ OneRecovery
  /\ InsertsNew
  /\ FailureOfWorker

(* The pool, and the count it is known by, are within max_workers. *)
PoolBound == Cardinality(active) <= MaxWorkers /\ current <= MaxWorkers

CountsBound == counted.failure <= MaxWorkers /\ counted.recovery <= MaxWorkers
-----------------------------------------------------------------------------
Count == 0 .. Cardinality(Worker)

LEMMA WorkerCount == Cardinality(Worker) \in Nat /\ MaxWorkers \in Nat /\ MaxAttempts \in Nat
BY ElasticAssumption, FS_CardinalityType

(* The sizes of the pool and of the pools one step away. *)
LEMMA PoolSize ==
  ASSUME NEW S \in SUBSET Worker
  PROVE  /\ IsFiniteSet(S)
         /\ Cardinality(S) \in Count
         /\ \A w \in Worker : Cardinality(S \ {w}) <= Cardinality(S)
         /\ \A w \in Worker : w \notin S =>
              /\ Cardinality(S \cup {w}) = Cardinality(S) + 1
              /\ Cardinality(S) + 1 \in Count
<1>1. IsFiniteSet(Worker)
  BY ElasticAssumption
<1>2. ASSUME NEW T \in SUBSET Worker
      PROVE  IsFiniteSet(T) /\ Cardinality(T) \in Nat /\ Cardinality(T) <= Cardinality(Worker)
  BY <1>1, <1>2, FS_Subset, FS_CardinalityType
<1>3. IsFiniteSet(S) /\ Cardinality(S) \in Count
  BY <1>2, WorkerCount DEF Count
<1>4. ASSUME NEW w \in Worker PROVE Cardinality(S \ {w}) <= Cardinality(S)
  <2>1. S \ {w} \subseteq S
    OBVIOUS
  <2>2. QED
    BY <1>3, <2>1, FS_Subset
<1>5. ASSUME NEW w \in Worker, w \notin S
      PROVE  Cardinality(S \cup {w}) = Cardinality(S) + 1 /\ Cardinality(S) + 1 \in Count
  <2>1. Cardinality(S \cup {w}) = Cardinality(S) + 1
    BY <1>3, <1>5, FS_AddElement
  <2>2. S \cup {w} \in SUBSET Worker
    BY <1>5
  <2>3. Cardinality(S \cup {w}) \in Count
    BY <1>2, <2>2, WorkerCount DEF Count
  <2>4. QED
    BY <2>1, <2>3
<1>6. QED
  BY <1>3, <1>4, <1>5

LEMMA InitIInv == Init => IInv
<1> SUFFICES ASSUME Init PROVE IInv
  OBVIOUS
<1>1. 0 \in Count /\ 0 \in 0 .. MaxAttempts + 1
  BY WorkerCount DEF Count
<1>2. attempts \in [Worker -> 0 .. MaxAttempts + 1]
  BY <1>1 DEF Init
<1>3. counted = [failure |-> 0, recovery |-> 0] /\ counted \in [failure : Count, recovery : Count]
  BY <1>1 DEF Init
<1>4. TypeOK
  BY <1>2, <1>3 DEF Init, TypeOK, Count
<1>5. QED
  BY <1>4 DEF Init, IInv, OneRecovery, InsertsNew, FailureOfWorker, Holding
-----------------------------------------------------------------------------
(* The steps of the workers change only the table and, when a failed worker *)
(* beats again, make a recovery wait for the mutex.                         *)
WorkerStep(w) ==
  \/ BecomeReady(w) \/ Shutdown \/ ShutdownStops \/ GoSilent(w) \/ ComeBack(w) \/ TimeOut(w)
  \/ Heartbeat(w)

LEMMA WorkerIInv == ASSUME IInv, NEW w \in Worker, WorkerStep(w) PROVE IInv'
<1>1. TypeOK /\ Rank \in Worker
  BY ElasticAssumption DEF IInv
<1>2. UNCHANGED <<pool, monitor, recovery, counted>>
  BY DEF WorkerStep, BecomeReady, Shutdown, ShutdownStops, GoSilent, ComeBack, TimeOut, Heartbeat
<1>3. /\ life' \in [Worker -> {"new", "up", "silent", "ending", "shutdown"}]
      /\ wstate' \in [Worker -> {"Initializing", "Running", "Failed", "Stopped"}]
      /\ late' \in [Worker -> BOOLEAN]
      /\ running' \in BOOLEAN
  BY <1>1 DEF TypeOK, WorkerStep, BecomeReady, Shutdown, ShutdownStops, GoSilent, ComeBack, TimeOut,
     Heartbeat
<1>4. /\ hpc' \in [Worker -> {"idle", "lock", "active", "insert", "update", "store"}]
      /\ \A v \in Worker : hpc'[v] = hpc[v] \/ hpc'[v] = "lock"
  BY <1>1 DEF TypeOK, WorkerStep, BecomeReady, Shutdown, ShutdownStops, GoSilent, ComeBack, TimeOut,
     Heartbeat
<1>5. TypeOK'
  BY <1>1, <1>2, <1>3, <1>4 DEF TypeOK, pool, monitor
<1>6. QED
  BY <1>2, <1>4, <1>5 DEF IInv, OneRecovery, InsertsNew, FailureOfWorker, Holding, pool, monitor

LEMMA CheckIInv ==
  ASSUME IInv, Collect \/ Sleep \/ (\E w \in Worker : Mark(w))
  PROVE  IInv'
<1>1. TypeOK
  BY DEF IInv
<1>2. UNCHANGED <<life, late, running, pool, hpc, recovery, counted>>
  BY DEF Collect, Sleep, Mark, table
<1>3. /\ wstate' \in [Worker -> {"Initializing", "Running", "Failed", "Stopped"}]
      /\ todo' \in SUBSET Worker
      /\ mpc' \in {"idle", "check", "config"}
      /\ failing' \in Worker \cup {None}
      /\ mpc' = "config" => failing' \in Worker
  BY <1>1 DEF TypeOK, Collect, Sleep, Mark, table
<1>4. TypeOK'
  BY <1>1, <1>2, <1>3 DEF TypeOK, pool
<1>5. QED
  BY <1>2, <1>3, <1>4 DEF IInv, OneRecovery, InsertsNew, FailureOfWorker, pool

FailureStep == FailureConfig \/ FailureRemove \/ FailureCount \/ FailureUpdate \/ FailureStore

(* What the handling of a failure does to pool and counts. *)
LEMMA FailurePool ==
  ASSUME IInv, FailureStep
  PROVE  /\ active' = active \/ active' = active \ {failing}
         /\ counted' = counted \/ counted' = [counted EXCEPT !.failure = Remaining]
         /\ current' = current \/ current' = counted.failure
         /\ failing \in Worker
BY DEF IInv, FailureOfWorker, FailureStep, FailureConfig, FailureRemove, FailureCount, FailureUpdate,
   FailureStore, pool

LEMMA FailureIInv == ASSUME IInv, FailureStep PROVE IInv'
<1>1. /\ TypeOK /\ failing \in Worker
      /\ mpc \in {"config", "remove", "count", "update", "store"}
  BY FailurePool DEF IInv, FailureStep, FailureConfig, FailureRemove, FailureCount, FailureUpdate,
     FailureStore
<1>2. UNCHANGED <<table, strategy, todo, hpc, recovery>>
  BY DEF FailureStep, FailureConfig, FailureRemove, FailureCount, FailureUpdate, FailureStore, pool
<1>3. /\ mpc' \in {"check", "remove", "count", "update", "store"}
      /\ failing' \in Worker \cup {None}
      /\ mpc' # "check" => failing' = failing
  BY <1>1 DEF FailureStep, FailureConfig, FailureRemove, FailureCount, FailureUpdate, FailureStore,
     FailureReturns
<1>4. active' \in SUBSET Worker /\ active' \subseteq active
  BY <1>1, FailurePool DEF TypeOK
<1>5. attempts' \in [Worker -> 0 .. MaxAttempts + 1]
  <2>1. attempts[failing] \in 0 .. MaxAttempts + 1
    BY <1>1 DEF TypeOK
  <2>2. Restarts \in 0 .. MaxAttempts + 1
    BY <2>1, WorkerCount DEF Restarts
  <2>3. attempts' = attempts \/ attempts' = [attempts EXCEPT ![failing] = Restarts]
    BY DEF FailureStep, FailureConfig, FailureRemove, FailureCount, FailureUpdate, FailureStore, pool
  <2>4. QED
    BY <1>1, <2>2, <2>3 DEF TypeOK
<1>6. counted' \in [failure : Count, recovery : Count]
  <2>1. Remaining \in Count
    BY <1>1, PoolSize DEF TypeOK, Remaining
  <2>2. QED
    BY <1>1, <2>1, FailurePool DEF TypeOK, Count
<1>7. current' \in Count
  BY <1>1, FailurePool DEF TypeOK, Count
<1>8. TypeOK'
  BY <1>1, <1>2, <1>3, <1>4, <1>5, <1>6, <1>7 DEF TypeOK, table, Count
<1>9. OneRecovery' /\ InsertsNew'
  BY <1>2, <1>4 DEF IInv, OneRecovery, InsertsNew
<1>10. QED
  BY <1>1, <1>3, <1>8, <1>9 DEF IInv, FailureOfWorker

(* What the handling of a recovery does to pool and counts. *)
LEMMA RecoveryPool ==
  ASSUME IInv, NEW w \in Worker, Recovery(w)
  PROVE  \/ UNCHANGED <<active, counted>> /\ (current' = current \/ current' = counted.recovery)
         \/ /\ w \notin active /\ HasRoom
            /\ active' = active \cup {w}
            /\ counted' = [counted EXCEPT !.recovery = Cardinality(active) + 1]
            /\ current' = current
BY DEF IInv, InsertsNew, Recovery, RecoveryLock, RecoveryActive, RecoveryInsert, RecoveryUpdate,
   RecoveryStore, pool

LEMMA RecoveryIInv == ASSUME IInv, NEW w \in Worker, Recovery(w) PROVE IInv'
<1>1. /\ TypeOK /\ OneRecovery /\ InsertsNew
      /\ active \in SUBSET Worker /\ current \in Count
  BY DEF IInv, TypeOK, Count
<1>2. UNCHANGED <<table, strategy, attempts, monitor>>
  BY DEF Recovery, RecoveryLock, RecoveryActive, RecoveryInsert, RecoveryUpdate, RecoveryStore, pool
<1>3. /\ recovery' \in Worker \cup {None}
      /\ hpc' \in [Worker -> {"idle", "lock", "active", "insert", "update", "store"}]
      /\ \A v \in Worker : v # w => hpc'[v] = hpc[v]
  BY <1>1 DEF TypeOK, Recovery, RecoveryLock, RecoveryActive, RecoveryInsert, RecoveryUpdate,
     RecoveryStore, RecoveryReturns
<1>4. /\ recovery = None \/ recovery = w
      /\ recovery' = w \/ (recovery' = None /\ hpc'[w] = "idle")
  <2>1. CASE RecoveryLock(w)
    BY <2>1 DEF RecoveryLock
  <2>2. CASE RecoveryActive(w) \/ RecoveryInsert(w) \/ RecoveryUpdate(w) \/ RecoveryStore(w)
    <3>1. recovery = w
      BY <1>1, <2>2 DEF OneRecovery, Holding, RecoveryActive, RecoveryInsert, RecoveryUpdate,
         RecoveryStore
    <3>2. QED
      BY <1>1, <2>2, <3>1 DEF TypeOK, RecoveryActive, RecoveryInsert, RecoveryUpdate, RecoveryStore,
         RecoveryReturns
  <2>3. QED
    BY <2>1, <2>2 DEF Recovery
<1>5. \A v \in Worker : v # w => hpc[v] \notin Holding
  BY <1>1, <1>4, ElasticAssumption DEF OneRecovery
<1>6. OneRecovery'
  BY <1>3, <1>4, <1>5 DEF OneRecovery, Holding
<1>7. active' \in SUBSET Worker /\ current' \in Count /\ counted' \in [failure : Count, recovery : Count]
  <2>1. CASE UNCHANGED <<active, counted>> /\ (current' = current \/ current' = counted.recovery)
    BY <1>1, <2>1 DEF TypeOK, Count
  <2>2. CASE /\ w \notin active
             /\ active' = active \cup {w}
             /\ counted' = [counted EXCEPT !.recovery = Cardinality(active) + 1]
             /\ current' = current
    <3>1. Cardinality(active) + 1 \in Count
      BY <1>1, <2>2, PoolSize
    <3>2. QED
      BY <1>1, <2>2, <3>1 DEF TypeOK, Count
  <2>3. QED
    BY <2>1, <2>2, RecoveryPool
<1>8. TypeOK'
  BY <1>1, <1>2, <1>3, <1>7 DEF TypeOK, table, monitor, Count
<1>9. hpc'[w] = "insert" => w \notin active'
  <2>1. CASE RecoveryActive(w)
    BY <1>1, <2>1 DEF TypeOK, RecoveryActive, RecoveryReturns, pool
  <2>2. CASE RecoveryLock(w) \/ RecoveryInsert(w) \/ RecoveryUpdate(w) \/ RecoveryStore(w)
    BY <1>1, <2>2 DEF TypeOK, RecoveryLock, RecoveryInsert, RecoveryUpdate, RecoveryStore, RecoveryReturns
  <2>3. QED
    BY <2>1, <2>2 DEF Recovery
<1>10. InsertsNew'
  BY <1>3, <1>5, <1>9 DEF InsertsNew, Holding
<1>11. QED
  BY <1>1, <1>2, <1>6, <1>8, <1>10 DEF IInv, FailureOfWorker, monitor

LEMMA NextIInv == IInv /\ [Next]_vars => IInv'
<1>1. ASSUME IInv, UNCHANGED vars PROVE IInv'
  BY <1>1 DEF vars, IInv, TypeOK, OneRecovery, InsertsNew, FailureOfWorker
<1>2. ASSUME IInv, Shutdown \/ ShutdownStops PROVE IInv'
  BY <1>2, WorkerIInv, ElasticAssumption DEF WorkerStep
<1>3. QED
  BY <1>1, <1>2, WorkerIInv, CheckIInv, FailureIInv, RecoveryIInv
     DEF Next, Monitor, WorkerStep, FailureStep
-----------------------------------------------------------------------------
(* The bound *)

LEMMA BoundStays ==
  ASSUME IInv, PoolBound, CountsBound, [Next]_vars
  PROVE  PoolBound' /\ CountsBound'
<1>1. /\ TypeOK /\ active \in SUBSET Worker /\ MaxWorkers \in Nat
      /\ current \in Nat /\ counted.failure \in Nat /\ counted.recovery \in Nat
      /\ Cardinality(active) \in Nat
      /\ counted \in [failure : Count, recovery : Count]
  BY PoolSize, WorkerCount DEF IInv, TypeOK, Count
<1>2. CASE FailureStep
  <2>1. /\ failing \in Worker
        /\ active' = active \/ active' = active \ {failing}
        /\ counted' = counted \/ counted' = [counted EXCEPT !.failure = Remaining]
        /\ current' = current \/ current' = counted.failure
    BY <1>2, FailurePool
  <2>2. Cardinality(active') <= MaxWorkers
    <3>1. active \ {failing} \in SUBSET Worker
      BY <1>1
    <3>2. /\ Cardinality(active \ {failing}) <= Cardinality(active)
          /\ Cardinality(active \ {failing}) \in Nat
      BY <1>1, <2>1, <3>1, PoolSize, WorkerCount DEF Count
    <3>3. Cardinality(active \ {failing}) <= MaxWorkers
      BY <1>1, <3>2 DEF PoolBound
    <3>4. QED
      BY <2>1, <3>3 DEF PoolBound
  <2>3. current' <= MaxWorkers
    BY <2>1 DEF PoolBound, CountsBound
  <2>4. counted'.failure <= MaxWorkers /\ counted'.recovery <= MaxWorkers
    BY <1>1, <2>1 DEF PoolBound, CountsBound, Remaining
  <2>5. QED
    BY <2>2, <2>3, <2>4 DEF PoolBound, CountsBound
<1>3. ASSUME NEW w \in Worker, Recovery(w)
      PROVE  PoolBound' /\ CountsBound'
  <2>1. CASE UNCHANGED <<active, counted>> /\ (current' = current \/ current' = counted.recovery)
    BY <2>1 DEF PoolBound, CountsBound
  <2>2. CASE /\ w \notin active /\ HasRoom
             /\ active' = active \cup {w}
             /\ counted' = [counted EXCEPT !.recovery = Cardinality(active) + 1]
             /\ current' = current
    <3>1. Cardinality(active') = Cardinality(active) + 1
      BY <1>1, <2>2, PoolSize
    <3>2. Cardinality(active) + 1 <= MaxWorkers
      BY <1>1, <2>2 DEF HasRoom
    <3>3. counted'.failure <= MaxWorkers /\ counted'.recovery <= MaxWorkers
      BY <1>1, <2>2, <3>2 DEF CountsBound
    <3>4. QED
      BY <2>2, <3>1, <3>2, <3>3 DEF PoolBound, CountsBound
  <2>3. QED
    BY <1>3, <2>1, <2>2, RecoveryPool
<1>4. ASSUME \/ Collect \/ Sleep \/ UNCHANGED vars
             \/ \E w \in Worker : Mark(w) \/ WorkerStep(w)
      PROVE  PoolBound' /\ CountsBound'
  <2>1. UNCHANGED <<pool, counted>>
    BY <1>4 DEF Collect, Sleep, Mark, WorkerStep, BecomeReady, Shutdown, ShutdownStops, GoSilent,
       ComeBack, TimeOut, Heartbeat, vars, pool
  <2>2. QED
    BY <2>1 DEF PoolBound, CountsBound, pool
<1>5. CASE Shutdown \/ ShutdownStops
  BY <1>4, <1>5, ElasticAssumption DEF WorkerStep
<1>6. QED
  BY <1>2, <1>3, <1>4, <1>5 DEF Next, Monitor, WorkerStep, FailureStep
-----------------------------------------------------------------------------
(* Recoveries follow one another, whatever failures come in between, and a   *)
(* worker that is inserted was not in the pool.                             *)
THEOREM Invariance == Spec => []IInv
BY InitIInv, NextIInv, PTL DEF Spec

(* Type correctness; above all, a count that is kept is one of workers. *)
THEOREM TypeCorrect == Spec => []TypeOK
<1>1. IInv => TypeOK
  BY DEF IInv
<1>2. QED
  BY <1>1, Invariance, PTL

(* Recoveries and failures never take the pool, nor the count it is known   *)
(* by, beyond max_workers, however they interleave, if start_training (or    *)
(* the configuration) has not: it does not look at max_workers.             *)
THEOREM PoolBounded == PoolBound /\ Spec => []PoolBound
<1>1. Init => CountsBound
  BY WorkerCount DEF Init, CountsBound
<1>2. IInv /\ PoolBound /\ CountsBound /\ [Next]_vars => PoolBound' /\ CountsBound'
  BY BoundStays
<1>3. QED
  BY <1>1, <1>2, Invariance, PTL DEF Spec
-----------------------------------------------------------------------------
(* handle_failure and handle_recovery take config and active_workers in      *)
(* opposite orders, and readers wait for waiting writers; yet the two never  *)
(* wait for each other.                                                     *)
THEOREM NoLockCycle == Spec => []SomeoneMoves
<1>1. ASSUME IInv, MonitorWaits
      PROVE  \E w \in Worker : hpc[w] \in Holding /\ ~RecoveryWaits(w)
  <2>1. PICK w \in Worker : hpc[w] \in {"insert", "store"}
    BY <1>1 DEF MonitorWaits, ConfigWriterWaits, ActiveWritten
  <2>2. \A v \in Worker : hpc[v] \in Holding => v = w
    BY <1>1, <2>1 DEF IInv, OneRecovery, Holding
  <2>3. ~RecoveryWaits(w)
    BY <1>1, <2>1, <2>2 DEF MonitorWaits, RecoveryWaits, ConfigWriterWaits, ConfigRead,
       ActiveWritten, Holding
  <2>4. QED
    BY <2>1, <2>3 DEF Holding
<1>2. IInv => SomeoneMoves
  BY <1>1 DEF SomeoneMoves
<1>3. QED
  BY <1>2, Invariance, PTL
=============================================================================
