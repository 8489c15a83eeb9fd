# TLA+ models and proofs for deepseek-from-scratch

This directory holds TLA+ modules for the concurrent parts of the repository,
the TLC configurations that check them on small instances, and TLAPS proofs
that hold for every value of the constants. `src/` below is the repository.

- [1. The system](#1-the-system)
- [2. The modules](#2-the-modules)
- [3. What each run checks](#3-what-each-run-checks)
- [4. Where the code and its text disagree](#4-where-the-code-and-its-text-disagree)
- [5. What is proved](#5-what-is-proved)
- [6. What is not modelled](#6-what-is-not-modelled)
- [7. Plan](#7-plan)
- [8. Running it](#8-running-it)

## 1. The system

The repository trains DeepSeek-style models, with a Python implementation
(`src/src/deepseek/`, PyTorch and MLX) and a Rust one (`src/rust-src/`). Most
of it is numeric: models, kernels, losses, optimisers. What a model checker can
say something about is the machinery that keeps many ranks, threads and
restarts of one training job consistent.

### 1.1 Components with state and concurrency

| Component | State it keeps | Operations | What is hard | What makes it correct |
|---|---|---|---|---|
| **DualPipe engine** `torch/training/dualpipe.py` | per rank: position in the schedule, input and output stashes, gradients per micro-batch, send handles | `_build_schedule`, `train_step` with its six kinds of schedule entry, `wait_all_sends` | ranks run at their own speed; messages carry no micro-batch id; receives and the final wait block | each message is attributed to the right micro-batch, also across two `train_step` calls; the 1F1B memory bound; no circular wait; every step ends |
| **Distributed checkpointer, Python** `torch/training/distributed_checkpoint.py` | `checkpoint_N` directories, `_next_version`, executor queue, `_pending_saves` | `save`, `load`, `_garbage_collect`, `wait_for_save`, `wait_all`, `shutdown` | background threads write live tensors; all ranks share a directory; a crash between any two file operations | a resumed job is one whole save; a completed save is not lost; listed checkpoints load; retention; waiting ends, and not before the save was written or failed |
| **Distributed checkpointer, Rust** `rust-src/src/distributed/distributed_checkpoint.rs` | `step_N` directories, registry, `pending_saves`, `running`, `save_in_progress` | `initialize`, `save`, `load_latest`, `garbage_collect`, `wait_for_saves`, `shutdown` | the save thread against save, collection and wait; I/O errors; crash and rescan | the same, for its own queue and registry |
| **Fault tolerance, Rust** `rust-src/src/distributed/fault_tolerance.rs` | worker table, `GracefulDegradation`'s two `RwLock`s and handlers' mutex, restart counts, preemption flags | heartbeats, `check_workers`, `handle_failure`, `handle_recovery` | check-then-act across locks, handlers after the lock is released, opposite lock orders | the handlers never wait for each other in a circle; a worker that stays silent is detected |
| **Pretraining loop, Python** `torch/training/pipeline.py` | `global_step`, live tensors, save queue, checkpoint files | `train`, `CheckpointManager.save`, `save_worker`, cleanup, `load_latest`, `close` | a thread that writes live tensors, or dies silently; a cleanup that counts files that are not written yet; crash and resume | no step is skipped; all files but the newest are intact; a resume costs a bounded number of steps; a finished run is saved; `close` returns |
| **Pipeline parallelism, Rust** `rust-src/src/distributed/pipeline.rs` | scheduler phase and indices, `ActivationBuffer`, links | `next_action` of 1F1B, GPipe and DualPipe, `train_step`, send and receive | phases that fall through to one another; no micro-batch ids | every pass gets its own micro-batch; schedules are complete; unidirectional schedules end; 1F1B is the abstract pipeline |
| **Shared-memory arena** `rust-src/src/pyo3_bindings/shared_memory.rs` | a mapped file, its free offset, named allocations, handles | allocate, get, free, reset, read by handle in another process | another process reads without the lock; errors and panics half way; half precision | names share no cell that is counted; a handle reads its tensor until the reset |
| **Local collectives, Rust** `rust-src/src/distributed/backend.rs` | one slot per rank, one reusable barrier | `all_reduce`, `all_gather`, `broadcast`, `reduce_scatter` | a rank that is a call ahead; an error between the two waits | every call gets exactly its own tensors; an error is everybody's; no rank is left waiting |
| **Graceful degradation, Python** `pipeline/graceful_degradation.py` | health per backend, current level, active backend | monitor thread, callbacks, fallback, recovery | callbacks under a non-reentrant lock | the monitor never blocks itself (it does, section 4) |
| **Fault tolerance, Python** `torch/training/fault_tolerance.py` | retry counters, loss history, signal handlers | retry, emergency checkpoint, elastic restart | signals at any point of the start and the end | the final checkpoint is the newest state (it is not, section 4) |

Interactions. A trainer calls the pipeline engine once per global batch and,
between two batches, a checkpointer; the checkpointers share nothing with the
engine except the live tensors, which is what the asynchronous Python
checkpointer gets wrong (section 4). The fault-tolerance layer reacts to
failures by rebuilding groups and calling `load`: a restart in the models
below is that call. Ranks interact through point-to-point messages (DualPipe),
through `dist.barrier()` and one shared directory (Python checkpointer),
through shared slots and a barrier (local collectives), and
threads of one process through a mutex-protected queue and two flags (Rust
checkpointer), a `Queue` and the live tensors (pretraining loop), or three
locks (fault tolerance). The arena is shared with another process through a
file alone.

### 1.2 Components without control worth checking

Models, kernels, MoE routing, GRPO and agentic loops, recipes: floating-point
code. NCCL and ring attention: wrappers over a library, fixed sequences of
collectives. Workflow orchestration is a list of stages run one after another;
data ingestion and the sharded dataloader are sequential iterators; the KV
cache is a buffer one thread appends to. Heterogeneous scheduling assigns slots
in tables. Ray, Modal, storage, tracking,
configuration: I/O to services outside the repository. Chaos engineering and
benchmarks: test tooling. They are listed in `PROJECT.json` with the reason.

## 2. The modules

| Module | What it is |
|---|---|
| `MicroBatchPipeline` | abstract: what any pipeline schedule promises |
| `DualPipe` | the engine, one process per rank; implements `MicroBatchPipeline` |
| `StableCheckpoint` | abstract: one stable training step, replaced atomically |
| `DistributedCheckpoint` | the Python checkpointer; with synchronous saves on one rank it implements `StableCheckpoint` |
| `RegistryCheckpoint` | the Rust checkpointer |
| `PipelineSchedules` | the Rust schedulers, their engine and messages; a job of 1F1B implements `MicroBatchPipeline` |
| `SharedMemoryArena` | the Rust arena and a reader in another process |
| `PreTraining` | the Python training loop with its checkpoint manager |
| `ElasticWorkers` | the Rust heartbeat monitor with the handlers of `GracefulDegradation` |
| `Collective` | abstract: what a collective call promises |
| `LocalCollectives` | the Rust in-process collectives; implements `Collective` |
| `..._proofs` | TLAPS proofs about each of the eight modules of the code (section 5) |
| `MC...` | what TLC runs; constants are in the `.cfg` files |

`PROJECT.json` maps every definition to the lines it stands for.

### 2.1 DualPipe

**State.** A tensor is represented by the position, in the data stream, of the
micro-batch it was computed from. So a stash that holds the wrong tensor is
visible in the model, across micro-batches and across training steps.
`inStash`, `outStash` are `PipelineStage.input_stash` and `output_stash`;
`gradOut`, `gradIn` are the fields of `MicroBatchState`; `fchan[s]`, `bchan[s]`
are the untagged messages between neighbours, first in first out, as
point-to-point communication guarantees for one pair of ranks.

**The schedule.** `_build_schedule` makes a list from the stage, the number of
stages and the number of micro-batches. The entry that follows an entry is a
function of the stage and the two indices, so the model walks the list with
`pc`, `fwd`, `bwd` and the operators `NumWarmup`, `AfterForward`,
`AfterBackward` without writing it out.

**Actions.** One per branch of `train_step`: `RecvForward`, `Forward`,
`SendForward`, `RecvBackward`, `Backward`, `SendBackward`; the call and the
return are `BeginStep` and `WaitAllSends`. A rank that is faster than its
neighbour goes on to its next `train_step`, as in the code: nothing
synchronises the ranks between two calls except messages. The `RuntimeError`s
of `forward_step` and `backward_step` are the entry `"RAISED"`.

**Sends.** `isend` may be complete before its message is received (buffering)
or only then (rendezvous). `WaitAllSends` may therefore happen at any time, so
that the safety properties hold for both; but it is only *obliged* to happen
when everything the rank sent has been received. `CanStep` says so, and both
`NoCircularWait` and the fairness of `FairSpec` use it: freedom from deadlock
and termination are shown for the strictest reading, in which no send is ever
buffered.

### 2.2 DistributedCheckpoint

**State.** Two live tensors; a file holds the sequence of what was written to
it, so that a file written while the trainer updates the tensors shows which
step each half comes from. `disk[v]` is the directory `checkpoint_v` with its
data file and `metadata.json`, each absent, partly written or written. `lost`
and `returned` are history variables.

**Actions.** `save()` is cut where another thread, another rank or a crash can
come between: `SaveBegin` (mkdir and the checkpoint dictionary), `WriteBegin`,
`WriteEnd` or `WriteFails`, `Barrier`, `Checksum`, `MetaOpen`, `MetaWrite` or
`MetaFails`, `GCList`, `GCNext`, `GCUnlink`, `GCRmdir`, `SaveReturn`. The executor's threads
are `WorkerStart`, `WorkerEnd`, `WorkerFails`. `Restart` is a crash of the
whole job followed by `__init__` and `load()`: it may happen at any moment,
`load()` may raise, and a version is chosen from what the directory lists.
`MetaFails` is an error of `open` or `json.dump`: `save()` raises, the metadata
stays partial, the version is not counted, and the job (`"RAISED"`) waits to be
started again. `pending` stands for `_pending_saves`, by version; its keys are
the paths of the `checkpoint.pt` (section 4).
`MetaWrite` over what another rank has written since its own `open` may leave
the end of a longer text behind, which does not parse.

### 2.3 RegistryCheckpoint

**State.** `disk[s]` is `step_s` with three files that stand for those the code
writes, in its order: the metadata, the weights and the optimiser state, the
training state and the small files. A training state is its step and the step
its weights come from; `Valid` and `Loadable` are what `validate_checkpoint`
and `load_checkpoint_from_disk` accept, which is less than whole.

**Actions.** The training thread: `SaveBegin`, `WriteNext`, `SaveWritten`,
`SaveFails`, `Register`, `GCTest`, `GCUnlink`, `GCRemoved`, `WaitBegin`,
`WaitFlag`, `WaitCount`, `Stop`, `Joined`. The save thread: `SaverTest` (of
`running`), `SaverPop` (which takes the *newest* pending save) or `SaverSleep`,
`SaverFlag`, `WriteNext`, `SaverDone`,
`SaverExit`. The flag and the length of the queue are read in two steps, as in
`wait_for_completion`, and the pop and the store of the flag are two steps, as
in the loop of the thread. `Restart` is a crash, `initialize()` and
`load_latest()`. A save whose write fails is at once over (`SaveFails`,
`SaverDone` before the last write): in the synchronous case the error goes to
the caller, in the asynchronous one it is printed.

### 2.4 PipelineSchedules

**State.** One `job` for all stages: a unidirectional schedule with
`PipelineStage` and the send and receive functions, `DualPipeEngine::train_step`,
or the `DualPipe` scheduler pulled alone, as its unit test does. `phase`,
`steps`, `fwd`, `bwd` are the fields of the schedulers; the booleans of
`OneFOneBScheduler` and `GPipeScheduler` are functions of `fwd`. `ops[s]` is what
is left of the action pulled last; a tensor is its micro-batch and its
direction.

**Actions.** `NextAction` is `next_action` with its fall-through from phase to
phase; `EndIteration` is `Done`, `clear_activations` and `reset`; `Forward`,
`Backward` and `Send` execute the passes in the order of `train_step`, with the
error paths of a full `ActivationBuffer`, an empty one, and a gradient there is
nobody to receive from. `Discard` is the scheduler alone. The crate has no
caller that puts a unidirectional schedule, `PipelineStage` and the messages
together: the model takes the obvious one.

### 2.5 SharedMemoryArena

**State.** The file is cut into cells; a tensor is one cell of header and
`Size[t]` cells of data, of which the code writes `Stored[t]`. The two differ
for F16 and BF16, stored as F32. `handles` are those ever returned, with the
number of resets that preceded them.

**Actions.** `Allocate`, `Free`, `Reset` are atomic, as under the `RwLock` of
the arena; `AllocateFails` is an error of the conversion of the data, or the
copy that runs over the end of the file, after the header was written. The other process reads one cell at a time
(`BeginRead`, `ReadCell`, `EndRead`), since the lock is not in the file.

### 2.6 PreTraining

**State.** Weights, and the tensors in a file, are the number of optimizer
updates they hold, the least and the most of its tensors: a file that is
written while the trainer goes on shows it. `best` is a history variable.

**Actions.** The trainer: `Start`, `Load` or `LoadRaises`, `OptimizerStep`, `NextStep`,
`FinalSave`, then `save` cut where the worker or a crash can come between
(`Enqueue`, or `Open` and `Write`; `List`, `Remove`, `SaveReturns`), `Close`,
`Join`. The worker: `WorkerOpens`, `WorkerWrites`, `WorkerDies` (an exception of
`torch.save`, at the open or later, which ends the thread), `WorkerStops`. `train`
calls `close` twice; the second call finds the thread gone and leaves a `None`
that nobody reads, and is not modelled. `Crash` may come anywhere;
the job is started again on the same directory. `RemoveByHand` is the operator
who removes a file that makes `load_latest` raise; without it nothing happens
after such a crash.

### 2.7 ElasticWorkers

**State.** `wstate` is the worker table; Ready, Running and Paused are treated
alike by every handler and are one value. `late` is the only thing time does.
`running` is the monitor's flag; `Rank` is the worker whose process this is.
Training starts with any set of workers, also one larger than `max_workers`, or
not at all, with whatever count the configuration has.
`active`, `current` and `attempts` are `GracefulDegradation`'s. A lock that is
held over several steps is not a variable: it is held by whoever is at those
steps (`ConfigRead`, `ConfigWriterWaits`, `ActiveWritten`).

**Actions.** The monitor thread: `Collect` (the list, under the lock), `Mark`
(each worker, with the lock taken again), `FailureConfig`, `FailureRemove`,
`FailureCount`, `FailureUpdate`, `FailureStore`, `Sleep`. A heartbeat thread per
worker: `Heartbeat`, `RecoveryLock`, `RecoveryActive`, `RecoveryInsert`,
`RecoveryUpdate`, `RecoveryStore`; between the two last, and their like of the
monitor, a thread holds no lock of the pool and has not yet asked for the next.
`Shutdown` and `ShutdownStops` are `ElasticTrainer::shutdown`, which stops the
monitor of this process. The workers themselves: `BecomeReady`, `GoSilent`,
`ComeBack`, `TimeOut`.

The handlers are run by the monitor, the recovery handler under its mutex: that
is what `on_failure` and `on_recovery` are for. No code of the crate registers
them; the tests call them directly (section 4).

### 2.8 LocalCollectives

**State.** `buffers` are the slots; `arrived` are the ranks waiting in the
current generation of `std::sync::Barrier`, which is external: the last to
arrive empties the set, and a rank has passed when it is not in it any more. A
tensor is the rank and the call it was passed to. The program, which calls are
made and whether their operands fit together, is chosen in `Init` and the same
on all ranks, as `synchronize_gradients` demands.

**Actions.** `Write`, `Arrive`, `Read`, `Arrive`, `Return`; `ReadFails` is the
`?` that skips the second wait. A caller that gets an error makes no more calls,
as `synchronize_gradients` and `tp_ops.rs`; what a caller that goes on would see
is in section 4. The refinement maps the outcome of a call to the moment it is
read, so that `Collective` says nothing of slots or barriers.

## 3. What each run checks

| Run | Configuration | Expected | States |
|---|---|---|---|
| `dualpipe` | `DualPipe.cfg` | pass | 2,931 |
| `checkpoint_sync` | `CheckpointSync.cfg` | pass | 5,759 |
| `checkpoint_async` | `CheckpointAsync.cfg` | pass | 82,493 |
| `registry` | `Registry.cfg` | pass | 209,658 |
| `schedules` | `Schedules.cfg` | pass | 15,363 |
| `arena` | `Arena.cfg` | pass | 1,173,486 |
| `pretraining` | `PreTraining.cfg` | pass | 2,045,930 |
| `elastic` | `ElasticWorkers.cfg` | pass | 1,200,020 |
| `collectives` | `Collectives.cfg` | pass | 21,934 |
| `checkpoint_state`, `checkpoint_ranks`, `registry_wait` | `CheckpointAsyncState.cfg`, `CheckpointRanks.cfg`, `RegistryWaitWaits.cfg` | violation | |

**`dualpipe`.** Four stages, three micro-batches, `train_step` called while
fewer than four micro-batches are done, that is twice. Fewer micro-batches than
stages is the case in which `min()` cuts the warmup: stage 0 has no steady
state, stages 1 and 2 have all three phases, stage 3 has no warmup. Two calls
let a stage be a step ahead of its neighbour, which the proof shows is the most
it can be. Checked: untagged gradients and activations are matched
(`MatchedGradients`, `MatchedActivations`), `StashBound`, `NoCircularWait`, the
refinement `AbsSpec` and `AllStepsComplete` (liveness).

**`checkpoint_sync`.** One rank, synchronous saves, one checkpoint kept, two
crashes at any point and failing writes, of the data and of the metadata. What `load()` restores is one whole
save (`StateMatchesStep`, `LatestLoadable`), a save that returned is never lost
(`NeverLost`), no later save writes into a published checkpoint
(`PublishedImmutable`), and the whole is a stable checkpoint (`AbsSpec`).
Keeping one makes every save after the first collect garbage, so that a crash
can fall into every step of a collection. The second crash finds what the
recovery from the first one left: reused version numbers, half-removed
directories. Four steps and five versions leave room for two saves after it.

**`checkpoint_async`.** One rank, two threads, one crash, and no
`validate_before_delete`, which the other runs have. A save leaves
`_pending_saves`, for which `wait_all`, `shutdown` and `wait_for_save` of a
`checkpoint.pt` wait, only when it is written or has failed
(`NotPendingComplete`), and every submitted save does leave it
(`PendingDrains`). For a save that failed the waits return too. Two threads can write two versions out of order; three steps
let a version be collected while it is still queued or being written. What does
*not* hold with asynchronous saves is in section 4.

**`registry`.** Both modes of `async_save`, two checkpoints kept, so that the
third save collects, three training steps, I/O errors at every write, one crash.
`ResumesWhole` and
`RegisteredOnDisk` speak of jobs in which no save was cut short (`torn = {}`):
they say that the last-in-first-out queue, the collection of a step that is
still being written and the crash of an *idle* writer lose nothing. With a save
cut short neither is true of the code, see "observations"; nor are the older of
several kept checkpoints always whole after a crash of an asynchronous job,
which is why `RegisteredOnDisk` then speaks of the newest only. `NeverLost` is
about synchronous saves: a checkpoint as recent as the last one written stays,
also when saves fail half-way, until the process is started again after a save
was cut short; from then on it is not true of the code either ("observations").
`WaitReturns` is liveness of
`wait_for_saves`.

**`schedules`.** Three stages, four micro-batches, two iterations without
synchronisation between them, one buffered message per link, all four jobs. The
middle stage has a shorter DualPipe warmup than the outer ones, and stage 0 has
a steady state under 1F1B. A budget of three activations makes
`ActivationBuffer` fail, one of four does not. Passes get their own micro-batch
under 1F1B and GPipe (`MatchedPasses`; under DualPipe none returns, section 4), a schedule that says `Done` is complete (`SchedulesComplete`),
1F1B and GPipe reach their end (`UnidirectionalCompletes`), 1F1B implements the
abstract pipeline and so keeps its memory bound (`AbsSpec`).

**`arena`.** Two names, a full-width tensor and a half-precision one, eight
cells, one reset. Eight cells hold two or three tensors, the last one perhaps
only by its `total_size`, so that the copy panics. `TensorsIntact` is about what
`get` and handles find in the cells that `total_size` counts, `ReaderGetsTensor` about the reader without a lock.

**`pretraining`.** Checkpoints 0, 2, 4 and the final 5; one to three are kept;
the job is started three times, ended by a crash anywhere or by its return, in
either mode of saving. `StepsInWeights` relates the label of every file to the
updates in its tensors across resumes; `OnlyNewestTorn` and
`ResumeCostsOneInterval` (for two kept files or more, see "observations") say
what crashes, the death of the worker and the cleanup together may destroy; `DoneIsSaved` what a run that returned has saved;
`RunEnds` that `close` does not hang.

**`elastic`.** Two workers for a pool of one, so that recoveries compete for the
place and a worker recovers while the failure of either is handled; one of the
two is the trainer itself, which may shut down at any step of a handler. Three
strategies (`WaitForRecovery` changes no more state than `Abort`); one restart
allowed, so that the second failure exhausts them. `SomeoneMoves` says that the
handlers, which take two locks in opposite orders, never wait for each other in
a circle; it fails when the recovery keeps `active_workers` while it stores
the count. `DeadDetected` says that, while the monitor runs, a worker that stays
silent is marked in the end: the monitor always comes back from its handlers.

**`collectives`.** Three ranks, every program of three calls: in the second call
a fast rank may overwrite what a slow one has not read, in the third it may wait
in a generation that the second has not left. `AbsSpec` fails when either wait is left
out; `EveryCallReturns` is freedom from a rank left at the barrier.

**Bounds.** `MaxIterations`, `MaxResets`, `MaxStarts`, `MaxSteps` and `MaxCalls`
too are guards of the action that counts; `Capacity` (of the arena, of a link)
and `MaxAttempts` are parameters of the code. `MaxBatches`, `MaxStep`, `MaxVersion` and `MaxCrashes` are guards of
the action that counts, named as constants. `MaxStep` of `RegistryCheckpoint`
counts the steps done again after a crash too.

**Fairness.** Only threads that the operating system runs until they block are
fair: `WF` of the steps of a rank that is not blocked (`DualPipe`), of each stage (`PipelineSchedules`) and each rank
(`LocalCollectives`), of a rank inside `save()` and
of each executor thread (`DistributedCheckpoint`), of the training thread
inside a call and of the save thread (`RegistryCheckpoint`), of the trainer and
of its worker (`PreTraining`), of the monitor thread, of each recovery and of
the passing of time (`ElasticWorkers`). The arena has no fairness: only
safety is claimed. Training steps,
calls of `save`, `wait` or `stop`, heartbeats, starts and crashes are never
fair (`PreTraining`'s trainer is the loop itself and steps until it is done).
Failures are
alternatives of the same fair disjunction, so fairness does not rule them out.
No strong fairness is used.

**Deadlock** is checked in `dualpipe`, the checkpointers' runs, `elastic` and
`collectives`. `Terminating` stutters only when
the job is over (every stage idle with all its batches done, training
finished and the saves drained, `load()` raised, or all calls made). It is not checked where the
system really stops: a `train_step` that returned an error (`schedules`), a full
arena without resets (`arena`), a job that is not started again
(`pretraining`).

Every property of a passing run has a mutant in `PROJECT.json`: a plausible bug
in one definition (a warmup one too long, a receive of the newest message, an
error swallowed, a wait left out) that makes TLC violate it. The
mutated forms are next to the definitions, marked "Mutation of".

## 4. Where the code and its text disagree

Each of these is a run that TLC must find violated.

1. **`checkpoint_state`, `StateMatchesStep`.** `state_dict()` refers to the
   live tensors; the worker serialises them after `save()` returned. The
   metadata names one step, the file may hold another, or two, or nothing.
2. **`checkpoint_ranks`, `NeverLost`.** Every rank opens `metadata.json` with
   `"w"` and collects garbage, although the comment says that only rank 0
   saves. One rank truncates what another has just finished.
3. **`registry_wait`, `WaitWaits`.** "Wait for all pending saves to complete":
   between the pop of a save and the store of `save_in_progress` the queue is
   empty and the flag is clear, so the wait returns before the save is written.

**Observations without a run**, met while modelling:

`distributed_checkpoint.py`

- Line 597 says "Validate we can load latest before deleting". The code tests
  that the directory of the latest checkpoint exists; an asynchronous save
  creates the directory, `metadata.json` and its place in the list before any
  tensor is written. Old checkpoints go while the new one has no data.
- `keep_n_checkpoints = 0` keeps everything, because `[:-0]` is empty.
- `wait_for_save` looks for the path it is given in `_pending_saves`, whose keys
  are the paths of the `checkpoint.pt` (lines 394-399). `save()` returns the
  directory (line 390): `wait_for_save(save(...))` returns `True` at once.
- "True if save completed" (line 206) and "True if all saves completed" (line
  223): the two also return `True` for saves that failed.

`distributed_checkpoint.rs`

- "Validate newest checkpoint before deleting old one": a checkpoint is valid as
  soon as its metadata is written, which is the first file; weights that are
  missing are accepted.
- `load_latest` takes every `step_N` directory for a checkpoint. After a
  crash in the middle of a save the newest one either fails to load although an
  older one is intact, or, when the small files are missing, loads defaults
  without an error. In the second case training begins again at step 1 and its
  saves write over the directories of older steps, from their first file on:
  with synchronous saves too, save 1, a crash in save 2 and another in the next
  save 1 leave no checkpoint that is whole.
- The collection counts checkpoints that are only queued among the
  `max_checkpoints` it keeps. After a crash, which forgets the queue, fewer are
  left, and the older ones may be directories whose removal was cut short.
- `stop()` clears `running` and the thread leaves with saves still
  queued. They are dropped; `wait_for_saves` afterwards does not return.

`dualpipe.py`

- `get_prev_rank` and `get_next_rank` return ranks within the pipeline
  group where `dist.isend` expects global ranks.

`pipeline.rs`

- `train_step` ("Execute one full training iteration with DualPipe schedule")
  calls `receive_backward` for every backward pass. The end stage of each
  direction has nobody to receive from and returns "Failed to receive backward
  gradient" (lines 1246-1255), whatever the interleaving; the other stages wait
  for its gradient. This is the `Fail` alternative of `Backward`;
  `DualPipeNeverSteps` proves that no backward pass and no iteration completes.
- An odd number of micro-batches loses one ("Total micro-batches (will be split
  between streams)").
- With three stages or more the DualPipe warmups differ, and sends that are not
  buffered form a circle. 1F1B needs one buffered message per link.
- An error skips `clear_activations`; a receive uses the placeholder shape `[1]`.

`shared_memory.rs`

- F16 and BF16 take twice the space that `total_size` counts: the next
  allocation overwrites the tail, or the copy panics at the end of the arena,
  after the header was written.
- `create` truncates an arena of that name; a process that attaches starts at
  offset 0 and would allocate over what is there; dropping unlinks the file.

`pipeline.py` (Python pretraining)

- A newest file cut short makes `load_latest` raise for ever, though older
  intact files exist.
- A resumed run opens the file it resumed from again: two crashes can lose a
  checkpoint that had been completed, and with one kept file all of them.
- The save thread dies of the first exception of `torch.save`; later saves are
  queued and never written, and nothing reports it.
- A checkpoint is labelled before the increment: every resume repeats one step.
  Files written by the thread may mix updates.
- "keeping only the last N" (line 1075): the cleanup of an asynchronous save
  runs before its file is there, so `keep_last_n + 1` files can stay.
- With `keep_last_n = 1` and a save thread, the one file that the cleanup keeps
  may be the one the thread has only opened: a crash then leaves nothing to
  resume from, without a second crash.
- With `resume=False` in an old directory the cleanup deletes the new files,
  whose labels are smaller.

`fault_tolerance.rs`

- Handlers run after the lock is released. A recovery handled before the failure
  it answers leaves a healthy worker out of the pool, the opposite order a dead
  one in it; `check_workers` marks a worker that has beaten since the list was
  made, and flags workers that are still starting, and its own while it shuts
  down.
- `current_workers` is stored after the lock it was computed under: updates are
  lost. `can_continue` stays true after `AbortTraining`.
- `start_training` does not look at `max_workers`.
- `shutdown` of one `ElasticTrainer` stops its monitor, and with it the watch
  over every other worker in that monitor's table.
- No code of the crate registers `handle_failure` and `handle_recovery` with the
  monitor (`ElasticTrainer`, lines 688-730, does not); the tests call them
  directly (lines 1618, 1679). The mutex of the recovery handlers is what keeps
  two recoveries apart. Called directly by several threads, one recovery may
  hold `active_workers` and wait for `config`, behind a writer that waits for
  a failure that holds `config` and waits for `active_workers`.
- `start_training` takes `active_workers` then `config`, `handle_failure` the
  other way round, both for long enough to wait for each other. Starting while
  the monitor runs is the only way to meet it.
- `ElasticTrainer` registers its own rank only. The preemption flag is set before
  the signal and the time that readers then look at.

`backend.rs`

- `main.rs` makes a group of `world_size` ranks in every process and keeps one of
  them: the barrier waits for threads that do not exist, so the first
  `all_reduce` of the fallback never returns.
- An error skips the second wait. A caller that goes on to its next call, as the
  gradient loop of `main.rs` does, overwrites slots that slow ranks have not
  read, and its waits belong to another generation than theirs.

`graceful_degradation.py`

- `BackendHealthMonitor` runs callbacks under a lock that is not reentrant; the
  callback that chooses another backend calls `is_healthy`, which takes the
  lock. The monitor thread blocks itself at the first change of health of the
  active backend, so there is no further behaviour to model.

`fault_tolerance.py`

- The emergency checkpoint passes a path where a suffix is expected, so the save
  always raises, which is only logged.
- A signal between the registration of the handlers and the restart from a
  checkpoint makes the final save overwrite `checkpoint_final.pt` with untrained
  weights; a second signal during `stop()` skips it. All ranks write that
  file. A restore that fails starts from scratch without saying so.
- With `max_restarts = 0` the wrapped function is not called at all.

## 5. What is proved

Every invariant, action property and refinement that a passing run checks is
also proved, for every value of the constants that the assumption of its module
allows. The assumptions are type declarations: positive numbers of stages,
ranks, intervals and kept checkpoints, finite sets of workers. Two groups of
theorems have a hypothesis besides, which is what the configuration of the run
says too:

- `Synchronous`, one rank and synchronous saves, for what the Python
  checkpointer promises about the contents of its files. Without it the
  promises are false (`checkpoint_state`, `checkpoint_ranks`).
- `Resume`, the flag of the job, for the pretraining loop's files: a run that
  starts afresh in an old directory lets the cleanup remove its own files
  (section 4).

| Module | Theorem | Statement |
|---|---|---|
| `DualPipe_proofs` | `Invariance` | `Spec => []IInv` |
| | `TypeCorrect`, `GradientsMatched`, `ActivationsMatched`, `StashBounded`, `DeadlockFree` | `Spec => []...` of `TypeOK`, `MatchedGradients`, `MatchedActivations`, `StashBound`, `NoCircularWait` |
| | `Refinement` | `Spec => AbsSpec` |
| `PipelineSchedules_proofs` | `BaseInvariance`, `Invariance` | `Spec => []Base`, `Spec => []IInv` |
| | `TypeCorrect`, `SchedulesAreComplete`, `PassesMatch` | `TypeOK`, `SchedulesComplete`, `MatchedPasses` |
| | `DualPipeNeverSteps` | `Spec => [](job = "DualPipe" => \A s \in Stage : done[s] = 0 /\ last[s] = NoPass)` |
| | `Refinement` | `Spec => AbsSpec` |
| `DistributedCheckpoint_proofs` | `TypeCorrect`, `WaitedForIsWritten` | `TypeOK`, `NotPendingComplete`; any ranks, any mode |
| | `Invariance` | `Synchronous /\ Spec => []SyncInv` |
| | `StateRestored`, `LatestIsLoadable`, `SavedIsKept`, `PublishedIsImmutable` | under `Synchronous`: `StateMatchesStep`, `LatestLoadable`, `NeverLost`, `PublishedImmutable` |
| | `Refinement` | `Synchronous /\ Spec => AbsSpec` |
| `RegistryCheckpoint_proofs` | `BaseInvariance`, `Invariance` | `Spec => []Base`, `Spec => []IInv` |
| | `TypeCorrect`, `ResumesAreWhole`, `SavedIsKept`, `RegisteredAreOnDisk` | `TypeOK`, `ResumesWhole`, `NeverLost`, `RegisteredOnDisk` |
| `PreTraining_proofs` | `BaseInvariance`, `TypeCorrect`, `StepsAreInWeights` | `Base`, `TypeOK`, `StepsInWeights` |
| | `DirectoryInvariance`, `LossInvariance` | under `Resume`: `Directory`, then `Spaced` and `Deep` |
| | `OnlyNewestIsTorn`, `DoneMeansSaved`, `ResumeIsCheap` | under `Resume`: `OnlyNewestTorn`, `DoneIsSaved`, `ResumeCostsOneInterval` |
| `SharedMemoryArena_proofs` | `Invariance`, `TypeCorrect`, `TensorsStayIntact`, `ReaderGets` | `IInv`, `TypeOK`, `TensorsIntact`, `ReaderGetsTensor` |
| `ElasticWorkers_proofs` | `Invariance`, `TypeCorrect`, `NoLockCycle` | `IInv`, `TypeOK`, `SomeoneMoves` |
| | `PoolBounded` | `PoolBound /\ Spec => []PoolBound` |
| `LocalCollectives_proofs` | `Invariance`, `TypeCorrect` | `IInv`, `TypeOK` |
| | `Refinement` | `Spec => AbsSpec` |

None of the properties is inductive. For each module, the invariant and why it
says what it says:

### 5.1 DualPipe

A received tensor is right because the link held the right one; the link holds
it because the sender's stash did; the stash held it because of the position of
the sender in its schedule. `IInv` is the conjunction of `TypeOK` and, for
every stage,

- `LocalInv`: the schedule entry determines how `fwd` and `bwd` are related
  (backward lags behind by the warmup in the steady state, forward is complete
  in the cooldown), and no pass has raised;
- `StashInv`: exactly the micro-batches between `bwd` and `fwd` are stashed,
  each with the tensor of its own training step;
- `LinkInv`: a link holds the consecutive micro-batches that the sender is
  ahead of the receiver, and neighbours are at most one training step apart.

`StepFrame` says once and for all that a step of stage `t` only has
to re-establish the parts of `IInv` at `t` and at its two links. Then there is
one lemma per action, and `NextIInv` puts them together.

**Stash bound.** `StashInv` makes the stashed set an interval whose size is
`FwdDone - BwdDone`; `LocalInv` bounds that by the warmup plus one.

**Deadlock freedom.** Suppose that no rank can step. Then every rank is at a
blocking receive, at `wait_all_sends`, or idle for good (`Blocked`). Take the
*last* rank that waits for a gradient (`LastOf`): its successor does not, and in
each of the other cases the counters that the two empty links equate contradict
the schedules of the two ranks. So no rank waits for a gradient. Take the
*first* rank that waits for an activation (`FirstOf`): its predecessor is either
at `wait_all_sends`, where `WaitEnds` shows that it can go on, or idle for good,
which the counters exclude. What remains is ranks at `wait_all_sends` or idle,
and `WaitEnds` applies to each of the former.
`FirstOf` rests on the well-foundedness of `<` on the naturals.

**Refinement.** `forwarded[s]` is the number of micro-batches stage `s` has run
forward since the start of the job, `reversed[s]` the number it has run
backward, `done` is `done`. `Forward` maps to `PassForward`, `Backward` to
`PassBackward`, `WaitAllSends` to `FinishStep`, everything else to a stutter.
`LinkFlow` gives the guards: a stage that may run forward is behind its
predecessor, and its window is not full.

### 5.2 PipelineSchedules

`Base` says for each scheduler how its phase, its step counter and its two
indices are related (`Sched`), and what may be left of the action pulled last
(`Remaining`): its passes are ordered, at most one per direction and stream, and
a pass left is the one counted last. `SchedulesComplete` follows. Under
1F1B and GPipe, `Chained` adds for each stage and each link that the micro-batches
of what is stored or under way are consecutive, modulo the number of
micro-batches, from the one the reader expects to the one the writer adds next.
The counts are modular because neighbours may be in different iterations.

**DualPipe.** `Stuck` says that no stage has passed anything backward. Where
there is a neighbour downstream, what it has stored, what is on the link and
what is being sent are together at most what this stage has stored: so no
gradient is ever sent, and where there is no neighbour the receive is an error.

**Refinement.** The chains are modular, hence do not say how far two stages are
apart. `Counted` does: over all iterations, a stage has passed forward
as many micro-batches as the next one and those on the link between them, and
the same for gradients. A stage that receives therefore is behind its
neighbour; the difference of `fwd` and `bwd` under 1F1B gives the window.

### 5.3 The two checkpointers

`SyncInv` relates the point that `save()` has reached to the directory of the
version being saved: it is never listed before its data is complete, every
listed version is below `next`, and the *latest* listed one is whole and at
least as recent as the last save that returned. Nothing can be said of older
ones, which a crash during a collection leaves in halves; that `load()` and
the collection look at the latest first is what makes this enough.

`WaitedForIsWritten` needs another one, `AnyInv`, for any number of ranks and
executor threads: there is a version `c` that all ranks are saving, none has
gone past the barrier before the others have arrived (`Round`), every version is
submitted once (`Queued`, `Worked`), and what metadata promises is
pending, written, lost, or being removed by a rank that will remove the metadata
too (`Covers`).

`Good`, of the Rust checkpointer, holds while no save was cut short: files are
filled in the order of the writes, a missing file is one not written yet or
removed when there was a newer directory, and no directory is ahead of the
training state. Last in, first out makes the newest directory the one that is
written first. After a crash the queue is gone but `KeptWhole` is not re-established:
therefore `RegisteredOnDisk` is weaker then.
`NeverLost` also speaks of a first run in which synchronous saves have failed,
where `Good` is lost. `FirstRun` holds there: every registered step is whole but
the one that is being removed, a save writes to a step above all of them, and the
last one written is the newest registered, or about to be.

### 5.4 PreTraining

Four layers, each proved from those before it. `Base` counts updates: a run adds
at most `MaxSteps` of them, and a file's label is at most the least of
its tensors. `Directory`: files are begun in the order of their labels and the
queue continues them, so only the newest can be unfinished; the cleanup removes
the oldest. `Spaced`: the labels ever saved are a `save_interval` apart at most
and are continued by the step the trainer is at. `Deep`: each start but the first
has cost at most the newest file, so that of `keep_last_n` files there is one left
for up to `keep_last_n` starts.

`ResumeCostsOneInterval` has the premise `keep > 1`: `FirstTorn`, on which `Deep`
rests, needs a complete file beside the one that the worker has only opened, and
with one kept file the cleanup may have removed it (section 4).

### 5.5 The others

*SharedMemoryArena.* Between two resets the free offset only grows and every
write is at or above it; whatever a handle of this epoch points at lies below
(`Below`). So neither the owner nor a reader that does not lock sees it change.

*ElasticWorkers.* The mutex makes recoveries follow one another (`OneRecovery`),
and each inserts a worker that is not in the pool (`InsertsNew`). `PoolBounded`
starts from any pool within its bound: room is tested and the worker inserted
under one lock, and `CountsBound` says of the two counts still to be stored that
they are within the bound too, stale as they may be. `NoLockCycle` looks at who
holds which lock: when the monitor waits, it
is for the one recovery that holds the mutex and is about to insert or to store,
and that one is not waiting for anybody.

*LocalCollectives.* The barrier lets all ranks out at once though they notice at
different times. `InStep`: counting a rank as out as soon as `arrived` is
emptied, all ranks are in the same round, and all or none are between the
two waits. Hence the slots read hold the tensors of this very call
(`SlotsWritten`).

### 5.6 Only model-checked

`AllStepsComplete`, `PendingDrains`, `WaitReturns`, `UnidirectionalCompletes`,
`RunEnds`, `DeadDetected` and `EveryCallReturns` are liveness under fairness,
which the provers do not reach, nor do they reach `ENABLED`. The three findings
of section 4 are counterexamples that TLC finds. Nothing here is defined by
recursion over data; the theorems do not need the induction theorems that take
an operator as a parameter.

## 6. What is not modelled

Of the modelled components:

- `dualpipe.py`: the CUDA communication stream (an `isend` issued there does
  not wait for the computing stream), global ranks of peers, `partition_model`,
  the learning-rate scheduler, the measurements. Numeric content of tensors,
  among it which loss gradient the last stage starts from.
- `distributed_checkpoint.py`: the DCP format, implemented by torch; the cloud
  upload, a placeholder; the completion callback. Loading a chosen version,
  and `load_to_different_topology`, which calls `load`. A caller that goes on
  after `save()` raised over the metadata: the directory is as after a
  restart, but with `async_save` the same version would be submitted twice.
- `distributed_checkpoint.rs`: loading a chosen step, `shard_state` and
  `merge_shards`, `compare_checkpoints`, counters and timestamps. When to save
  is nondeterministic, so `should_checkpoint`'s clock plays no part. One rank:
  the path of a checkpoint (line 580) has no rank in it, and several ranks with
  one directory would write the same files. The tensors that `save` clones
  (line 540) are candle's, which share their storage; that they are not changed
  in place is assumed. `validate_before_delete = false` and
  `max_checkpoints = 0`.
- `pipeline.rs`: the learning-rate scheduler, metrics, the shapes of tensors.
- `shared_memory.rs`: shapes of more than eight dimensions, of which a header
  keeps eight and a reader panics; `create` on a name in use, allocation by an attached
  process, dropping, the serialised form of handles, Arrow and tensor views.
- `pipeline.py`: the second call of `close`, which finds the thread gone;
  curriculum and learning rate, the monitor, the data, the MoE and
  communication helpers of the same file.
- `fault_tolerance.rs`: preemption, `start_training` after the monitor was
  started, handlers called by others than the monitor (section 4),
  `unregister_worker`, `FailureInjector`, `RetryManager`, NaN
  detection, checkpoint validation, the health endpoint.
- `backend.rs`: callers that go on after an error, and groups of which some rank
  is not there (section 4). Panics: none is reachable, since no slot is read
  before it is written (`TypeOK`).
- In all: the operating system loses nothing that a process wrote. A crash of
  the process, not of the machine.

The components without a module, and why, are in `PROJECT.json`.

## 7. Plan

Done: (1) `MicroBatchPipeline`, `DualPipe`, their run and proofs; (2)
`StableCheckpoint`, `DistributedCheckpoint`; (3) `RegistryCheckpoint`; (4)
`ElasticWorkers`; (5) `PreTraining`; (6) `PipelineSchedules`; (7)
`SharedMemoryArena`; (8) `Collective`, `LocalCollectives`. The Python
`graceful_degradation.py` and `fault_tolerance.py` were read for a module of
their own; section 4 says why there is none. What is left of the code is
numeric, sequential or outside the repository.

The proofs are done for every property that is not liveness: each invariant,
action property and refinement of a passing run is the statement of a theorem.
What is left of them:

1. The refinement of `StableCheckpoint` by `RegistryCheckpoint` with synchronous
   saves, while no save is cut short: first a run, then from `Good`.
2. `DistributedCheckpoint` with asynchronous saves: which weaker promise about
   the restored tensors does hold when no step is taken while a save is pending.
3. The safety half of the liveness properties: measures that every fair step of
   `PreTraining` and of `PipelineSchedules` decreases.

## 8. Running it

    tlc -workers 2 -config DualPipe.cfg MCDualPipe.tla
    tlc -workers 2 -config CheckpointSync.cfg MCDistributedCheckpoint.tla
    tlc -workers 2 -config Registry.cfg MCRegistryCheckpoint.tla
    tlc -workers 2 -config Schedules.cfg MCPipelineSchedules.tla
    tlc -workers 2 -config Arena.cfg MCSharedMemoryArena.tla
    tlc -workers 2 -config PreTraining.cfg MCPreTraining.tla
    tlc -workers 2 -config ElasticWorkers.cfg MCElasticWorkers.tla
    tlc -workers 2 -config Collectives.cfg MCLocalCollectives.tla
    for m in *_proofs.tla; do tlapm $m; done

Every `.cfg` has one line in the table of section 3; `PROJECT.json` names the
module and the properties of each run.
