------------------------ MODULE DistributedCheckpoint ------------------------
(***************************************************************************)
(* src/src/deepseek/torch/training/distributed_checkpoint.py: the ranks of *)
(* a training job calling DistributedCheckpointer.save on one checkpoint   *)
(* directory, the worker threads of rank 0's AsyncCheckpointSaver, and the *)
(* crash and restart of the job.                                           *)
(*                                                                         *)
(* Two tensors stand for the model: a checkpoint refers to the live ones   *)
(* (state_dict() does not copy) and torch.save writes one after the other. *)
(* A tensor is represented by the training step it comes from, a file by   *)
(* the sequence of what was written to it, 0 for what is missing. What a   *)
(* process wrote survives its crash. The format is PYTORCH.                *)
(***************************************************************************)
EXTENDS Integers, Sequences, FiniteSets

CONSTANTS
  Ranks,      \* 0 .. world_size-1
  Workers,    \* threads of the ThreadPoolExecutor (max_workers)
  AsyncSave,  \* config.async_save
  Keep,       \* config.keep_n_checkpoints
  ValidateBeforeDelete, \* config.validate_before_delete
  MaxStep,    \* bound: training steps
  MaxVersion, \* bound: checkpoint versions
  MaxCrashes  \* bound: crashes of the job

ASSUME CheckpointAssumption ==
  /\ 0 \in Ranks /\ IsFiniteSet(Ranks) /\ IsFiniteSet(Workers)
  /\ AsyncSave \in BOOLEAN /\ ValidateBeforeDelete \in BOOLEAN
  /\ Keep \in Nat /\ MaxStep \in Nat /\ MaxVersion \in Nat /\ MaxCrashes \in Nat

Version == 1 .. MaxVersion
Step == 0 .. MaxStep

VARIABLES
  disk,      \* disk[v]: the directory checkpoint_v and its two files
  step,      \* the trainer's global_step
  params,    \* the live tensors
  pc,        \* pc[r]: what rank r does next
  next,      \* DistributedCheckpointer._next_version, on each rank
  sum,       \* metadata.checksum, the files the digest was computed from
  arrived,   \* ranks that have reached dist.barrier()
  gcTodo,    \* the rest of to_delete in _garbage_collect
  gcLatest,  \* the last of the checkpoints _garbage_collect listed
  gcFiles,   \* the files shutil.rmtree has listed and not removed
  queue,     \* saves submitted to the executor
  job,       \* job[w]: the save worker w runs, 0 for none
  pending,   \* AsyncCheckpointSaver._pending_saves, by the version whose
             \* checkpoint.pt is the key; save() returns the directory instead
  lost,      \* versions whose save or removal was cut short (history)
  returned,  \* the step of the last save() that returned on rank 0 (history)
  crashes

saver == <<queue, job, pending, lost>>
collector == <<gcTodo, gcLatest, gcFiles>>
vars == <<disk, step, params, pc, next, sum, arrived, collector, saver, returned, crashes>>
-----------------------------------------------------------------------------
NoFile == <<>>
NoMeta == [state |-> "absent", step |-> 0, sum |-> NoFile]
PartialMeta == [state |-> "partial", step |-> 0, sum |-> NoFile]
Meta(k, s) == [state |-> "written", step |-> k, sum |-> s]
Absent == [dir |-> FALSE, data |-> NoFile, meta |-> NoMeta]

(* Mutation of Opened: torch.save opens the file for appending. *)
OpenedForAppend(f) == f \o <<params[1], 0>>

(* torch.save opens a file, whatever it held, and writes the first tensor. *)
Opened(f) == <<params[1], 0>>

(* torch.load returns; on a file that is cut short it raises. *)
Complete(f) == f # NoFile /\ f[2] # 0

(* _list_checkpoints: the directories whose metadata.json can be parsed. *)
Listed == {v \in Version : disk[v].meta.state = "written"}

(* get_latest_checkpoint, 0 for None. *)
Latest == IF Listed = {} THEN 0 ELSE CHOOSE v \in Listed : \A u \in Listed : u <= v

(* Mutation of NextVersion: the number of checkpoints instead of the last. *)
NextVersionCount == Cardinality(Listed) + 1

(* _get_next_version *)
NextVersion == Latest + 1

(* Mutation of ToDelete: the oldest ones are kept. *)
ToDeleteNewest == {v \in Listed : Cardinality({u \in Listed : u < v}) >= Keep}

(* checkpoints[:-keep_n_checkpoints], which is empty when that is 0. *)
ToDelete == IF Keep = 0 THEN {}
            ELSE {v \in Listed : Cardinality({u \in Listed : u > v}) >= Keep}

(* The validation before a deletion, where it is configured: the directory  *)
(* of the latest of the checkpoints that were listed exists.                *)
LatestValidated(r) == ValidateBeforeDelete => disk[gcLatest[r]].dir
-----------------------------------------------------------------------------
Init ==
  /\ disk = [v \in Version |-> Absent]
  /\ step = 0
  /\ params = <<0, 0>>
  /\ pc = [r \in Ranks |-> "TRAIN"]
  /\ next = [r \in Ranks |-> 1]
  /\ sum = [r \in Ranks |-> NoFile]
  /\ arrived = {}
  /\ gcTodo = [r \in Ranks |-> {}]
  /\ gcLatest = [r \in Ranks |-> 0]
  /\ gcFiles = [r \in Ranks |-> {}]
  /\ queue = <<>>
  /\ job = [w \in Workers |-> 0]
  /\ pending = {}
  /\ lost = {}
  /\ returned = 0
  /\ crashes = 0

(* A training step, collective: every rank is out of save(). The trainer     *)
(* then calls save() on every rank, or on none.                             *)
TrainStep ==
  /\ \A r \in Ranks : pc[r] = "TRAIN" /\ next[r] <= MaxVersion
  /\ step < MaxStep
  /\ step' = step + 1
  /\ params' = <<params[1] + 1, params[2] + 1>>
  /\ \E entry \in {"TRAIN", "SAVE"} : pc' = [r \in Ranks |-> entry]
  /\ arrived' = {}
  /\ UNCHANGED <<disk, next, sum, collector, saver, returned, crashes>>

(* save: mkdir, the checkpoint dictionary, then _save_pytorch: rank 0       *)
(* submits the save or writes the file itself, the others go to the barrier.*)
SaveBegin(r) ==
  LET v == next[r] IN
  /\ pc[r] = "SAVE"
  /\ disk' = [disk EXCEPT ![v].dir = TRUE]
  /\ IF r = 0 /\ AsyncSave
     THEN /\ queue' = Append(queue, v)
          /\ pending' = pending \cup {v}
          /\ lost' = lost \ {v}
     ELSE UNCHANGED <<queue, pending, lost>>
  /\ IF r = 0 /\ ~AsyncSave
     THEN pc' = [pc EXCEPT ![r] = "WRITE"] /\ UNCHANGED arrived
     ELSE pc' = [pc EXCEPT ![r] = "BARRIER"] /\ arrived' = arrived \cup {r}
  /\ UNCHANGED <<step, params, next, sum, collector, job, returned, crashes>>

(* torch.save in save() itself: opens the file, writes the tensors. *)
WriteBegin(r) ==
  /\ pc[r] = "WRITE"
  /\ disk' = [disk EXCEPT ![next[r]].data = Opened(@)]
  /\ pc' = [pc EXCEPT ![r] = "WRITING"]
  /\ UNCHANGED <<step, params, next, sum, arrived, collector, saver, returned, crashes>>

WriteEnd(r) ==
  /\ pc[r] = "WRITING"
  /\ disk' = [disk EXCEPT ![next[r]].data[2] = params[2]]
  /\ pc' = [pc EXCEPT ![r] = "BARRIER"]
  /\ arrived' = arrived \cup {r}
  /\ UNCHANGED <<step, params, next, sum, collector, saver, returned, crashes>>

(* Mutation of WriteFails: the error is swallowed and save() goes on. *)
WriteFailsSilently(r) ==
  /\ pc[r] \in {"WRITE", "WRITING"}
  /\ pc' = [pc EXCEPT ![r] = "BARRIER"]
  /\ arrived' = arrived \cup {r}
  /\ UNCHANGED <<disk, step, params, next, sum, collector, saver, returned, crashes>>

(* torch.save raises, when it opens the file or later, and with it save();  *)
(* the caller may go on, and the version is used again.                     *)
WriteFails(r) ==
  /\ pc[r] \in {"WRITE", "WRITING"}
  /\ pc' = [pc EXCEPT ![r] = "TRAIN"]
  /\ UNCHANGED <<disk, step, params, next, sum, arrived, collector, saver, returned, crashes>>

Barrier(r) ==
  /\ pc[r] = "BARRIER"
  /\ arrived = Ranks
  /\ pc' = [pc EXCEPT ![r] = "CHECKSUM"]
  /\ UNCHANGED <<disk, step, params, next, sum, arrived, collector, saver, returned, crashes>>

(* Mutation of Checksum: the digest of the first save is kept. *)
ChecksumCached(r) ==
  /\ pc[r] = "CHECKSUM"
  /\ sum' = [sum EXCEPT ![r] = IF @ = NoFile THEN disk[next[r]].data ELSE @]
  /\ pc' = [pc EXCEPT ![r] = "META"]
  /\ UNCHANGED <<disk, step, params, next, arrived, collector, saver, returned, crashes>>

(* _compute_checksum, over whatever files there are. *)
Checksum(r) ==
  /\ pc[r] = "CHECKSUM"
  /\ sum' = [sum EXCEPT ![r] = disk[next[r]].data]
  /\ pc' = [pc EXCEPT ![r] = "META"]
  /\ UNCHANGED <<disk, step, params, next, arrived, collector, saver, returned, crashes>>

(* open("metadata.json", "w") truncates the file. *)
MetaOpen(r) ==
  /\ pc[r] = "META"
  /\ disk' = [disk EXCEPT ![next[r]].meta = PartialMeta]
  /\ pc' = [pc EXCEPT ![r] = "META_WRITE"]
  /\ UNCHANGED <<step, params, next, sum, arrived, collector, saver, returned, crashes>>

(* json.dump. Over what another rank has written since, a shorter text      *)
(* leaves the end of the longer one, which does not parse.                  *)
MetaWrite(r) ==
  LET v == next[r] IN
  /\ pc[r] = "META_WRITE"
  /\ \E m \in {Meta(step, sum[r])} \cup
              (IF disk[v].meta.state = "written" THEN {PartialMeta} ELSE {}) :
       disk' = [disk EXCEPT ![v].meta = m]
  /\ next' = [next EXCEPT ![r] = @ + 1]
  /\ pc' = [pc EXCEPT ![r] = "GC"]
  /\ UNCHANGED <<step, params, sum, arrived, collector, saver, returned, crashes>>

(* open or json.dump raises, and with it save(): the file stays as it is    *)
(* and the version is not counted. The error ends the job, which waits to   *)
(* be started again.                                                        *)
MetaFails(r) ==
  /\ pc[r] \in {"META", "META_WRITE"}
  /\ pc' = [pc EXCEPT ![r] = "RAISED"]
  /\ UNCHANGED <<disk, step, params, next, sum, arrived, collector, saver, returned, crashes>>

(* _garbage_collect: the list of what to delete. *)
GCList(r) ==
  /\ pc[r] = "GC"
  /\ gcTodo' = [gcTodo EXCEPT ![r] = ToDelete]
  /\ gcLatest' = [gcLatest EXCEPT ![r] = Latest]
  /\ pc' = [pc EXCEPT ![r] = "GC_LOOP"]
  /\ UNCHANGED <<disk, step, params, next, sum, arrived, gcFiles, saver, returned, crashes>>

Oldest(S) == CHOOSE v \in S : \A u \in S : v <= u

(* The next checkpoint of the list: shutil.rmtree lists its files. *)
GCNext(r) ==
  LET v == Oldest(gcTodo[r]) IN
  /\ pc[r] = "GC_LOOP"
  /\ gcTodo[r] # {} /\ LatestValidated(r)
  /\ IF disk[v].dir
     THEN /\ gcFiles' = [gcFiles EXCEPT ![r] =
                           (IF disk[v].data # NoFile THEN {"data"} ELSE {})
                           \cup (IF disk[v].meta # NoMeta THEN {"meta"} ELSE {})]
          /\ pc' = [pc EXCEPT ![r] = "GC_RMTREE"]
          /\ UNCHANGED gcTodo
     ELSE /\ gcTodo' = [gcTodo EXCEPT ![r] = @ \ {v}]
          /\ UNCHANGED <<gcFiles, pc>>
  /\ UNCHANGED <<disk, step, params, next, sum, arrived, gcLatest, saver, returned, crashes>>

(* rmtree removes a listed file, in the order of the directory. When       *)
(* another rank has removed it, rmtree raises and the loop goes on.         *)
GCUnlink(r) ==
  LET v == Oldest(gcTodo[r]) IN
  /\ pc[r] = "GC_RMTREE"
  /\ \E f \in gcFiles[r] :
       /\ disk' = IF f = "data" THEN [disk EXCEPT ![v].data = NoFile]
                  ELSE [disk EXCEPT ![v].meta = NoMeta]
       /\ IF (f = "data" /\ disk[v].data = NoFile) \/ (f = "meta" /\ disk[v].meta = NoMeta)
          THEN /\ gcFiles' = [gcFiles EXCEPT ![r] = {}]
               /\ gcTodo' = [gcTodo EXCEPT ![r] = @ \ {v}]
               /\ pc' = [pc EXCEPT ![r] = "GC_LOOP"]
          ELSE /\ gcFiles' = [gcFiles EXCEPT ![r] = @ \ {f}]
               /\ UNCHANGED <<gcTodo, pc>>
  /\ UNCHANGED <<step, params, next, sum, arrived, gcLatest, saver, returned, crashes>>

(* rmtree removes the directory, or raises because it is not empty. *)
GCRmdir(r) ==
  LET v == Oldest(gcTodo[r]) IN
  /\ pc[r] = "GC_RMTREE"
  /\ gcFiles[r] = {}
  /\ disk' = IF disk[v].data = NoFile /\ disk[v].meta = NoMeta
             THEN [disk EXCEPT ![v].dir = FALSE] ELSE disk
  /\ gcTodo' = [gcTodo EXCEPT ![r] = @ \ {v}]
  /\ pc' = [pc EXCEPT ![r] = "GC_LOOP"]
  /\ UNCHANGED <<step, params, next, sum, arrived, gcLatest, gcFiles, saver, returned, crashes>>

(* The end of _garbage_collect, and of save(). *)
SaveReturn(r) ==
  /\ pc[r] = "GC_LOOP"
  /\ gcTodo[r] = {} \/ ~LatestValidated(r)
  /\ gcTodo' = [gcTodo EXCEPT ![r] = {}]
  /\ gcLatest' = [gcLatest EXCEPT ![r] = 0]
  /\ pc' = [pc EXCEPT ![r] = "TRAIN"]
  /\ returned' = IF r = 0 THEN step ELSE returned
  /\ UNCHANGED <<disk, step, params, next, sum, arrived, gcFiles, saver, crashes>>
-----------------------------------------------------------------------------
(* Mutation of WorkerStart: the save leaves _pending_saves when it starts. *)
WorkerStartForgets(w) ==
  LET v == Head(queue) IN
  /\ job[w] = 0 /\ queue # <<>>
  /\ queue' = Tail(queue)
  /\ pending' = pending \ {v}
  /\ IF disk[v].dir
     THEN /\ disk' = [disk EXCEPT ![v].data = Opened(@)]
          /\ job' = [job EXCEPT ![w] = v]
          /\ UNCHANGED lost
     ELSE lost' = lost \cup {v} /\ UNCHANGED <<disk, job>>
  /\ UNCHANGED <<step, params, pc, next, sum, arrived, collector, returned, crashes>>

(* save_task on a worker thread: torch.save opens the file, which fails when *)
(* the directory is gone, then reads the live tensors one after the other.  *)
WorkerStart(w) ==
  LET v == Head(queue) IN
  /\ job[w] = 0 /\ queue # <<>>
  /\ queue' = Tail(queue)
  /\ IF disk[v].dir
     THEN /\ disk' = [disk EXCEPT ![v].data = Opened(@)]
          /\ job' = [job EXCEPT ![w] = v]
          /\ UNCHANGED <<pending, lost>>
     ELSE /\ pending' = pending \ {v}
          /\ lost' = lost \cup {v}
          /\ UNCHANGED <<disk, job>>
  /\ UNCHANGED <<step, params, pc, next, sum, arrived, collector, returned, crashes>>

(* The save is done; a file removed meanwhile is written to no purpose.     *)
(* event.set(), and the save leaves _pending_saves.                         *)
WorkerEnd(w) ==
  LET v == job[w] IN
  /\ v # 0
  /\ disk' = IF disk[v].data = NoFile THEN disk
             ELSE [disk EXCEPT ![v].data[2] = params[2]]
  /\ pending' = pending \ {v}
  /\ job' = [job EXCEPT ![w] = 0]
  /\ UNCHANGED <<step, params, pc, next, sum, arrived, collector, queue, lost, returned, crashes>>

(* Mutation of WorkerFails: no finally clause. *)
WorkerFailsForGood(w) ==
  /\ job[w] # 0
  /\ lost' = lost \cup {job[w]}
  /\ job' = [job EXCEPT ![w] = 0]
  /\ UNCHANGED <<disk, step, params, pc, next, sum, arrived, collector, queue, pending, returned,
                 crashes>>

(* torch.save raises: logged, and the rest as above. *)
WorkerFails(w) ==
  /\ job[w] # 0
  /\ pending' = pending \ {job[w]}
  /\ lost' = lost \cup {job[w]}
  /\ job' = [job EXCEPT ![w] = 0]
  /\ UNCHANGED <<disk, step, params, pc, next, sum, arrived, collector, queue, returned, crashes>>
-----------------------------------------------------------------------------
(* The job is killed and started again: __init__ on every rank, then load() *)
(* of the latest checkpoint if one is listed. A checksum mismatch is only   *)
(* logged; a file that is missing or cut short makes load() raise.          *)
Restart ==
  /\ crashes < MaxCrashes
  /\ \A r \in Ranks : pc[r] # "LOAD_FAILED"
  /\ crashes' = crashes + 1
  /\ next' = [r \in Ranks |-> NextVersion]
  /\ LET f == IF Listed = {} THEN <<0, 0>> ELSE disk[Latest].data
         ok == Listed = {} \/ Complete(f)
     IN /\ step' = IF ~ok THEN step ELSE IF Listed = {} THEN 0 ELSE disk[Latest].meta.step
        /\ params' = IF ok THEN f ELSE params
        /\ pc' = [r \in Ranks |-> IF ok THEN "TRAIN" ELSE "LOAD_FAILED"]
  /\ sum' = [r \in Ranks |-> NoFile]
  /\ arrived' = {}
  /\ gcTodo' = [r \in Ranks |-> {}]
  /\ gcLatest' = [r \in Ranks |-> 0]
  /\ gcFiles' = [r \in Ranks |-> {}]
  /\ queue' = <<>>
  /\ job' = [w \in Workers |-> 0]
  /\ pending' = {}
  /\ lost' = lost \cup pending \cup UNION {gcTodo[r] : r \in Ranks}
  /\ UNCHANGED <<disk, returned>>

(* Training is over or save() raised, and shutdown() has waited for every   *)
(* save; or load() raised.                                                  *)
Terminating ==
  /\ \/ pending = {} /\ (\A r \in Ranks : pc[r] = "TRAIN")
        /\ (step = MaxStep \/ \E r \in Ranks : next[r] > MaxVersion)
     \/ pending = {} /\ \E r \in Ranks : pc[r] = "RAISED"
     \/ \A r \in Ranks : pc[r] = "LOAD_FAILED"
  /\ UNCHANGED vars

RankNext(r) ==
  \/ SaveBegin(r) \/ WriteBegin(r) \/ WriteEnd(r) \/ WriteFails(r)
  \/ Barrier(r) \/ Checksum(r) \/ MetaOpen(r) \/ MetaWrite(r) \/ MetaFails(r)
  \/ GCList(r) \/ GCNext(r) \/ GCUnlink(r) \/ GCRmdir(r) \/ SaveReturn(r)

WorkerNext(w) == WorkerStart(w) \/ WorkerEnd(w) \/ WorkerFails(w)

Next ==
  \/ TrainStep \/ Restart \/ Terminating
  \/ \E r \in Ranks : RankNext(r)
  \/ \E w \in Workers : WorkerNext(w)

Spec == Init /\ [][Next]_vars

(* The threads run: a rank inside save(), a worker with something to do.    *)
FairSpec ==
  /\ Spec
  /\ \A r \in Ranks : WF_vars(RankNext(r))
  /\ \A w \in Workers : WF_vars(WorkerNext(w))
-----------------------------------------------------------------------------
Entry == {"TRAIN", "SAVE", "WRITE", "WRITING", "BARRIER", "CHECKSUM", "META", "META_WRITE",
          "GC", "GC_LOOP", "GC_RMTREE", "RAISED", "LOAD_FAILED"}
File == {NoFile} \cup (Nat \X Nat)
MetaFile == [state : {"absent", "partial", "written"}, step : Step, sum : File]

TypeOK ==
  /\ disk \in [Version -> [dir : BOOLEAN, data : File, meta : MetaFile]]
  /\ step \in Step /\ params \in Nat \X Nat
  /\ pc \in [Ranks -> Entry]
  /\ next \in [Ranks -> 1 .. MaxVersion + 1]
  /\ sum \in [Ranks -> File]
  /\ arrived \subseteq Ranks
  /\ gcTodo \in [Ranks -> SUBSET Version]
  /\ gcLatest \in [Ranks -> Version \cup {0}]
  /\ gcFiles \in [Ranks -> SUBSET {"data", "meta"}]
  /\ queue \in Seq(Version)
  /\ job \in [Workers -> Version \cup {0}]
  /\ pending \subseteq Version /\ lost \subseteq Version
  /\ returned \in Step /\ crashes \in 0 .. MaxCrashes

(* However often the job is killed, and wherever, the tensors are those of  *)
(* the step the trainer counts: what load() restores was written by one     *)
(* save, whole, and belongs to the metadata it is found with; and load() of *)
(* the latest checkpoint does not raise.                                    *)
StateMatchesStep ==
  /\ params = <<step, step>>
  /\ \A r \in Ranks : pc[r] # "LOAD_FAILED"

(* The latest checkpoint is the one its metadata describes, to the checksum.*)
LatestLoadable ==
  Latest # 0 =>
    LET c == disk[Latest] IN c.data = <<c.meta.step, c.meta.step>> /\ c.meta.sum = c.data

(* Once save() has returned there is, at every moment, a checkpoint on the   *)
(* disk from which the job can resume no earlier.                           *)
NeverLost ==
  returned # 0 =>
    \E v \in Listed : Complete(disk[v].data) /\ disk[v].meta.step >= returned

(* No save, in whatever incarnation of the job, writes to the data of a     *)
(* checkpoint that is listed and complete.                                  *)
PublishedImmutable ==
  [][\A v \in Listed :
       Complete(disk[v].data) => disk'[v].data \in {disk[v].data, NoFile}]_vars

(* What wait_all, shutdown, and wait_for_save with the path of a             *)
(* checkpoint.pt rely on: a save leaves _pending_saves only when its file is *)
(* written or its save failed. So a listed checkpoint that is not pending,   *)
(* is not being removed and whose save did not fail is complete. For a save *)
(* that failed the three return as well, and wait_for_save of what save()   *)
(* returned never waits: it is the path of the directory.                   *)
NotPendingComplete ==
  \A v \in Listed :
    \/ v \in pending \cup lost \/ \E r \in Ranks : v \in gcTodo[r]
    \/ Complete(disk[v].data)

(* Every save submitted ends, so that wait_all and shutdown return. *)
PendingDrains == \A v \in Version : v \in pending ~> v \notin pending

(* With synchronous saves on one rank, the files are a stable checkpoint. *)
Recoverable ==
  IF Listed # {} /\ Complete(disk[Latest].data) THEN disk[Latest].data[2] ELSE 0
Abs == INSTANCE StableCheckpoint WITH trained <- params[2], stable <- Recoverable
AbsSpec == Abs!Spec
=============================================================================
