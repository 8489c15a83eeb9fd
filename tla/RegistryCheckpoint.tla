-------------------------- MODULE RegistryCheckpoint --------------------------
(***************************************************************************)
(* rust-src/src/distributed/distributed_checkpoint.rs: the training thread *)
(* of one rank using DistributedCheckpointer, the thread that              *)
(* AsyncCheckpointSaver starts, the checkpoint directories, and the crash  *)
(* and restart of the process.                                             *)
(*                                                                         *)
(* Of a job of several ranks this is the only one that saves: the path has *)
(* no rank. At least one checkpoint is kept and validate_before_delete is  *)
(* set, which is its default. A state in the queue is a copy, although the *)
(* tensors that clone() gives share their storage.                         *)
(*                                                                         *)
(* Three files stand for those of a step_N directory: metadata.json,       *)
(* model_weights.safetensors (with the optimizer state, written the same   *)
(* way) and training_state.json (with the other small files). A TrainingState *)
(* is its step and the step its weights come from; a file that is whole    *)
(* holds that number. What was written survives a crash.                   *)
(***************************************************************************)
EXTENDS Integers, Sequences, FiniteSets, SequencesExt

CONSTANTS
  AsyncModes,     \* the values of config.async_save considered
  MaxCheckpoints, \* config.max_checkpoints
  MaxStep,        \* bound: training steps, those done again after a crash included
  MaxCrashes      \* bound: crashes of the process

ASSUME RegistryAssumption ==
  /\ AsyncModes \subseteq BOOLEAN
  /\ MaxCheckpoints \in Nat \ {0} /\ MaxStep \in Nat /\ MaxCrashes \in Nat

Step == 1 .. MaxStep
Thread == {"main", "saver"}

VARIABLES
  async,      \* config.async_save
  disk,       \* disk[s]: the directory step_s and its files
  registry,   \* DistributedCheckpointer.registry, its keys
  live,       \* the training state
  pc,         \* what the training thread does next
  pending,    \* pending_saves
  running,    \* AsyncCheckpointSaver.running
  inProgress, \* save_in_progress
  saver,      \* what the save thread does next
  job,        \* job[t]: the state thread t writes to the disk
  at,         \* at[t]: the write it is at, 0 for create_dir_all
  torn,       \* steps whose save was cut short or failed (history)
  saved,      \* the last step that was written whole (history)
  taken,      \* training steps so far (bound)
  crashes

writers == <<job, at>>
queueing == <<pending, running, inProgress, saver>>
vars == <<async, disk, registry, live, pc, queueing, writers, torn, saved, taken, crashes>>
-----------------------------------------------------------------------------
Missing == 0
Empty == -1   \* fewer than the 8 bytes of a safetensors header length
Cut == -2

NoJob == [step |-> 0, weights |-> 0]
Absent == [dir |-> FALSE, meta |-> Missing, weights |-> Missing, state |-> Missing]
File == {"meta", "weights", "state"}

(* The writes of save_checkpoint_to_disk of state x, in order: a file is      *)
(* truncated, then filled; the weights are long enough to be seen half-way. *)
Writes(x) ==
  << [file |-> "meta",    to |-> Empty], [file |-> "meta",    to |-> x.step],
     [file |-> "weights", to |-> Empty], [file |-> "weights", to |-> Cut],
     [file |-> "weights", to |-> x.weights],
     [file |-> "state",   to |-> Empty], [file |-> "state",   to |-> x.step] >>
NumWrites == 7
Opens(k) == k \in {1, 3, 6}

(* In the disk d, every file of step_s is there. *)
WholeIn(d, s) == d[s].dir /\ \A f \in File : d[s][f] > 0
Whole(s) == WholeIn(disk, s)

(* validate_checkpoint: the metadata parses; weights, if there, have a header.*)
Valid(s) == disk[s].meta > 0 /\ disk[s].weights # Empty

(* Mutation of Loadable: a file that cannot be parsed is taken as it is. *)
LoadableAlways(s) == TRUE

(* load_checkpoint_from_disk returns an error on a file it cannot parse, and *)
(* the default for one that is missing.                                     *)
Loadable(s) == disk[s].weights \notin {Empty, Cut} /\ disk[s].state # Empty

Oldest(S) == CHOOSE s \in S : \A t \in S : s <= t
Newest(S) == CHOOSE s \in S : \A t \in S : t <= s
-----------------------------------------------------------------------------
(* A new process, whose disk is empty. *)
Init ==
  /\ async \in AsyncModes
  /\ disk = [s \in Step |-> Absent]
  /\ registry = {}
  /\ live = NoJob
  /\ pc = "TRAIN"
  /\ pending = <<>>
  /\ running = async
  /\ inProgress = FALSE
  /\ saver = IF async THEN "LOOP" ELSE "NONE"
  /\ job = [t \in Thread |-> NoJob]
  /\ at = [t \in Thread |-> 0]
  /\ torn = {}
  /\ saved = 0
  /\ taken = 0
  /\ crashes = 0

(* A training step; should_checkpoint decides, by step and by time, whether *)
(* save() is called.                                                        *)
Train ==
  /\ pc = "TRAIN"
  /\ taken < MaxStep
  /\ taken' = taken + 1
  /\ live' = [step |-> live.step + 1, weights |-> live.weights + 1]
  /\ pc' \in {"TRAIN", "SAVE"}
  /\ UNCHANGED <<async, disk, registry, queueing, writers, torn, saved, crashes>>

(* save: queue_save of a copy of the state, or the writes themselves. *)
SaveBegin ==
  /\ pc = "SAVE"
  /\ IF async
     THEN /\ pending' = Append(pending, live)
          /\ pc' = "REGISTER"
          /\ UNCHANGED writers
     ELSE /\ job' = [job EXCEPT !["main"] = live]
          /\ at' = [at EXCEPT !["main"] = 0]
          /\ pc' = "WRITE"
          /\ UNCHANGED pending
  /\ UNCHANGED <<async, disk, registry, live, running, inProgress, saver, torn, saved, taken, crashes>>

Writing(t) == IF t = "main" THEN pc = "WRITE" ELSE saver = "WRITE"

(* save_checkpoint_to_disk in thread t: create_dir_all, or the next write. A *)
(* file that was removed while it is open is written to no purpose.         *)
WriteNext(t) ==
  LET s == job[t].step
      w == Writes(job[t])[at[t]]
  IN
  /\ Writing(t) /\ at[t] <= NumWrites
  /\ IF at[t] = 0 THEN disk' = [disk EXCEPT ![s].dir = TRUE]
     ELSE /\ Opens(at[t]) => disk[s].dir
          /\ disk' = IF Opens(at[t]) \/ disk[s][w.file] # Missing
                     THEN [disk EXCEPT ![s][w.file] = w.to] ELSE disk
  /\ at' = [at EXCEPT ![t] = @ + 1]
  /\ saved' = IF at[t] = NumWrites /\ WholeIn(disk', s) THEN s ELSE saved
  /\ UNCHANGED <<async, registry, live, pc, queueing, job, torn, taken, crashes>>

(* The synchronous save has written everything. *)
SaveWritten ==
  /\ pc = "WRITE" /\ at["main"] > NumWrites
  /\ pc' = "REGISTER"
  /\ job' = [job EXCEPT !["main"] = NoJob]
  /\ at' = [at EXCEPT !["main"] = 0]
  /\ UNCHANGED <<async, disk, registry, live, queueing, torn, saved, taken, crashes>>

(* Mutation of SaveFails: the error is only printed, as the save thread does. *)
SaveFailsQuietly ==
  /\ pc = "WRITE" /\ at["main"] <= NumWrites
  /\ pc' = "REGISTER"
  /\ torn' = IF at["main"] > 0 THEN torn \cup {job["main"].step} ELSE torn
  /\ job' = [job EXCEPT !["main"] = NoJob]
  /\ at' = [at EXCEPT !["main"] = 0]
  /\ UNCHANGED <<async, disk, registry, live, queueing, saved, taken, crashes>>

(* An I/O error is returned to the caller of save(): nothing is registered. *)
SaveFails ==
  /\ pc = "WRITE" /\ at["main"] <= NumWrites
  /\ pc' = "TRAIN"
  /\ torn' = IF at["main"] > 0 THEN torn \cup {job["main"].step} ELSE torn
  /\ job' = [job EXCEPT !["main"] = NoJob]
  /\ at' = [at EXCEPT !["main"] = 0]
  /\ UNCHANGED <<async, disk, registry, live, queueing, saved, taken, crashes>>

Register ==
  /\ pc = "REGISTER"
  /\ registry' = registry \cup {live.step}
  /\ pc' = "GC"
  /\ UNCHANGED <<async, disk, live, queueing, writers, torn, saved, taken, crashes>>

TooMany == Cardinality(registry) > MaxCheckpoints

(* garbage_collect, the test of the loop: the newest is validated before the *)
(* oldest is removed. save() returns when the loop ends.                    *)
GCTest ==
  /\ pc = "GC"
  /\ pc' = IF TooMany /\ Valid(Newest(registry))
           THEN "GC_REMOVE" ELSE "TRAIN"
  /\ UNCHANGED <<async, disk, registry, live, queueing, writers, torn, saved, taken, crashes>>

(* Mutation of Doomed: the newest checkpoint is removed. *)
DoomedNewest == Newest(registry)

Doomed == Oldest(registry)

(* remove_dir_all removes a file. *)
GCUnlink ==
  /\ pc = "GC_REMOVE"
  /\ \E f \in File :
       /\ disk[Doomed][f] # Missing
       /\ disk' = [disk EXCEPT ![Doomed][f] = Missing]
  /\ UNCHANGED <<async, registry, live, pc, queueing, writers, torn, saved, taken, crashes>>

(* remove_dir_all removes the directory, or fails because it is not there or *)
(* the save thread has created a file in it; the entry is removed anyway.   *)
GCRemoved ==
  LET s == Doomed IN
  /\ pc = "GC_REMOVE"
  /\ \/ (\A f \in File : disk[s][f] = Missing) /\ disk' = [disk EXCEPT ![s].dir = FALSE]
     \/ saver = "WRITE" /\ job["saver"].step = s /\ UNCHANGED disk
  /\ registry' = registry \ {s}
  /\ pc' = "GC"
  /\ UNCHANGED <<async, live, queueing, writers, torn, saved, taken, crashes>>
-----------------------------------------------------------------------------
(* wait_for_saves: is_saving() is read first, then pending_count(). *)
WaitBegin ==
  /\ pc = "TRAIN" /\ async
  /\ pc' = "WAIT"
  /\ UNCHANGED <<async, disk, registry, live, queueing, writers, torn, saved, taken, crashes>>

WaitFlag ==
  /\ pc = "WAIT" /\ ~inProgress
  /\ pc' = "WAIT_COUNT"
  /\ UNCHANGED <<async, disk, registry, live, queueing, writers, torn, saved, taken, crashes>>

WaitCount ==
  /\ pc = "WAIT_COUNT"
  /\ pc' = IF pending = <<>> THEN "TRAIN" ELSE "WAIT"
  /\ UNCHANGED <<async, disk, registry, live, queueing, writers, torn, saved, taken, crashes>>

(* shutdown, or drop: the flag is cleared and the thread joined. *)
Stop ==
  /\ pc = "TRAIN"
  /\ running' = FALSE
  /\ pc' = "JOIN"
  /\ UNCHANGED <<async, disk, registry, live, pending, inProgress, saver, writers, torn, saved,
                 taken, crashes>>

Joined ==
  /\ pc = "JOIN" /\ saver \in {"EXITED", "NONE"}
  /\ pc' = "STOPPED"
  /\ UNCHANGED <<async, disk, registry, live, queueing, writers, torn, saved, taken, crashes>>
-----------------------------------------------------------------------------
(* The save thread: the test of the loop. After it, a stop() is not seen     *)
(* until the next one.                                                      *)
SaverTest ==
  /\ saver = "LOOP" /\ running
  /\ saver' = "POP"
  /\ UNCHANGED <<async, disk, registry, live, pc, pending, running, inProgress, writers, torn,
                 saved, taken, crashes>>

(* queue.pop() gives None: the thread sleeps. *)
SaverSleep ==
  /\ saver = "POP" /\ pending = <<>>
  /\ saver' = "LOOP"
  /\ UNCHANGED <<async, disk, registry, live, pc, pending, running, inProgress, writers, torn,
                 saved, taken, crashes>>

(* queue.pop() takes the newest of the pending saves. *)
SaverPop ==
  /\ saver = "POP" /\ pending # <<>>
  /\ job' = [job EXCEPT !["saver"] = Last(pending)]
  /\ at' = [at EXCEPT !["saver"] = 0]
  /\ pending' = Front(pending)
  /\ saver' = "POPPED"
  /\ UNCHANGED <<async, disk, registry, live, pc, running, inProgress, torn, saved, taken, crashes>>

SaverFlag ==
  /\ saver = "POPPED"
  /\ inProgress' = TRUE
  /\ saver' = "WRITE"
  /\ UNCHANGED <<async, disk, registry, live, pc, pending, running, writers, torn, saved, taken, crashes>>

(* Mutation of SaverDone: the error path leaves save_in_progress set. *)
SaverDoneStaysBusy ==
  /\ saver = "WRITE"
  /\ torn' = IF at["saver"] <= NumWrites THEN torn \cup {job["saver"].step} ELSE torn
  /\ inProgress' = (at["saver"] <= NumWrites)
  /\ job' = [job EXCEPT !["saver"] = NoJob]
  /\ at' = [at EXCEPT !["saver"] = 0]
  /\ saver' = "LOOP"
  /\ UNCHANGED <<async, disk, registry, live, pc, pending, running, saved, taken, crashes>>

(* Everything is written, or a write failed, which is only printed. *)
SaverDone ==
  /\ saver = "WRITE"
  /\ torn' = IF at["saver"] <= NumWrites THEN torn \cup {job["saver"].step} ELSE torn
  /\ inProgress' = FALSE
  /\ job' = [job EXCEPT !["saver"] = NoJob]
  /\ at' = [at EXCEPT !["saver"] = 0]
  /\ saver' = "LOOP"
  /\ UNCHANGED <<async, disk, registry, live, pc, pending, running, saved, taken, crashes>>

SaverExit ==
  /\ saver = "LOOP" /\ ~running
  /\ saver' = "EXITED"
  /\ UNCHANGED <<async, disk, registry, live, pc, pending, running, inProgress, writers, torn,
                 saved, taken, crashes>>
-----------------------------------------------------------------------------
(* The process dies, or has stopped, and a new one runs initialize(), which *)
(* registers every step_N directory, and load_latest(). Where there is none *)
(* to load, training starts afresh.                                         *)
Restart ==
  LET found == {s \in Step : disk[s].dir}
      ok == found = {} \/ Loadable(Newest(found))
      interrupted == {job[t].step : t \in {u \in Thread : at[u] \in 1 .. NumWrites}} \ {0}
  IN
  /\ crashes < MaxCrashes /\ pc # "LOAD_FAILED"
  /\ crashes' = crashes + 1
  /\ registry' = found
  /\ live' = IF found = {} \/ ~ok THEN NoJob
             ELSE [step |-> disk[Newest(found)].state, weights |-> disk[Newest(found)].weights]
  /\ pc' = IF ok THEN "TRAIN" ELSE "LOAD_FAILED"
  /\ pending' = <<>>
  /\ running' = async
  /\ inProgress' = FALSE
  /\ saver' = IF async THEN "LOOP" ELSE "NONE"
  /\ job' = [t \in Thread |-> NoJob]
  /\ at' = [t \in Thread |-> 0]
  /\ torn' = torn \cup interrupted
  /\ UNCHANGED <<async, disk, saved, taken>>

Terminating == pc \in {"STOPPED", "LOAD_FAILED"} /\ UNCHANGED vars

MainNext ==
  \/ SaveBegin \/ WriteNext("main") \/ SaveWritten \/ SaveFails \/ Register
  \/ GCTest \/ GCUnlink \/ GCRemoved \/ WaitFlag \/ WaitCount \/ Joined

SaverNext ==
  \/ SaverTest \/ SaverSleep \/ SaverPop \/ SaverFlag
  \/ WriteNext("saver") \/ SaverDone \/ SaverExit

Next == Train \/ WaitBegin \/ Stop \/ MainNext \/ SaverNext \/ Restart \/ Terminating

Spec == Init /\ [][Next]_vars

(* Both threads run: the training thread inside a call, the save thread      *)
(* always.                                                                  *)
FairSpec == Spec /\ WF_vars(MainNext) /\ WF_vars(SaverNext)
-----------------------------------------------------------------------------
State == [step : 0 .. MaxStep, weights : Nat]

TypeOK ==
  /\ async \in BOOLEAN
  /\ disk \in [Step -> [dir : BOOLEAN, meta : Int, weights : Int, state : Int]]
  /\ registry \subseteq Step
  /\ live \in State
  /\ pc \in {"TRAIN", "SAVE", "WRITE", "REGISTER", "GC", "GC_REMOVE", "WAIT", "WAIT_COUNT",
             "JOIN", "STOPPED", "LOAD_FAILED"}
  /\ pending \in Seq(State)
  /\ running \in BOOLEAN /\ inProgress \in BOOLEAN
  /\ saver \in {"NONE", "LOOP", "POP", "POPPED", "WRITE", "EXITED"}
  /\ job \in [Thread -> State]
  /\ at \in [Thread -> 0 .. NumWrites + 1]
  /\ torn \subseteq Step /\ saved \in Step \cup {0}
  /\ taken \in 0 .. MaxStep /\ crashes \in 0 .. MaxCrashes

(* A resumed job has the weights of the step it counts, and its latest       *)
(* checkpoint loads, unless a save or a removal was cut short: the queue is *)
(* written out of order and collected while it is written, but the newest   *)
(* directory is never half there.                                           *)
ResumesWhole == torn = {} => live.weights = live.step /\ pc # "LOAD_FAILED"

(* While no save was cut short and when the queue is empty and the save      *)
(* thread idle, every registered checkpoint is on the disk, whole: none was *)
(* lost between queue, thread and garbage collection. But the collection    *)
(* counts checkpoints that are only queued: after a crash, which forgets    *)
(* these, only the newest is sure to be whole with async_save, and the      *)
(* older ones may be what a removal cut short has left.                     *)
RegisteredOnDisk ==
  (pc = "TRAIN" /\ pending = <<>> /\ saver \in {"LOOP", "POP", "NONE"} /\ torn = {})
     => \A s \in registry :
          Cardinality({u \in registry : u > s}) < MaxCheckpoints =>
            /\ disk[s].dir
            /\ s = Newest(registry) \/ ~async \/ crashes = 0 => Whole(s)

(* With synchronous saves a checkpoint as recent as the last one written is  *)
(* on the disk at every moment, also while saves fail half-way, as long as  *)
(* the process was not started again after a save was cut short: a new one  *)
(* registers what that save left, may load nothing from it and then writes  *)
(* over older steps.                                                        *)
NeverLost ==
  (~async /\ saved # 0 /\ (torn = {} \/ crashes = 0)) => \E s \in Step : s >= saved /\ Whole(s)

(* wait_for_saves returns. *)
WaitReturns == pc = "WAIT" ~> pc \notin {"WAIT", "WAIT_COUNT"}

(* "Wait for all pending saves to complete": when wait_for_saves returns,    *)
(* nothing is queued and nothing is being written.                          *)
WaitWaits ==
  [][pc = "WAIT_COUNT" /\ pc' = "TRAIN" /\ UNCHANGED crashes
        => pending = <<>> /\ job["saver"] = NoJob]_vars

=============================================================================
