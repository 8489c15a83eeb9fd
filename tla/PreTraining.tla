------------------------------ MODULE PreTraining ------------------------------
(***************************************************************************)
(* src/src/deepseek/torch/training/pipeline.py: PreTrainer.train and the    *)
(* CheckpointManager it saves with. The trainer and, with async_save, the   *)
(* save_worker thread share the queue, the directory and the live tensors:  *)
(* a queued checkpoint holds references to them, and is filled while it is  *)
(* written. The process may be killed anywhere, is started again, and       *)
(* resumes from the newest file.                                           *)
(*                                                                         *)
(* Weights and the contents of a file are the number of optimizer updates   *)
(* they hold: of the tensors written, the first hold `lo`, the last `hi`.   *)
(***************************************************************************)
EXTENDS Integers, Sequences, FiniteSets, FiniteSetsExt

CONSTANTS
  MaxSteps,     \* config.max_steps
  SaveInterval, \* checkpoint.save_interval
  Keeps,        \* values of checkpoint.keep_last_n
  Resume,       \* argument `resume` of train()
  MaxStarts     \* bound: times the job is started

ASSUME PreTrainingAssumption ==
  /\ MaxSteps \in Nat
  /\ SaveInterval \in Nat \ {0}
  /\ Keeps \subseteq Nat \ {0}
  /\ Resume \in BOOLEAN
  /\ MaxStarts \in Nat \ {0}

Label == 0 .. MaxSteps                 \* N of checkpoint_N.pt
NoLabel == -1
Updates == 0 .. MaxSteps * MaxStarts
File == [whole : BOOLEAN, lo : Updates, hi : Updates]

VARIABLES
  async,      \* checkpoint.async_save
  keep,       \* checkpoint.keep_last_n
  pc,         \* where the trainer is
  globalStep, \* self.global_step
  weights,    \* optimizer updates held by the live tensors: the least, the most
  victims,    \* files left to remove in _cleanup_old_checkpoints
  queue,      \* _save_queue: labels, and NoLabel for None
  writing,    \* label of the file being written by the worker, or NoLabel
  worker,     \* the save_worker thread: there is none, it runs, has ended, has died
  disk,       \* files of save_dir, by label
  starts,     \* the job was started so many times
  best        \* history: largest label whose save completed

vars == <<async, keep, pc, globalStep, weights, victims, queue, writing, worker, disk, starts, best>>
settings == <<async, keep>>
saver == <<queue, writing, worker>>

OnDisk == DOMAIN disk

(* The file `l` of the directory becomes f. *)
Put(l, f) == [m \in OnDisk \cup {l} |-> IF m = l THEN f ELSE disk[m]]

(* The directory without the files L. *)
Without(L) == [m \in OnDisk \ L |-> disk[m]]

(* torch.save has opened the file, and written tensors of `lo` updates. *)
Torn == [whole |-> FALSE, lo |-> weights.lo, hi |-> weights.lo]

Init ==
  /\ async \in BOOLEAN
  /\ keep \in Keeps
  /\ pc = "down"
  /\ globalStep = 0
  /\ weights = [lo |-> 0, hi |-> 0]
  /\ victims = {}
  /\ queue = <<>>
  /\ writing = NoLabel
  /\ worker = "none"
  /\ disk = [l \in {} |-> [whole |-> FALSE, lo |-> 0, hi |-> 0]]
  /\ starts = 0
  /\ best = NoLabel

Go(from, to) == pc = from /\ pc' = to
-----------------------------------------------------------------------------
(* The job is started, for the first time or again: PreTrainer.__init__. *)
Start ==
  /\ pc \in {"down", "done"} /\ starts < MaxStarts
  /\ pc' = "load"
  /\ starts' = starts + 1
  /\ globalStep' = 0
  /\ weights' = [lo |-> 0, hi |-> 0]
  /\ worker' = IF async THEN "runs" ELSE "none"
  /\ queue' = <<>>
  /\ UNCHANGED <<settings, victims, writing, disk, best>>

(* Mutation of Load: the step is restored, the weights are not. *)
LoadStepOnly ==
  /\ Go("load", "train")
  /\ Resume /\ OnDisk # {} => disk[Max(OnDisk)].whole
  /\ globalStep' = IF Resume /\ OnDisk # {} THEN Max(OnDisk) ELSE 0
  /\ UNCHANGED <<settings, weights, victims, saver, disk, starts, best>>

(* Mutation of Load: a newer file that cannot be loaded is passed over. *)
LoadNewestWhole ==
  LET whole == {l \in OnDisk : disk[l].whole}
  IN /\ Go("load", "train")
     /\ IF Resume /\ whole # {}
        THEN /\ weights' = [lo |-> disk[Max(whole)].lo, hi |-> disk[Max(whole)].hi]
             /\ globalStep' = Max(whole)
        ELSE UNCHANGED <<weights, globalStep>>
     /\ UNCHANGED <<settings, victims, saver, disk, starts, best>>

(* train resumes from the file of the largest label, if there is one. *)
Load ==
  /\ Go("load", "train")
  /\ Resume /\ OnDisk # {} => disk[Max(OnDisk)].whole
  /\ IF Resume /\ OnDisk # {}
     THEN LET f == disk[Max(OnDisk)]
          IN /\ weights' = [lo |-> f.lo, hi |-> f.hi]
             /\ globalStep' = Max(OnDisk)
     ELSE UNCHANGED <<weights, globalStep>>
  /\ UNCHANGED <<settings, victims, saver, disk, starts, best>>

(* torch.load raises on a file that was not written to its end. *)
LoadRaises ==
  /\ Go("load", "raised")
  /\ Resume /\ OnDisk # {} /\ ~disk[Max(OnDisk)].whole
  /\ worker' = "none"
  /\ UNCHANGED <<settings, globalStep, weights, victims, queue, writing, disk, starts, best>>

(* Somebody removes the file that cannot be loaded (no code does). *)
RemoveByHand ==
  /\ Go("raised", "down")
  /\ disk' = Without({Max(OnDisk)})
  /\ UNCHANGED <<settings, globalStep, weights, victims, saver, starts, best>>

(* gradient_accumulation_steps batches and optimizer.step(). *)
OptimizerStep ==
  /\ globalStep < MaxSteps
  /\ Go("train", IF globalStep % SaveInterval = 0 THEN "save" ELSE "next")
  /\ weights' = [lo |-> weights.lo + 1, hi |-> weights.hi + 1]
  /\ UNCHANGED <<settings, globalStep, victims, saver, disk, starts, best>>

(* Mutation of NextStep: counted twice. *)
NextStepTwice ==
  /\ Go("next", "train")
  /\ globalStep' = globalStep + 2
  /\ UNCHANGED <<settings, weights, victims, saver, disk, starts, best>>

(* The end of an optimizer step: global_step += 1. *)
NextStep ==
  /\ Go("next", "train")
  /\ globalStep' = globalStep + 1
  /\ UNCHANGED <<settings, weights, victims, saver, disk, starts, best>>

(* max_steps are done: the final checkpoint. *)
FinalSave ==
  /\ globalStep >= MaxSteps
  /\ Go("train", "save")
  /\ UNCHANGED <<settings, globalStep, weights, victims, saver, disk, starts, best>>
-----------------------------------------------------------------------------
(* save with async_save: references to the tensors are queued. *)
Enqueue ==
  /\ async
  /\ Go("save", "list")
  /\ queue' = Append(queue, globalStep)
  /\ UNCHANGED <<settings, globalStep, weights, victims, writing, worker, disk, starts, best>>

(* save without: torch.save opens the file, truncating one of that label ... *)
Open ==
  /\ ~async
  /\ Go("save", "write")
  /\ disk' = Put(globalStep, Torn)
  /\ UNCHANGED <<settings, globalStep, weights, victims, saver, starts, best>>

(* The file `l` is complete; one that was removed meanwhile stays removed. *)
Complete(l) ==
  /\ disk' = IF l \in OnDisk THEN Put(l, [whole |-> TRUE, lo |-> disk[l].lo, hi |-> weights.hi])
             ELSE disk
  /\ best' = IF l > best THEN l ELSE best

(* ... and writes it. *)
Write ==
  /\ Go("write", "list")
  /\ Complete(globalStep)
  /\ UNCHANGED <<settings, globalStep, weights, victims, saver, starts>>

(* Mutation of Excess: one file too few is kept. *)
ExcessOneMore == {l \in OnDisk : Cardinality({m \in OnDisk : m > l}) >= keep - 1}

(* The files beyond the keep_last_n of the largest labels. *)
Excess == {l \in OnDisk : Cardinality({m \in OnDisk : m > l}) >= keep}

(* _cleanup_old_checkpoints lists the directory ... *)
List ==
  /\ Go("list", "remove")
  /\ victims' = Excess
  /\ UNCHANGED <<settings, globalStep, weights, saver, disk, starts, best>>

(* ... and removes the oldest files one by one. *)
Remove ==
  /\ pc = "remove" /\ victims # {}
  /\ disk' = Without({Min(victims)})
  /\ victims' = victims \ {Min(victims)}
  /\ UNCHANGED <<settings, pc, globalStep, weights, saver, starts, best>>

(* save returns, to the training loop or to the end of train. *)
SaveReturns ==
  /\ victims = {}
  /\ Go("remove", IF globalStep < MaxSteps THEN "next" ELSE "close")
  /\ UNCHANGED <<settings, globalStep, weights, victims, saver, disk, starts, best>>

(* close: None is queued, be the thread dead or alive (train calls close once *)
(* more on its way out: the thread is gone, and the second None is left) ... *)
Close ==
  /\ Go("close", "join")
  /\ queue' = IF async THEN Append(queue, NoLabel) ELSE queue
  /\ UNCHANGED <<settings, globalStep, weights, victims, writing, worker, disk, starts, best>>

(* Mutation of Join: the thread is not waited for. *)
JoinAtOnce ==
  /\ Go("join", "done")
  /\ UNCHANGED <<settings, globalStep, weights, victims, saver, disk, starts, best>>

(* ... and the thread joined. *)
Join ==
  /\ worker # "runs"
  /\ Go("join", "done")
  /\ UNCHANGED <<settings, globalStep, weights, victims, saver, disk, starts, best>>
-----------------------------------------------------------------------------
(* save_worker takes a checkpoint and opens its file ... *)
WorkerOpens ==
  /\ worker = "runs" /\ writing = NoLabel
  /\ queue # <<>> /\ Head(queue) # NoLabel
  /\ queue' = Tail(queue)
  /\ writing' = Head(queue)
  /\ disk' = Put(Head(queue), Torn)
  /\ UNCHANGED <<settings, pc, globalStep, weights, victims, worker, starts, best>>

(* ... and has written it, with the tensors as they are by then. *)
WorkerWrites ==
  /\ worker = "runs" /\ writing # NoLabel
  /\ Complete(writing)
  /\ writing' = NoLabel
  /\ UNCHANGED <<settings, pc, globalStep, weights, victims, queue, worker, starts>>

(* torch.save raises: the thread dies, with what it has written left behind, *)
(* or without having opened the file. (The checkpoint it had taken stays in  *)
(* `queue` then, where nobody takes anything any more.)                      *)
WorkerDies ==
  /\ worker = "runs"
  /\ writing # NoLabel \/ (queue # <<>> /\ Head(queue) # NoLabel)
  /\ worker' = "died"
  /\ writing' = NoLabel
  /\ UNCHANGED <<settings, pc, globalStep, weights, victims, queue, disk, starts, best>>

(* Mutation of WorkerStops: the thread knows no None. *)
WorkerStopsNever == FALSE /\ UNCHANGED vars

(* None: the thread ends. *)
WorkerStops ==
  /\ worker = "runs" /\ writing = NoLabel
  /\ queue # <<>> /\ Head(queue) = NoLabel
  /\ queue' = Tail(queue)
  /\ worker' = "ended"
  /\ UNCHANGED <<settings, pc, globalStep, weights, victims, writing, disk, starts, best>>

(* The process is killed, or ends by an exception of the trainer, as that of  *)
(* a torch.save without a worker: only the directory is left.               *)
Crash ==
  /\ pc \notin {"down", "raised", "done"}
  /\ pc' = "down"
  /\ victims' = {}
  /\ queue' = <<>>
  /\ writing' = NoLabel
  /\ worker' = "none"
  /\ UNCHANGED <<settings, globalStep, weights, disk, starts, best>>

Trainer ==
  \/ Load \/ LoadRaises \/ OptimizerStep \/ NextStep \/ FinalSave
  \/ Enqueue \/ Open \/ Write \/ List \/ Remove \/ SaveReturns \/ Close \/ Join
Worker == WorkerOpens \/ WorkerWrites \/ WorkerDies \/ WorkerStops

Next == Trainer \/ Worker \/ Start \/ RemoveByHand \/ Crash

Spec == Init /\ [][Next]_vars

(* Both threads run; nobody has to start the job or to remove files. *)
FairSpec == Spec /\ WF_vars(Trainer) /\ WF_vars(Worker)
-----------------------------------------------------------------------------
TypeOK ==
  /\ async \in BOOLEAN
  /\ keep \in Keeps
  /\ pc \in {"down", "load", "raised", "train", "next", "save", "write", "list", "remove",
             "close", "join", "done"}
  /\ globalStep \in 0 .. MaxSteps
  /\ weights \in [lo : Updates, hi : Updates]
  /\ victims \in SUBSET Label
  /\ queue \in Seq(Label \cup {NoLabel})
  /\ writing \in Label \cup {NoLabel}
  /\ worker \in {"none", "runs", "ended", "died"}
  /\ OnDisk \in SUBSET Label /\ \A l \in OnDisk : disk[l] \in File
  /\ starts \in 0 .. MaxStarts
  /\ best \in Label \cup {NoLabel}

(* The step of a checkpoint never exceeds the updates its weights hold, all  *)
(* the files and all the resumes through: training skips no step. In a       *)
(* synchronous run they also hold at most one update more per start (step s  *)
(* is saved before global_step is incremented, and done again on resume).   *)
StepsInWeights ==
  \A l \in OnDisk : disk[l].whole =>
    l <= disk[l].lo /\ (~async => disk[l].hi <= l + starts)

(* Only the newest file may be cut short, however the cleanup, the worker and *)
(* its death, crashes and resumes interleave: every older one can be loaded. *)
OnlyNewestTorn == \A l \in OnDisk : l # Max(OnDisk) => disk[l].whole

(* A resumed run opens the file it resumed from again, and a crash leaves it *)
(* cut short. Each resume costs no more than that file: what is left goes    *)
(* back one save_interval at most per resume, while no more runs than        *)
(* keep_last_n were started. (With keep_last_n = 1 it is false: the one file *)
(* the cleanup keeps may be the one the worker has only opened.)             *)
ResumeCostsOneInterval ==
  LET lost == (starts - 1) * SaveInterval
  IN (best # NoLabel /\ keep > 1 /\ starts <= keep /\ best >= lost)
       => \E l \in OnDisk : disk[l].whole /\ l >= best - lost

(* When train returns, and the worker has not died, the final checkpoint and *)
(* all queued before it are complete, and there are no others than these and *)
(* the kept ones.                                                          *)
DoneIsSaved ==
  pc = "done" /\ worker # "died" =>
    /\ MaxSteps \in OnDisk
    /\ \A l \in OnDisk : disk[l].whole
    /\ queue = <<>> /\ writing = NoLabel
    /\ ~async => Cardinality(OnDisk) <= keep

(* A run of train ends: it returns, raises or is killed. In particular the   *)
(* join of close waits neither for ever nor for a thread that has died.     *)
RunEnds == pc = "load" ~> pc \in {"done", "raised", "down"}
=============================================================================
