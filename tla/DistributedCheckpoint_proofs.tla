---------------------- MODULE DistributedCheckpoint_proofs ----------------------
(***************************************************************************)
(* Proofs about DistributedCheckpoint, for every number of steps, versions,  *)
(* crashes and checkpoints kept. For every set of ranks and of worker       *)
(* threads, with either kind of save: the types, and what waiting for a     *)
(* save means (at the end, from AnyInv). For synchronous saves of one rank: *)
(* what checkpoints promise (from SyncInv). With several ranks or with      *)
(* asynchronous saves those promises do not hold: TLC violates them.        *)
(***************************************************************************)
EXTENDS DistributedCheckpoint, SequenceTheorems, FiniteSetTheorems, WellFoundedInduction, TLAPS

Less == {p \in Nat \X Nat : p[1] < p[2]}

(* Every set of numbers has a least element, *)
LEMMA LeastNumber ==
  ASSUME NEW S \in SUBSET Nat, S # {}
  PROVE  \E m \in S : \A n \in S : m <= n
<1>1. IsWellFoundedOn(Less, Nat)
  BY NatLessThanWellFounded, Zenon DEF OpToRel, Less
<1>2. PICK m \in S : \A n \in S : <<n, m>> \notin Less
  BY <1>1, WFMin
<1>3. ASSUME NEW n \in S PROVE m <= n
  <2>1. n \in Nat /\ m \in Nat /\ <<n, m>> \notin Less
    BY <1>2
  <2>2. ~(n < m)
    BY <2>1 DEF Less
  <2>3. QED
    BY <2>1, <2>2
<1>4. QED
  BY <1>3

(* and every set of numbers up to N a greatest. *)
LEMMA GreatestNumber ==
  ASSUME NEW N \in Nat, NEW S \in SUBSET (1 .. N), S # {}
  PROVE  \E m \in S : \A n \in S : n <= m
<1> DEFINE T == {k \in Nat : N - k \in S}
<1>1. PICK s \in S : s \in 1 .. N
  OBVIOUS
<1>2. N - s \in T
  BY <1>1
<1>3. T \in SUBSET Nat /\ T # {}
  BY <1>2
<1>4. PICK k \in T : \A j \in T : k <= j
  <2> HIDE DEF T
  <2> QED
    BY <1>3, LeastNumber
<1>5. N - k \in S /\ k \in Nat
  OBVIOUS
<1>6. ASSUME NEW n \in S PROVE n <= N - k
  <2>1. n \in 1 .. N /\ N - n \in T
    OBVIOUS
  <2>2. k <= N - n
    BY <1>4, <2>1
  <2>3. QED
    BY <1>5, <2>1, <2>2
<1>7. QED
  BY <1>5, <1>6

(* The greatest of a set of versions, 0 for none: Latest is that of Listed. *)
Top(S) == IF S = {} THEN 0 ELSE CHOOSE v \in S : \A u \in S : u <= v

LEMMA TopFacts ==
  ASSUME NEW S \in SUBSET Version
  PROVE  /\ Top(S) \in Version \cup {0}
         /\ Top(S) = 0 <=> S = {}
         /\ S # {} => Top(S) \in S /\ \A u \in S : u <= Top(S)
         /\ \A m \in S : (\A u \in S : u <= m) => m = Top(S)
<1>1. MaxVersion \in Nat
  BY CheckpointAssumption
<1>2. CASE S = {}
  BY <1>2 DEF Top
<1>3. CASE S # {}
  <2>1. \E m \in S : \A u \in S : u <= m
    BY <1>1, <1>3, GreatestNumber DEF Version
  <2>2. Top(S) \in S /\ \A u \in S : u <= Top(S)
    BY <1>3, <2>1 DEF Top
  <2>3. \A m \in S : m \in Int /\ m # 0
    BY <1>1 DEF Version
  <2>4. \A m \in S : (\A u \in S : u <= m) => m = Top(S)
    <3>1. ASSUME NEW m \in S, \A u \in S : u <= m PROVE m = Top(S)
      <4>1. m <= Top(S) /\ Top(S) <= m /\ m \in Int /\ Top(S) \in Int
        BY <2>2, <2>3, <3>1
      <4>2. QED
        BY <4>1
    <3>2. QED
      BY <3>1
  <2>5. Top(S) # 0 /\ Top(S) \in Version
    BY <2>2, <2>3
  <2>6. QED
    BY <1>3, <2>2, <2>4, <2>5
<1>4. QED
  BY <1>2, <1>3

LEMMA OldestFacts ==
  ASSUME NEW S \in SUBSET Version, S # {}
  PROVE  Oldest(S) \in S /\ \A u \in S : Oldest(S) <= u
<1>1. S \in SUBSET Nat
  BY CheckpointAssumption DEF Version
<1>2. \E v \in S : \A u \in S : v <= u
  BY <1>1, LeastNumber
<1>3. QED
  BY <1>2 DEF Oldest

LEMMA LatestIsTop == Latest = Top(Listed) /\ Listed \in SUBSET Version
BY DEF Latest, Top, Listed

(* Writing the second tensor. *)
LEMMA FileWritten ==
  ASSUME NEW f \in File, NEW k \in Nat
  PROVE  /\ [f EXCEPT ![2] = k] \in File
         /\ f # NoFile => [f EXCEPT ![2] = k] = <<f[1], k>>
<1>1. CASE f = NoFile
  <2>1. [f EXCEPT ![2] = k] = <<>>
    BY <1>1 DEF NoFile
  <2>2. QED
    BY <1>1, <2>1 DEF File, NoFile
<1>2. CASE f # NoFile
  <2>1. f \in Nat \X Nat
    BY <1>2 DEF File
  <2>2. [f EXCEPT ![2] = k] = <<f[1], k>>
    BY <2>1
  <2>3. QED
    BY <2>1, <2>2 DEF File
<1>3. QED
  BY <1>1, <1>2
-----------------------------------------------------------------------------
(* Types, with asynchronous saves and any number of ranks too. A rank that  *)
(* is in save() has a version left.                                         *)
Saving == {"SAVE", "WRITE", "WRITING", "BARRIER", "CHECKSUM", "META", "META_WRITE", "RAISED"}

SavesInRange == \A r \in Ranks : pc[r] \in Saving => next[r] \in Version

TypeInv == TypeOK /\ SavesInRange

Dir == [dir : BOOLEAN, data : File, meta : MetaFile]

LEMMA Bounds ==
  /\ MaxVersion \in Nat /\ MaxStep \in Nat /\ MaxCrashes \in Nat
  /\ 0 \in Step /\ 0 \in Ranks
  /\ \A v \in Version : v \in Int /\ v # 0 /\ v <= MaxVersion
BY CheckpointAssumption DEF Version, Step

LEMMA EmptyFiles ==
  /\ NoFile \in File
  /\ NoMeta \in MetaFile /\ PartialMeta \in MetaFile
  /\ Absent \in Dir
  /\ \A k \in Step, f \in File : Meta(k, f) \in MetaFile
<1>1. NoFile \in File
  BY DEF File
<1>2. NoMeta \in MetaFile /\ PartialMeta \in MetaFile
  BY <1>1, Bounds DEF NoMeta, PartialMeta, MetaFile
<1>3. Absent \in Dir
  BY <1>1, <1>2 DEF Absent, Dir
<1>4. \A k \in Step, f \in File : Meta(k, f) \in MetaFile
  BY DEF Meta, MetaFile
<1>5. QED
  BY <1>1, <1>2, <1>3, <1>4

LEMMA InitTypeInv == Init => TypeInv
<1> SUFFICES ASSUME Init PROVE TypeInv
  OBVIOUS
<1>1. disk \in [Version -> Dir]
  BY EmptyFiles DEF Init
<1>2. next \in [Ranks -> 1 .. MaxVersion + 1]
  BY Bounds DEF Init
<1>3. queue \in Seq(Version)
  BY EmptySeq DEF Init
<1>4. sum \in [Ranks -> File]
  BY EmptyFiles DEF Init
<1>5. step \in Step /\ params \in Nat \X Nat /\ returned \in Step /\ crashes \in 0 .. MaxCrashes
  BY Bounds DEF Init
<1>6. TypeOK
  BY <1>1, <1>2, <1>3, <1>4, <1>5 DEF Init, TypeOK, Dir, Entry
<1>7. SavesInRange
  BY DEF Init, SavesInRange, Saving
<1>8. QED
  BY <1>6, <1>7 DEF TypeInv

LEMMA TrainStepTypeInv == ASSUME TypeInv, TrainStep PROVE TypeInv'
<1>1. TypeOK
  BY DEF TypeInv
<1>2. /\ step \in Step /\ step < MaxStep /\ step' = step + 1
      /\ params' = <<params[1] + 1, params[2] + 1>> /\ params \in Nat \X Nat
  BY <1>1 DEF TypeOK, TrainStep
<1>3. step' \in Step /\ params' \in Nat \X Nat
  BY <1>2, Bounds DEF Step
<1>4. pc' \in [Ranks -> Entry]
  BY DEF TrainStep, Entry
<1>5. \A r \in Ranks : next[r] \in Version
  BY <1>1, Bounds DEF TypeOK, TrainStep, Version
<1>6. arrived' = {} /\ UNCHANGED <<disk, next, sum, collector, saver, returned, crashes>>
  BY DEF TrainStep
<1>7. TypeOK'
  BY <1>1, <1>3, <1>4, <1>6 DEF TypeOK, collector, saver
<1>8. QED
  BY <1>5, <1>6, <1>7 DEF TypeInv, SavesInRange

(* The part of a step of rank t that concerns where it is. *)
LEMMA RankSavesInRange ==
  ASSUME TypeInv, NEW t \in Ranks,
         \A r \in Ranks : r # t => UNCHANGED <<pc[r], next[r]>>,
         pc'[t] \in Saving => pc[t] \in Saving /\ UNCHANGED next[t]
  PROVE  SavesInRange'
BY DEF TypeInv, SavesInRange

LEMMA SaveBeginTypeInv == ASSUME TypeInv, NEW t \in Ranks, SaveBegin(t) PROVE TypeInv'
<1>1. TypeOK /\ pc[t] = "SAVE" /\ next[t] \in Version
  BY DEF TypeInv, SavesInRange, SaveBegin, Saving
<1>2. /\ disk' = [disk EXCEPT ![next[t]].dir = TRUE]
      /\ UNCHANGED <<step, params, next, sum, collector, job, returned, crashes>>
  BY DEF SaveBegin
<1>3. disk' \in [Version -> Dir]
  BY <1>1, <1>2 DEF TypeOK, Dir
<1>4. queue' \in Seq(Version) /\ pending' \subseteq Version /\ lost' \subseteq Version
  <2>1. Append(queue, next[t]) \in Seq(Version)
    BY <1>1, AppendProperties DEF TypeOK
  <2>2. QED
    BY <1>1, <2>1 DEF TypeOK, SaveBegin
<1>5. /\ pc' = [pc EXCEPT ![t] = "WRITE"] \/ pc' = [pc EXCEPT ![t] = "BARRIER"]
      /\ arrived' = arrived \/ arrived' = arrived \cup {t}
  BY DEF SaveBegin
<1>6. /\ pc' \in [Ranks -> Entry] /\ arrived' \subseteq Ranks
      /\ \A r \in Ranks : r # t => pc'[r] = pc[r]
  BY <1>1, <1>5 DEF TypeOK, Entry
<1>7. TypeOK'
  BY <1>1, <1>2, <1>3, <1>4, <1>6 DEF TypeOK, Dir, collector
<1>8. SavesInRange'
  BY <1>1, <1>2, <1>6, RankSavesInRange DEF Saving
<1>9. QED
  BY <1>7, <1>8 DEF TypeInv

LEMMA WriteTypeInv ==
  ASSUME TypeInv, NEW t \in Ranks, WriteBegin(t) \/ WriteEnd(t) \/ WriteFails(t)
  PROVE  TypeInv'
<1>1. TypeOK /\ pc[t] \in {"WRITE", "WRITING"} /\ next[t] \in Version
  BY DEF TypeInv, SavesInRange, WriteBegin, WriteEnd, WriteFails, Saving
<1>2. UNCHANGED <<step, params, next, sum, collector, saver, returned, crashes>>
  BY DEF WriteBegin, WriteEnd, WriteFails
<1>3. disk[next[t]].data \in File /\ params[1] \in Nat /\ params[2] \in Nat
  BY <1>1 DEF TypeOK
<1>4. disk' = disk \/ \E f \in File : disk' = [disk EXCEPT ![next[t]].data = f]
  <2>1. CASE WriteBegin(t)
    BY <1>3, <2>1 DEF WriteBegin, Opened, File
  <2>2. CASE WriteEnd(t)
    <3>1. disk' = [disk EXCEPT ![next[t]].data = [disk[next[t]].data EXCEPT ![2] = params[2]]]
      BY <2>2 DEF WriteEnd
    <3>2. QED
      BY <1>3, <3>1, FileWritten
  <2>3. CASE WriteFails(t)
    BY <2>3, EmptyFiles DEF WriteFails
  <2>4. QED
    BY <2>1, <2>2, <2>3
<1>5. disk' \in [Version -> Dir]
  <2>1. disk \in [Version -> Dir]
    BY <1>1 DEF TypeOK, Dir
  <2>2. ASSUME NEW f \in File PROVE [disk EXCEPT ![next[t]].data = f] \in [Version -> Dir]
    BY <1>1, <2>1 DEF Dir
  <2>3. QED
    BY <1>4, <2>1, <2>2
<1>6. /\ pc' \in [Ranks -> Entry] /\ arrived' \subseteq Ranks
      /\ \A r \in Ranks : r # t => pc'[r] = pc[r]
  BY <1>1 DEF TypeOK, Entry, WriteBegin, WriteEnd, WriteFails
<1>7. TypeOK'
  BY <1>1, <1>2, <1>5, <1>6 DEF TypeOK, Dir, collector, saver
<1>8. SavesInRange'
  BY <1>1, <1>2, <1>6, RankSavesInRange DEF Saving
<1>9. QED
  BY <1>7, <1>8 DEF TypeInv

LEMMA MetadataTypeInv ==
  ASSUME TypeInv, NEW t \in Ranks,
         Barrier(t) \/ Checksum(t) \/ MetaOpen(t) \/ MetaWrite(t) \/ MetaFails(t)
  PROVE  TypeInv'
<1>1. TypeOK /\ pc[t] \in {"BARRIER", "CHECKSUM", "META", "META_WRITE"} /\ next[t] \in Version
  BY DEF TypeInv, SavesInRange, Barrier, Checksum, MetaOpen, MetaWrite, MetaFails, Saving
<1>2. UNCHANGED <<step, params, arrived, collector, saver, returned, crashes>>
  BY DEF Barrier, Checksum, MetaOpen, MetaWrite, MetaFails
<1>3. disk' \in [Version -> Dir]
  <2>1. disk' = disk \/ \E m \in MetaFile : disk' = [disk EXCEPT ![next[t]].meta = m]
    <3>1. sum[t] \in File /\ step \in Step
      BY <1>1 DEF TypeOK
    <3>2. Meta(step, sum[t]) \in MetaFile /\ PartialMeta \in MetaFile
      BY <3>1, EmptyFiles
    <3>3. CASE MetaWrite(t)
      BY <3>2, <3>3 DEF MetaWrite
    <3>4. CASE Barrier(t) \/ Checksum(t) \/ MetaOpen(t) \/ MetaFails(t)
      BY <3>2, <3>4 DEF Barrier, Checksum, MetaOpen, MetaFails
    <3>5. QED
      BY <3>3, <3>4
  <2>2. disk \in [Version -> Dir]
    BY <1>1 DEF TypeOK, Dir
  <2>3. ASSUME NEW m \in MetaFile PROVE [disk EXCEPT ![next[t]].meta = m] \in [Version -> Dir]
    BY <1>1, <2>2 DEF Dir
  <2>4. QED
    BY <2>1, <2>2, <2>3
<1>4. /\ pc' \in [Ranks -> Entry]
      /\ \A r \in Ranks : r # t => pc'[r] = pc[r]
  BY <1>1 DEF TypeOK, Entry, Barrier, Checksum, MetaOpen, MetaWrite, MetaFails
<1>5. /\ next' \in [Ranks -> 1 .. MaxVersion + 1]
      /\ \A r \in Ranks : r # t => next'[r] = next[r]
      /\ pc'[t] \in Saving => next'[t] = next[t]
  <2>1. CASE MetaWrite(t)
    <3>1. next' = [next EXCEPT ![t] = @ + 1] /\ pc' = [pc EXCEPT ![t] = "GC"]
      BY <2>1 DEF MetaWrite
    <3>2. next[t] + 1 \in 1 .. MaxVersion + 1
      BY <1>1, Bounds DEF Version
    <3>3. QED
      BY <1>1, <3>1, <3>2 DEF TypeOK, Saving
  <2>2. CASE Barrier(t) \/ Checksum(t) \/ MetaOpen(t) \/ MetaFails(t)
    BY <1>1, <2>2 DEF TypeOK, Barrier, Checksum, MetaOpen, MetaFails
  <2>3. QED
    BY <2>1, <2>2
<1>6. sum' \in [Ranks -> File]
  BY <1>1 DEF TypeOK, Dir, Barrier, Checksum, MetaOpen, MetaWrite, MetaFails
<1>7. TypeOK'
  BY <1>1, <1>2, <1>3, <1>4, <1>5, <1>6 DEF TypeOK, Dir, collector, saver
<1>8. SavesInRange'
  BY <1>1, <1>4, <1>5, RankSavesInRange DEF Saving
<1>9. QED
  BY <1>7, <1>8 DEF TypeInv

LEMMA CollectTypeInv ==
  ASSUME TypeInv, NEW t \in Ranks,
         GCList(t) \/ GCNext(t) \/ GCUnlink(t) \/ GCRmdir(t) \/ SaveReturn(t)
  PROVE  TypeInv'
<1>1. TypeOK /\ disk \in [Version -> Dir]
  BY DEF TypeInv, TypeOK, Dir
<1>2. UNCHANGED <<step, params, next, sum, arrived, saver, crashes>>
  BY DEF GCList, GCNext, GCUnlink, GCRmdir, SaveReturn
<1>3. disk' \in [Version -> Dir]
  <2>1. CASE GCUnlink(t)
    <3>1. \A v : [disk EXCEPT ![v].data = NoFile] \in [Version -> Dir]
      BY <1>1, EmptyFiles DEF Dir
    <3>2. \A v : [disk EXCEPT ![v].meta = NoMeta] \in [Version -> Dir]
      BY <1>1, EmptyFiles DEF Dir
    <3>3. QED
      BY <2>1, <3>1, <3>2 DEF GCUnlink
  <2>2. CASE GCRmdir(t)
    <3>1. \A v : [disk EXCEPT ![v].dir = FALSE] \in [Version -> Dir]
      BY <1>1 DEF Dir
    <3>2. QED
      BY <1>1, <2>2, <3>1 DEF GCRmdir
  <2>3. CASE GCList(t) \/ GCNext(t) \/ SaveReturn(t)
    BY <1>1, <2>3 DEF GCList, GCNext, SaveReturn
  <2>4. QED
    BY <2>1, <2>2, <2>3
<1>4. pc[t] \in {"GC", "GC_LOOP", "GC_RMTREE"}
  BY DEF GCList, GCNext, GCUnlink, GCRmdir, SaveReturn
<1>5. pc' = pc \/ \E e \in {"GC_LOOP", "GC_RMTREE", "TRAIN"} : pc' = [pc EXCEPT ![t] = e]
  BY DEF GCList, GCNext, GCUnlink, GCRmdir, SaveReturn
<1>6. /\ pc' \in [Ranks -> Entry] /\ pc'[t] \notin Saving
      /\ \A r \in Ranks : r # t => pc'[r] = pc[r]
  BY <1>1, <1>4, <1>5 DEF TypeOK, Entry, Saving
<1>7. gcTodo' \in [Ranks -> SUBSET Version]
  <2>1. ToDelete \in SUBSET Version
    BY DEF ToDelete, Listed
  <2>2. \A v : [gcTodo EXCEPT ![t] = @ \ {v}] \in [Ranks -> SUBSET Version]
    BY <1>1 DEF TypeOK
  <2>3. CASE GCList(t) \/ SaveReturn(t)
    BY <1>1, <2>1, <2>3 DEF TypeOK, GCList, SaveReturn
  <2>4. CASE GCNext(t) \/ GCUnlink(t) \/ GCRmdir(t)
    <3>1. gcTodo' = gcTodo \/ \E v : gcTodo' = [gcTodo EXCEPT ![t] = @ \ {v}]
      BY <2>4 DEF GCNext, GCUnlink, GCRmdir
    <3>2. gcTodo \in [Ranks -> SUBSET Version]
      BY <1>1 DEF TypeOK
    <3>3. QED
      BY <2>2, <3>1, <3>2
  <2>5. QED
    BY <2>3, <2>4
<1>8. gcLatest' \in [Ranks -> Version \cup {0}]
  <2>1. Latest \in Version \cup {0}
    BY LatestIsTop, TopFacts
  <2>2. QED
    BY <1>1, <2>1 DEF TypeOK, GCList, GCNext, GCUnlink, GCRmdir, SaveReturn
<1>9. gcFiles' \in [Ranks -> SUBSET {"data", "meta"}]
  <2>1. gcFiles \in [Ranks -> SUBSET {"data", "meta"}]
    BY <1>1 DEF TypeOK
  <2>2. gcFiles' = gcFiles \/ \E F \in SUBSET {"data", "meta"} : gcFiles' = [gcFiles EXCEPT ![t] = F]
    <3>1. CASE GCNext(t)
      BY <3>1 DEF GCNext
    <3>2. CASE GCUnlink(t)
      BY <2>1, <3>2 DEF GCUnlink
    <3>3. CASE GCList(t) \/ GCRmdir(t) \/ SaveReturn(t)
      BY <3>3 DEF GCList, GCRmdir, SaveReturn
    <3>4. QED
      BY <3>1, <3>2, <3>3
  <2>3. QED
    BY <2>1, <2>2
<1>10. returned' \in Step
  BY <1>1 DEF TypeOK, GCList, GCNext, GCUnlink, GCRmdir, SaveReturn
<1>11. TypeOK'
  BY <1>1, <1>2, <1>3, <1>6, <1>7, <1>8, <1>9, <1>10 DEF TypeOK, Dir, saver
<1>12. SavesInRange'
  BY <1>2, <1>6, RankSavesInRange
<1>13. QED
  BY <1>11, <1>12 DEF TypeInv

LEMMA WorkerTypeInv == ASSUME TypeInv, NEW w \in Workers, WorkerNext(w) PROVE TypeInv'
<1>1. TypeOK /\ SavesInRange /\ disk \in [Version -> Dir]
  BY DEF TypeInv, TypeOK, Dir
<1>2. UNCHANGED <<step, params, pc, next, sum, arrived, collector, returned, crashes>>
  BY DEF WorkerNext, WorkerStart, WorkerEnd, WorkerFails
<1>3. params[1] \in Nat /\ params[2] \in Nat
  BY <1>1 DEF TypeOK
<1>4. disk' \in [Version -> Dir]
  <2>1. ASSUME NEW v, NEW f \in File PROVE [disk EXCEPT ![v].data = f] \in [Version -> Dir]
    BY <1>1 DEF Dir
  <2>2. CASE WorkerStart(w)
    <3>1. disk' = disk \/ \E v : disk' = [disk EXCEPT ![v].data = <<params[1], 0>>]
      BY <2>2 DEF WorkerStart, Opened
    <3>2. <<params[1], 0>> \in File
      BY <1>3 DEF File
    <3>3. QED
      BY <1>1, <2>1, <3>1, <3>2
  <2>3. CASE WorkerEnd(w)
    <3>1. job[w] \in Version
      BY <1>1, <2>3 DEF TypeOK, WorkerEnd
    <3>2. \/ disk' = disk
          \/ disk' = [disk EXCEPT ![job[w]].data = [disk[job[w]].data EXCEPT ![2] = params[2]]]
      BY <2>3 DEF WorkerEnd
    <3>3. [disk[job[w]].data EXCEPT ![2] = params[2]] \in File
      BY <1>1, <1>3, <3>1, FileWritten DEF Dir
    <3>4. QED
      BY <1>1, <2>1, <3>2, <3>3
  <2>4. CASE WorkerFails(w)
    BY <1>1, <2>4 DEF WorkerFails
  <2>5. QED
    BY <2>2, <2>3, <2>4 DEF WorkerNext
<1>5. /\ queue' \in Seq(Version) /\ job' \in [Workers -> Version \cup {0}]
      /\ pending' \subseteq Version /\ lost' \subseteq Version
  <2>1. CASE WorkerStart(w)
    <3>1. Head(queue) \in Version /\ Tail(queue) \in Seq(Version)
      BY <1>1, <2>1, HeadTailProperties DEF TypeOK, WorkerStart
    <3>2. QED
      BY <1>1, <2>1, <3>1 DEF TypeOK, WorkerStart
  <2>2. CASE WorkerEnd(w) \/ WorkerFails(w)
    BY <1>1, <2>2 DEF TypeOK, WorkerEnd, WorkerFails
  <2>3. QED
    BY <2>1, <2>2 DEF WorkerNext
<1>6. TypeOK'
  BY <1>1, <1>2, <1>4, <1>5 DEF TypeOK, Dir, collector
<1>7. QED
  BY <1>1, <1>2, <1>6 DEF TypeInv, SavesInRange

LEMMA RestartTypeInv == ASSUME TypeInv, Restart PROVE TypeInv'
<1>1. TypeOK /\ disk \in [Version -> Dir]
  BY DEF TypeInv, TypeOK, Dir
<1>2. /\ Latest \in Version \cup {0}
      /\ Listed # {} => Latest \in Listed
      /\ Listed \in SUBSET Version
  BY LatestIsTop, TopFacts
<1>3. next' \in [Ranks -> 1 .. MaxVersion + 1]
  <2>1. NextVersion \in 1 .. MaxVersion + 1
    BY <1>2, Bounds DEF NextVersion, Version
  <2>2. QED
    BY <2>1 DEF Restart
<1>4. step' \in Step
  <2>1. Listed # {} => disk[Latest].meta.step \in Step
    BY <1>1, <1>2 DEF Dir, MetaFile
  <2>2. QED
    BY <1>1, <2>1, Bounds DEF TypeOK, Restart
<1>5. params' \in Nat \X Nat
  <2>1. Listed # {} /\ Complete(disk[Latest].data) => disk[Latest].data \in Nat \X Nat
    BY <1>1, <1>2 DEF Dir, File, Complete
  <2>2. <<0, 0>> \in Nat \X Nat
    OBVIOUS
  <2>3. QED
    BY <1>1, <2>1, <2>2 DEF TypeOK, Restart
<1>6. \/ pc' = [r \in Ranks |-> "TRAIN"]
      \/ pc' = [r \in Ranks |-> "LOAD_FAILED"]
  BY DEF Restart
<1>7. pc' \in [Ranks -> Entry] /\ SavesInRange'
  BY <1>6 DEF Entry, SavesInRange, Saving
<1>8. /\ sum' \in [Ranks -> File] /\ gcTodo' \in [Ranks -> SUBSET Version]
      /\ gcLatest' \in [Ranks -> Version \cup {0}]
      /\ gcFiles' \in [Ranks -> SUBSET {"data", "meta"}]
      /\ job' \in [Workers -> Version \cup {0}]
  BY EmptyFiles DEF Restart
<1>9. queue' \in Seq(Version) /\ arrived' \subseteq Ranks /\ pending' \subseteq Version
  BY EmptySeq DEF Restart
<1>10. lost' \subseteq Version
  BY <1>1 DEF TypeOK, Restart
<1>11. crashes' \in 0 .. MaxCrashes
  BY <1>1, Bounds DEF TypeOK, Restart
<1>12. UNCHANGED <<disk, returned>>
  BY DEF Restart
<1>13. TypeOK'
  BY <1>1, <1>3, <1>4, <1>5, <1>7, <1>8, <1>9, <1>10, <1>11, <1>12 DEF TypeOK
<1>14. QED
  BY <1>7, <1>13 DEF TypeInv

LEMMA NextTypeInv == TypeInv /\ [Next]_vars => TypeInv'
<1>1. ASSUME TypeInv, UNCHANGED vars PROVE TypeInv'
  BY <1>1 DEF vars, collector, saver, TypeInv, TypeOK, SavesInRange
<1>2. QED
  BY <1>1, TrainStepTypeInv, SaveBeginTypeInv, WriteTypeInv, MetadataTypeInv, CollectTypeInv,
     WorkerTypeInv, RestartTypeInv DEF Next, RankNext, Terminating

(* The types hold for any number of ranks, with asynchronous saves and      *)
(* through every crash; above all, a rank in save() has a version to write, *)
(* and what load() takes for tensors is a whole file.                       *)
THEOREM TypeCorrect == Spec => []TypeOK
<1>1. TypeInv => TypeOK
  BY DEF TypeInv
<1>2. QED
  BY <1>1, InitTypeInv, NextTypeInv, PTL DEF Spec
-----------------------------------------------------------------------------
(* Synchronous saves on one rank.                                          *)
(*                                                                         *)
(* Plan: a save touches only the directory of the next version, which is    *)
(* not listed, until its metadata is written; then it is the latest, whole, *)
(* and of the step the trainer is at (Saved). Garbage collection touches    *)
(* only listed versions before the latest. So whatever a crash leaves       *)
(* behind, the latest listed checkpoint is whole (LatestWhole).             *)
Synchronous == Ranks = {0} /\ AsyncSave = FALSE

Idle == queue = <<>> /\ job = [w \in Workers |-> 0] /\ pending = {}

NextUnlisted == \A v \in Listed : v < next[0]

LatestWhole ==
  Listed # {} =>
    /\ disk[Latest].meta.step \in 1 .. MaxStep
    /\ disk[Latest].meta.step >= returned
    /\ disk[Latest].data = <<disk[Latest].meta.step, disk[Latest].meta.step>>
    /\ disk[Latest].meta.sum = disk[Latest].data

ReturnedSaved == step >= returned /\ (returned # 0 => Listed # {})

(* What save() has done at each of its steps. *)
Written ==
  /\ pc[0] = "WRITING" => disk[next[0]].data = <<step, 0>>
  /\ pc[0] \in {"BARRIER", "CHECKSUM", "META", "META_WRITE"} => disk[next[0]].data = <<step, step>>
  /\ pc[0] \in {"META", "META_WRITE"} => sum[0] = <<step, step>>

Collecting == {"GC", "GC_LOOP", "GC_RMTREE"}

Saved ==
  /\ pc[0] # "TRAIN" => step # 0
  /\ pc[0] \in Collecting => Listed # {} /\ disk[Latest].meta.step = step
  /\ pc[0] \in {"GC_LOOP", "GC_RMTREE"} => \A v \in gcTodo[0] : v < Latest
  /\ pc[0] = "GC_RMTREE" => gcTodo[0] # {}

SyncInv ==
  /\ TypeInv /\ Synchronous /\ Idle
  /\ StateMatchesStep
  /\ NextUnlisted /\ LatestWhole /\ ReturnedSaved
  /\ Written /\ Saved

(* The one rank, in the functions of ranks. *)
LEMMA OneRank ==
  ASSUME SyncInv
  PROVE  /\ Ranks = {0} /\ AsyncSave = FALSE /\ 0 \in Ranks
         /\ TypeOK /\ TypeInv
         /\ params = <<step, step>> /\ params[1] = step /\ params[2] = step
         /\ pc[0] \in Entry /\ pc[0] # "LOAD_FAILED"
         /\ step \in Nat /\ step <= MaxStep /\ returned \in Nat
         /\ next[0] \in Int
         /\ pc[0] \in Saving => next[0] \in Version
BY Bounds DEF SyncInv, Synchronous, StateMatchesStep, TypeInv, TypeOK, SavesInRange, Step

LEMMA LatestFacts ==
  /\ Latest \in Version \cup {0}
  /\ Listed \in SUBSET Version
  /\ Latest = 0 <=> Listed = {}
  /\ Listed # {} => Latest \in Listed /\ (\A u \in Listed : u <= Latest)
BY LatestIsTop, TopFacts

(* Only the directory of version v changes: it is not the latest, nor is it *)
(* listed by that.                                                          *)
Touches(v) ==
  /\ \A u \in Version : u # v => disk'[u] = disk[u]
  /\ disk'[v].meta.state = "written" => disk[v].meta.state = "written"
  /\ v \in Listed => v < Latest

Quiet == disk' = disk \/ \E v \in Version : Touches(v)

LEMMA LatestKept ==
  ASSUME TypeInv, Quiet
  PROVE  /\ Listed' \subseteq Listed /\ Latest' = Latest /\ (Listed' = {} <=> Listed = {})
         /\ Listed # {} => disk'[Latest] = disk[Latest]
<1>1. CASE disk' = disk
  BY <1>1 DEF Listed, Latest
<1>2. CASE \E v \in Version : Touches(v)
  <2>1. PICK v \in Version : Touches(v)
    BY <1>2
  <2>2. Listed' \subseteq Listed /\ \A u \in Listed : u # v => u \in Listed'
    BY <2>1 DEF Touches, Listed
  <2>3. Listed' \in SUBSET Version /\ Latest' = Top(Listed')
    BY LatestIsTop DEF Listed, Latest, Top
  <2>4. CASE Listed = {}
    <3>1. Listed' = {}
      BY <2>2, <2>4
    <3>2. QED
      BY <2>3, <2>4, <3>1, LatestFacts DEF Top
  <2>5. CASE Listed # {}
    <3>1. /\ Latest \in Listed /\ Latest \in Version /\ Latest \in Int
          /\ \A u \in Listed : u <= Latest
      BY <2>5, LatestFacts, Bounds
    <3>2. v # Latest
      BY <2>1, <3>1 DEF Touches
    <3>3. Latest \in Listed' /\ \A u \in Listed' : u <= Latest
      BY <2>2, <3>1, <3>2
    <3>4. Latest' = Latest
      BY <2>3, <3>3, TopFacts
    <3>5. QED
      BY <2>1, <2>2, <2>5, <3>1, <3>2, <3>3, <3>4 DEF Touches
  <2>6. QED
    BY <2>4, <2>5
<1>3. QED
  BY <1>1, <1>2 DEF Quiet

LEMMA QuietKeeps ==
  ASSUME SyncInv, Quiet, UNCHANGED <<next, returned>>
  PROVE  NextUnlisted' /\ LatestWhole'
<1>1. /\ Listed' \subseteq Listed /\ Latest' = Latest /\ (Listed' = {} <=> Listed = {})
      /\ Listed # {} => disk'[Latest] = disk[Latest]
  BY LatestKept DEF SyncInv
<1>2. NextUnlisted'
  BY <1>1 DEF SyncInv, NextUnlisted
<1>3. LatestWhole'
  BY <1>1 DEF SyncInv, LatestWhole
<1>4. QED
  BY <1>2, <1>3

(* A step within save(), until the metadata is written. *)
LEMMA SyncFrame ==
  ASSUME SyncInv, TypeInv', Quiet,
         UNCHANGED <<step, params, next, returned, queue, job, pending>>,
         pc'[0] # "LOAD_FAILED", Written', Saved'
  PROVE  SyncInv'
<1>1. Listed' = {} <=> Listed = {}
  BY LatestKept DEF SyncInv
<1>2. ReturnedSaved'
  BY <1>1 DEF SyncInv, ReturnedSaved
<1>3. StateMatchesStep'
  BY OneRank DEF SyncInv, StateMatchesStep
<1>4. Idle' /\ Synchronous'
  BY DEF SyncInv, Idle, Synchronous
<1>5. QED
  BY <1>2, <1>3, <1>4, QuietKeeps DEF SyncInv

LEMMA InitSyncInv == Init /\ Synchronous => SyncInv
<1> SUFFICES ASSUME Init, Synchronous PROVE SyncInv
  OBVIOUS
<1>1. Listed = {}
  BY DEF Init, Listed, Absent, NoMeta
<1>2. pc[0] = "TRAIN" /\ step = 0 /\ returned = 0 /\ params = <<0, 0>>
  BY Bounds DEF Init
<1>3. NextUnlisted /\ LatestWhole /\ ReturnedSaved /\ Written /\ Saved
  BY <1>1, <1>2 DEF NextUnlisted, LatestWhole, ReturnedSaved, Written, Saved, Collecting
<1>4. Idle /\ StateMatchesStep
  BY <1>2 DEF Init, Idle, StateMatchesStep
<1>5. QED
  BY <1>3, <1>4, InitTypeInv DEF SyncInv

(* The directory of the next version can be written to. *)
LEMMA TouchesNext ==
  ASSUME SyncInv, next[0] \in Version,
         \A u \in Version : u # next[0] => disk'[u] = disk[u],
         disk'[next[0]].meta.state = "written" => disk[next[0]].meta.state = "written"
  PROVE  Touches(next[0]) /\ Quiet /\ next[0] \notin Listed
<1>1. next[0] \notin Listed
  BY Bounds DEF SyncInv, NextUnlisted
<1>2. QED
  BY <1>1 DEF Touches, Quiet

LEMMA SaveBeginSync == ASSUME SyncInv, SaveBegin(0) PROVE SyncInv' /\ Quiet
<1>1. /\ pc[0] = "SAVE" /\ next[0] \in Version
      /\ disk' = [disk EXCEPT ![next[0]].dir = TRUE]
      /\ pc' = [pc EXCEPT ![0] = "WRITE"]
      /\ UNCHANGED <<queue, pending, step, params, next, sum, collector, job, returned>>
  BY OneRank DEF SaveBegin, Saving
<1>2. TypeInv' /\ pc'[0] = "WRITE" /\ disk \in [Version -> Dir]
  BY <1>1, OneRank, SaveBeginTypeInv DEF TypeOK, Dir
<1>3. Quiet
  <2>1. /\ \A u \in Version : u # next[0] => disk'[u] = disk[u]
        /\ disk'[next[0]].meta = disk[next[0]].meta
    BY <1>1, <1>2 DEF Dir
  <2>2. QED
    BY <1>1, <2>1, TouchesNext
<1>4. Written' /\ Saved'
  BY <1>1, <1>2 DEF SyncInv, Written, Saved, Collecting
<1>5. QED
  BY <1>1, <1>2, <1>3, <1>4, SyncFrame

LEMMA WriteSync ==
  ASSUME SyncInv, WriteBegin(0) \/ WriteEnd(0) \/ WriteFails(0)
  PROVE  SyncInv' /\ Quiet
<1>1. /\ pc[0] \in {"WRITE", "WRITING"} /\ next[0] \in Version
      /\ UNCHANGED <<queue, pending, step, params, next, sum, collector, job, returned>>
  BY OneRank DEF WriteBegin, WriteEnd, WriteFails, Saving, saver
<1>2. TypeInv' /\ disk \in [Version -> Dir]
  BY OneRank, WriteTypeInv DEF TypeOK, Dir
<1>3. CASE WriteBegin(0)
  <2>1. disk' = [disk EXCEPT ![next[0]].data = <<step, 0>>] /\ pc' = [pc EXCEPT ![0] = "WRITING"]
    BY <1>3, OneRank DEF WriteBegin, Opened
  <2>2. /\ pc'[0] = "WRITING"
        /\ \A u \in Version : u # next[0] => disk'[u] = disk[u]
        /\ disk'[next[0]].meta = disk[next[0]].meta /\ disk'[next[0]].data = <<step, 0>>
    BY <1>1, <1>2, <2>1, OneRank DEF TypeOK, Dir
  <2>3. Quiet
    BY <1>1, <2>2, TouchesNext
  <2>4. Written' /\ Saved'
    BY <1>1, <2>2 DEF SyncInv, Written, Saved, Collecting
  <2>5. QED
    BY <1>1, <1>2, <2>2, <2>3, <2>4, SyncFrame
<1>4. CASE WriteEnd(0)
  <2>1. /\ disk' = [disk EXCEPT ![next[0]].data = [disk[next[0]].data EXCEPT ![2] = step]]
        /\ pc' = [pc EXCEPT ![0] = "BARRIER"] /\ pc[0] = "WRITING"
    BY <1>4, OneRank DEF WriteEnd
  <2>2. disk[next[0]].data = <<step, 0>> /\ [disk[next[0]].data EXCEPT ![2] = step] = <<step, step>>
    BY <2>1 DEF SyncInv, Written
  <2>3. /\ pc'[0] = "BARRIER"
        /\ \A u \in Version : u # next[0] => disk'[u] = disk[u]
        /\ disk'[next[0]].meta = disk[next[0]].meta /\ disk'[next[0]].data = <<step, step>>
    BY <1>1, <1>2, <2>1, <2>2, OneRank DEF TypeOK, Dir
  <2>4. Quiet
    BY <1>1, <2>3, TouchesNext
  <2>5. Written' /\ Saved'
    BY <1>1, <2>3 DEF SyncInv, Written, Saved, Collecting
  <2>6. QED
    BY <1>1, <1>2, <2>3, <2>4, <2>5, SyncFrame
<1>5. CASE WriteFails(0)
  <2>1. pc'[0] = "TRAIN" /\ disk' = disk
    BY <1>5, OneRank DEF WriteFails, TypeOK
  <2>2. Written' /\ Saved' /\ Quiet
    BY <2>1 DEF Written, Saved, Collecting, Quiet
  <2>3. QED
    BY <1>1, <1>2, <2>1, <2>2, SyncFrame
<1>6. QED
  BY <1>3, <1>4, <1>5

LEMMA MetadataSync ==
  ASSUME SyncInv, Barrier(0) \/ Checksum(0) \/ MetaOpen(0) \/ MetaFails(0)
  PROVE  SyncInv' /\ Quiet
<1>1. /\ pc[0] \in {"BARRIER", "CHECKSUM", "META", "META_WRITE"} /\ next[0] \in Version
      /\ UNCHANGED <<queue, pending, step, params, next, collector, job, returned>>
  BY OneRank DEF Barrier, Checksum, MetaOpen, MetaFails, Saving, saver
<1>2. TypeInv' /\ disk \in [Version -> Dir]
  BY OneRank, MetadataTypeInv DEF TypeOK, Dir
<1>3. /\ pc'[0] \in {"CHECKSUM", "META", "META_WRITE", "RAISED"}
      /\ pc'[0] \in {"META", "META_WRITE"} => sum'[0] = <<step, step>>
  BY OneRank DEF SyncInv, Written, TypeOK, Barrier, Checksum, MetaOpen, MetaFails
<1>4. /\ \A u \in Version : u # next[0] => disk'[u] = disk[u]
      /\ disk'[next[0]].data = disk[next[0]].data
      /\ disk'[next[0]].meta \in {disk[next[0]].meta, PartialMeta}
  <2>1. disk' = disk \/ disk' = [disk EXCEPT ![next[0]].meta = PartialMeta]
    BY DEF Barrier, Checksum, MetaOpen, MetaFails
  <2>2. QED
    BY <1>1, <1>2, <2>1 DEF Dir
<1>5. Quiet
  BY <1>1, <1>4, TouchesNext DEF PartialMeta
<1>6. Written' /\ Saved'
  BY <1>1, <1>3, <1>4 DEF SyncInv, Written, Saved, Collecting
<1>7. QED
  BY <1>1, <1>2, <1>3, <1>5, <1>6, SyncFrame

(* The metadata makes the next version the latest, and it is whole. *)
LEMMA Publish ==
  ASSUME SyncInv, MetaWrite(0)
  PROVE  /\ next[0] \in Version /\ next[0] \notin Listed
         /\ Listed' = Listed \cup {next[0]} /\ Latest' = next[0]
         /\ disk'[next[0]].data = <<step, step>>
         /\ disk'[next[0]].meta = Meta(step, <<step, step>>)
         /\ \A u \in Version : u # next[0] => disk'[u] = disk[u]
<1> DEFINE n == next[0]
<1>1. /\ pc[0] = "META_WRITE" /\ n \in Version /\ disk \in [Version -> Dir]
      /\ sum[0] = <<step, step>> /\ disk[n].data = <<step, step>>
  <2>1. pc[0] = "META_WRITE"
    BY DEF MetaWrite
  <2>2. QED
    BY <2>1, OneRank DEF Saving, SyncInv, Written, TypeOK, Dir
<1>2. n \notin Listed
  BY <1>1, Bounds DEF SyncInv, NextUnlisted
<1>3. disk[n].meta.state # "written"
  BY <1>1, <1>2 DEF Listed
<1>4. disk' = [disk EXCEPT ![n].meta = Meta(step, <<step, step>>)]
  BY <1>1, <1>3 DEF MetaWrite
<1>5. /\ disk'[n].data = <<step, step>> /\ disk'[n].meta = Meta(step, <<step, step>>)
      /\ \A u \in Version : u # n => disk'[u] = disk[u]
  BY <1>1, <1>4 DEF Dir
<1>6. Listed' = Listed \cup {n}
  BY <1>1, <1>5 DEF Listed, Meta
<1>7. Latest' = n
  <2>1. Listed' \in SUBSET Version /\ Latest' = Top(Listed')
    BY LatestIsTop DEF Listed, Latest, Top
  <2>2. n \in Listed' /\ \A u \in Listed' : u <= n
    BY <1>1, <1>6, Bounds DEF SyncInv, NextUnlisted, Listed
  <2>3. QED
    BY <2>1, <2>2, TopFacts
<1>8. QED
  BY <1>1, <1>2, <1>5, <1>6, <1>7

LEMMA MetaWriteSync == ASSUME SyncInv, MetaWrite(0) PROVE SyncInv'
<1>1. /\ pc[0] = "META_WRITE" /\ pc' = [pc EXCEPT ![0] = "GC"]
      /\ next' = [next EXCEPT ![0] = @ + 1]
      /\ UNCHANGED <<queue, pending, step, params, sum, collector, job, returned>>
  BY DEF MetaWrite, saver
<1>2. TypeInv' /\ pc'[0] = "GC" /\ next'[0] = next[0] + 1
  BY <1>1, OneRank, MetadataTypeInv DEF TypeOK
<1>3. step # 0 /\ step \in Nat /\ step <= MaxStep /\ MaxStep \in Nat /\ step >= returned
  BY <1>1, OneRank, Bounds DEF SyncInv, Saved, ReturnedSaved
<1>4. /\ Meta(step, <<step, step>>).step = step
      /\ Meta(step, <<step, step>>).sum = <<step, step>>
  BY DEF Meta
<1>5. NextUnlisted'
  <2>1. \A v \in Listed' : v <= next[0] /\ v \in Int
    BY Publish, Bounds DEF SyncInv, NextUnlisted, Listed
  <2>2. next[0] \in Int
    BY OneRank
  <2>3. QED
    BY <1>2, <2>1, <2>2 DEF NextUnlisted
<1>6. LatestWhole'
  <2>1. step \in 1 .. MaxStep
    BY <1>3
  <2>2. QED
    BY <1>1, <1>3, <1>4, <2>1, Publish DEF LatestWhole
<1>7. ReturnedSaved'
  BY <1>1, <1>3, Publish DEF ReturnedSaved
<1>8. Written'
  BY <1>2 DEF Written
<1>9. Saved'
  BY <1>1, <1>2, <1>3, <1>4, Publish DEF Saved
<1>10. StateMatchesStep' /\ Idle' /\ Synchronous'
  BY <1>1, <1>2, OneRank DEF SyncInv, StateMatchesStep, Idle, Synchronous
<1>11. QED
  BY <1>2, <1>5, <1>6, <1>7, <1>8, <1>9, <1>10 DEF SyncInv

(* The latest checkpoint is not deleted. *)
LEMMA ToDeleteBeforeLatest == ASSUME NEW v \in ToDelete PROVE v \in Listed /\ v < Latest
<1>1. Keep # 0 /\ Keep \in Nat /\ v \in Listed /\ Cardinality({u \in Listed : u > v}) >= Keep
  BY CheckpointAssumption DEF ToDelete
<1>2. {u \in Listed : u > v} # {}
  BY <1>1, FS_EmptySet
<1>3. PICK u \in Listed : u > v
  BY <1>2
<1>4. u <= Latest /\ u \in Int /\ v \in Int /\ Latest \in Int
  BY <1>1, LatestFacts, Bounds
<1>5. QED
  BY <1>1, <1>3, <1>4

LEMMA CollectSync ==
  ASSUME SyncInv, GCList(0) \/ GCNext(0) \/ GCUnlink(0) \/ GCRmdir(0)
  PROVE  /\ SyncInv' /\ Quiet
         /\ \A v \in Version : disk'[v].data \in {disk[v].data, NoFile}
<1>1. /\ pc[0] \in Collecting
      /\ UNCHANGED <<queue, pending, step, params, next, sum, job, returned>>
  BY DEF GCList, GCNext, GCUnlink, GCRmdir, Collecting, saver
<1>2. TypeInv' /\ disk \in [Version -> Dir]
  BY OneRank, CollectTypeInv DEF TypeOK, Dir
<1>3. /\ pc'[0] \in {"GC_LOOP", "GC_RMTREE"}
      /\ pc'[0] = "GC_RMTREE" => gcTodo'[0] # {}
      /\ \A v \in gcTodo'[0] : v < Latest
  <2>1. CASE GCList(0)
    <3>1. pc'[0] = "GC_LOOP" /\ gcTodo'[0] = ToDelete
      BY <2>1, OneRank DEF GCList, TypeOK
    <3>2. QED
      BY <3>1, ToDeleteBeforeLatest
  <2>2. CASE GCNext(0) \/ GCUnlink(0) \/ GCRmdir(0)
    <3>1. pc[0] \in {"GC_LOOP", "GC_RMTREE"}
      BY <2>2 DEF GCNext, GCUnlink, GCRmdir
    <3>2. gcTodo'[0] \subseteq gcTodo[0]
      BY <2>2, OneRank DEF GCNext, GCUnlink, GCRmdir, TypeOK
    <3>3. pc'[0] \in {"GC_LOOP", "GC_RMTREE"} /\ (pc'[0] = "GC_RMTREE" => gcTodo'[0] # {})
      BY <2>2, OneRank DEF GCNext, GCUnlink, GCRmdir, TypeOK, SyncInv, Saved
    <3>4. QED
      BY <3>1, <3>2, <3>3 DEF SyncInv, Saved
  <2>3. QED
    BY <2>1, <2>2
<1>4. Quiet /\ \A v \in Version : disk'[v].data \in {disk[v].data, NoFile}
  <2>1. CASE GCList(0) \/ GCNext(0)
    BY <2>1 DEF GCList, GCNext, Quiet
  <2>2. CASE GCUnlink(0) \/ GCRmdir(0)
    <3> DEFINE v == Oldest(gcTodo[0])
    <3>1. pc[0] = "GC_RMTREE"
      BY <2>2 DEF GCUnlink, GCRmdir
    <3>2. gcTodo[0] # {} /\ gcTodo[0] \in SUBSET Version
      BY <3>1, OneRank DEF SyncInv, Saved, TypeOK
    <3>3. v \in gcTodo[0] /\ v \in Version
      BY <3>2, OldestFacts
    <3>4. v < Latest
      BY <3>1, <3>3 DEF SyncInv, Saved
    <3>5. \/ disk' = disk
          \/ disk' = [disk EXCEPT ![v].data = NoFile]
          \/ disk' = [disk EXCEPT ![v].meta = NoMeta]
          \/ disk' = [disk EXCEPT ![v].dir = FALSE]
      BY <2>2 DEF GCUnlink, GCRmdir
    <3>6. /\ \A u \in Version : u # v => disk'[u] = disk[u]
          /\ disk'[v].data \in {disk[v].data, NoFile}
          /\ disk'[v].meta \in {disk[v].meta, NoMeta}
      BY <1>2, <3>3, <3>5 DEF Dir
    <3>7. Touches(v)
      BY <3>4, <3>6 DEF Touches, NoMeta
    <3>8. QED
      BY <3>3, <3>6, <3>7 DEF Quiet
  <2>3. QED
    BY <2>1, <2>2
<1>5. Written'
  BY <1>3 DEF Written
<1>6. Saved'
  <2>1. /\ Listed # {} /\ disk[Latest].meta.step = step /\ step # 0
    BY <1>1 DEF SyncInv, Saved, Collecting
  <2>2. Latest' = Latest /\ disk'[Latest] = disk[Latest] /\ Listed' # {}
    BY <1>4, <2>1, OneRank, LatestKept
  <2>3. QED
    BY <1>1, <1>3, <2>1, <2>2 DEF Saved, Collecting
<1>7. QED
  BY <1>1, <1>2, <1>3, <1>4, <1>5, <1>6, SyncFrame

LEMMA SaveReturnSync == ASSUME SyncInv, SaveReturn(0) PROVE SyncInv'
<1>1. /\ pc[0] = "GC_LOOP" /\ disk' = disk /\ returned' = step
      /\ UNCHANGED <<queue, pending, step, params, next, sum, job>>
  BY DEF SaveReturn, saver
<1>2. TypeInv' /\ pc'[0] = "TRAIN"
  BY OneRank, CollectTypeInv DEF TypeOK, SaveReturn
<1>3. Listed # {} /\ disk[Latest].meta.step = step /\ Listed' = Listed /\ Latest' = Latest
  BY <1>1 DEF SyncInv, Saved, Collecting, Listed, Latest
<1>4. NextUnlisted'
  BY <1>1, <1>3 DEF SyncInv, NextUnlisted
<1>5. LatestWhole' /\ ReturnedSaved'
  <2>1. step <= step /\ step \in Int
    BY OneRank
  <2>2. QED
    BY <1>1, <1>3, <2>1 DEF SyncInv, LatestWhole, ReturnedSaved
<1>6. Written' /\ Saved'
  BY <1>2 DEF Written, Saved, Collecting
<1>7. StateMatchesStep' /\ Idle' /\ Synchronous'
  BY <1>1, <1>2, OneRank DEF SyncInv, StateMatchesStep, Idle, Synchronous
<1>8. QED
  BY <1>2, <1>4, <1>5, <1>6, <1>7 DEF SyncInv

LEMMA TrainStepSync == ASSUME SyncInv, TrainStep PROVE SyncInv'
<1>1. /\ disk' = disk /\ step' = step + 1 /\ params' = <<params[1] + 1, params[2] + 1>>
      /\ UNCHANGED <<queue, pending, returned, next, sum, job>>
  BY DEF TrainStep, saver
<1>2. TypeInv' /\ pc'[0] \in {"TRAIN", "SAVE"}
  BY OneRank, TrainStepTypeInv DEF SyncInv, TrainStep
<1>3. Listed' = Listed /\ Latest' = Latest
  BY <1>1 DEF Listed, Latest
<1>4. step + 1 >= returned /\ step + 1 # 0
  <2>1. step \in Nat /\ returned \in Nat /\ step >= returned
    BY OneRank DEF SyncInv, ReturnedSaved
  <2>2. QED
    BY <2>1
<1>5. NextUnlisted' /\ LatestWhole' /\ ReturnedSaved'
  BY <1>1, <1>3, <1>4 DEF SyncInv, NextUnlisted, LatestWhole, ReturnedSaved
<1>6. Written' /\ Saved'
  BY <1>1, <1>2, <1>4 DEF Written, Saved, Collecting
<1>7. StateMatchesStep' /\ Idle' /\ Synchronous'
  BY <1>1, <1>2, OneRank DEF SyncInv, StateMatchesStep, Idle, Synchronous
<1>8. QED
  BY <1>2, <1>5, <1>6, <1>7 DEF SyncInv

(* load() restores the latest checkpoint, or the trainer starts anew. *)
LEMMA Resume ==
  ASSUME SyncInv, Restart
  PROVE  /\ params' = <<step', step'>> /\ pc' = [r \in Ranks |-> "TRAIN"]
         /\ Listed = {} => step' = 0
         /\ Listed # {} => step' = disk[Latest].meta.step
<1>1. CASE Listed = {}
  BY <1>1 DEF Restart
<1>2. CASE Listed # {}
  <2> DEFINE k == disk[Latest].meta.step
  <2>1. k \in 1 .. MaxStep /\ disk[Latest].data = <<k, k>>
    BY <1>2 DEF SyncInv, LatestWhole
  <2>2. Complete(disk[Latest].data)
    <3>1. k # 0 /\ <<k, k>>[2] = k
      BY <2>1, Bounds
    <3>2. <<k, k>> # <<>>
      OBVIOUS
    <3>3. QED
      BY <2>1, <3>1, <3>2 DEF Complete, NoFile
  <2>3. QED
    BY <1>2, <2>1, <2>2 DEF Restart
<1>3. QED
  BY <1>1, <1>2

LEMMA RestartSync == ASSUME SyncInv, Restart PROVE SyncInv'
<1>1. /\ disk' = disk /\ returned' = returned
      /\ next' = [r \in Ranks |-> NextVersion]
      /\ queue' = <<>> /\ job' = [w \in Workers |-> 0] /\ pending' = {}
  BY DEF Restart
<1>2. TypeInv' /\ pc'[0] = "TRAIN" /\ next'[0] = Latest + 1
  BY <1>1, OneRank, RestartTypeInv, Resume DEF NextVersion
<1>3. Listed' = Listed /\ Latest' = Latest
  BY <1>1 DEF Listed, Latest
<1>4. NextUnlisted'
  <2>1. \A v \in Listed : v <= Latest /\ v \in Int /\ Latest \in Int
    BY LatestFacts, Bounds
  <2>2. \A v \in Listed : v < Latest + 1
    BY <2>1
  <2>3. QED
    BY <1>2, <1>3, <2>2 DEF NextUnlisted
<1>5. LatestWhole'
  BY <1>1, <1>3 DEF SyncInv, LatestWhole
<1>6. ReturnedSaved'
  <2>1. CASE Listed = {}
    <3>1. returned = 0 /\ step' = 0 /\ 0 >= 0
      BY <2>1, Resume DEF SyncInv, ReturnedSaved
    <3>2. QED
      BY <1>1, <3>1 DEF ReturnedSaved
  <2>2. CASE Listed # {}
    BY <1>1, <1>3, <2>2, Resume DEF SyncInv, LatestWhole, ReturnedSaved
  <2>3. QED
    BY <2>1, <2>2
<1>7. Written' /\ Saved'
  BY <1>2 DEF Written, Saved, Collecting
<1>8. StateMatchesStep' /\ Idle' /\ Synchronous'
  BY <1>1, Resume, OneRank DEF SyncInv, StateMatchesStep, Idle, Synchronous
<1>9. QED
  BY <1>2, <1>4, <1>5, <1>6, <1>7, <1>8 DEF SyncInv

(* No save is submitted to the workers. *)
LEMMA WorkersIdle == ASSUME SyncInv, NEW w \in Workers PROVE ~WorkerNext(w)
BY DEF SyncInv, Idle, WorkerNext, WorkerStart, WorkerEnd, WorkerFails

(* Every step: of training, of a restart, of the end of save(), or quiet.   *)
LEMMA SyncSteps ==
  ASSUME SyncInv, [Next]_vars
  PROVE  \/ TrainStep \/ Restart \/ UNCHANGED vars
         \/ SaveBegin(0) \/ (WriteBegin(0) \/ WriteEnd(0) \/ WriteFails(0))
         \/ (Barrier(0) \/ Checksum(0) \/ MetaOpen(0) \/ MetaFails(0)) \/ MetaWrite(0)
         \/ (GCList(0) \/ GCNext(0) \/ GCUnlink(0) \/ GCRmdir(0)) \/ SaveReturn(0)
<1>1. Ranks = {0} /\ \A w \in Workers : ~WorkerNext(w)
  BY OneRank, WorkersIdle
<1>2. QED
  BY <1>1 DEF Next, Terminating, RankNext

LEMMA NextSyncInv == SyncInv /\ [Next]_vars => SyncInv'
<1> SUFFICES ASSUME SyncInv, [Next]_vars PROVE SyncInv'
  OBVIOUS
<1>1. CASE UNCHANGED vars
  <2>1. TypeInv'
    BY NextTypeInv DEF SyncInv
  <2>2. UNCHANGED <<disk, step, params, pc, next, sum, gcTodo, queue, job, pending, returned>>
    BY <1>1 DEF vars, saver, collector
  <2>3. Listed' = Listed /\ Latest' = Latest
    BY <2>2 DEF Listed, Latest
  <2>4. Synchronous' /\ Idle' /\ StateMatchesStep' /\ NextUnlisted' /\ LatestWhole'
    BY <2>2, <2>3 DEF SyncInv, Synchronous, Idle, StateMatchesStep, NextUnlisted, LatestWhole
  <2>5. ReturnedSaved' /\ Written' /\ Saved'
    BY <2>2, <2>3 DEF SyncInv, ReturnedSaved, Written, Saved
  <2>6. QED
    BY <2>1, <2>4, <2>5 DEF SyncInv
<1>2. QED
  BY <1>1, SyncSteps, SaveBeginSync, WriteSync, MetadataSync, MetaWriteSync, CollectSync,
     SaveReturnSync, TrainStepSync, RestartSync
-----------------------------------------------------------------------------
(* Whatever a crash or a failed write leaves in the directory, the latest   *)
(* checkpoint listed is whole.                                              *)
THEOREM Invariance == Synchronous /\ Spec => []SyncInv
BY InitSyncInv, NextSyncInv, PTL DEF Spec

(* With synchronous saves of one rank, the tensors are those of the step    *)
(* the trainer counts, through every crash, and load() never raises.        *)
THEOREM StateRestored == Synchronous /\ Spec => []StateMatchesStep
<1>1. SyncInv => StateMatchesStep
  BY DEF SyncInv
<1>2. QED
  BY <1>1, Invariance, PTL

(* The latest checkpoint is the one its metadata describes. *)
THEOREM LatestIsLoadable == Synchronous /\ Spec => []LatestLoadable
<1>1. SyncInv => LatestLoadable
  BY LatestFacts DEF SyncInv, LatestWhole, LatestLoadable
<1>2. QED
  BY <1>1, Invariance, PTL

(* What save() returned for stays on the disk: neither a crash at any point *)
(* of a later save nor garbage collection takes it before there is better.  *)
THEOREM SavedIsKept == Synchronous /\ Spec => []NeverLost
<1>1. ASSUME SyncInv, returned # 0
      PROVE  \E v \in Listed : Complete(disk[v].data) /\ disk[v].meta.step >= returned
  <2> DEFINE k == disk[Latest].meta.step
  <2>1. Listed # {} /\ Latest \in Listed
    BY <1>1, LatestFacts DEF SyncInv, ReturnedSaved
  <2>2. k \in 1 .. MaxStep /\ k >= returned /\ disk[Latest].data = <<k, k>>
    BY <1>1, <2>1 DEF SyncInv, LatestWhole
  <2>3. k # 0 /\ <<k, k>>[2] = k /\ <<k, k>> # <<>>
    BY <2>2, Bounds
  <2>4. Complete(disk[Latest].data)
    BY <2>2, <2>3 DEF Complete, NoFile
  <2>5. QED
    BY <2>1, <2>2, <2>4
<1>2. SyncInv => NeverLost
  BY <1>1 DEF NeverLost
<1>3. QED
  BY <1>2, Invariance, PTL

(* Only the collector changes the directory of a listed checkpoint. *)
LEMMA ListedUntouched ==
  ASSUME SyncInv, [Next]_vars, NEW v \in Listed
  PROVE  disk'[v].data \in {disk[v].data, NoFile}
<1>1. v \in Version
  BY DEF Listed
<1>2. CASE GCList(0) \/ GCNext(0) \/ GCUnlink(0) \/ GCRmdir(0)
  BY <1>1, <1>2, CollectSync
<1>3. CASE \/ SaveBegin(0) \/ WriteBegin(0) \/ WriteEnd(0) \/ WriteFails(0)
           \/ Barrier(0) \/ Checksum(0) \/ MetaOpen(0) \/ MetaWrite(0) \/ MetaFails(0)
  <2>1. v # next[0]
    BY <1>1, Bounds DEF SyncInv, NextUnlisted
  <2>2. disk \in [Version -> Dir]
    BY OneRank DEF TypeOK, Dir
  <2>3. disk'[v] = disk[v]
    BY <1>1, <1>3, <2>1, <2>2 DEF SaveBegin, WriteBegin, WriteEnd, WriteFails, Barrier,
       Checksum, MetaOpen, MetaWrite, MetaFails
  <2>4. QED
    BY <2>3
<1>4. CASE TrainStep \/ Restart \/ SaveReturn(0) \/ UNCHANGED vars
  BY <1>4 DEF TrainStep, Restart, SaveReturn, vars
<1>5. QED
  BY <1>2, <1>3, <1>4, SyncSteps

(* No save writes to the data of a checkpoint that is listed. *)
THEOREM PublishedIsImmutable == Synchronous /\ Spec => PublishedImmutable
<1>1. SyncInv /\ [Next]_vars =>
        [\A v \in Listed : Complete(disk[v].data) => disk'[v].data \in {disk[v].data, NoFile}]_vars
  BY ListedUntouched
<1>2. QED
  BY <1>1, Invariance, PTL DEF Spec, PublishedImmutable
-----------------------------------------------------------------------------
(* The stable step is that of the latest checkpoint. *)
LEMMA RecoverableStep ==
  ASSUME SyncInv
  PROVE  Recoverable = IF Listed = {} THEN 0 ELSE disk[Latest].meta.step
<1>1. CASE Listed = {}
  BY <1>1 DEF Recoverable
<1>2. CASE Listed # {}
  <2> DEFINE k == disk[Latest].meta.step
  <2>1. k \in 1 .. MaxStep /\ disk[Latest].data = <<k, k>>
    BY <1>2 DEF SyncInv, LatestWhole
  <2>2. k # 0 /\ <<k, k>>[2] = k /\ <<k, k>> # <<>>
    BY <2>1, Bounds
  <2>3. Complete(disk[Latest].data)
    BY <2>1, <2>2 DEF Complete, NoFile
  <2>4. QED
    BY <1>2, <2>1, <2>2, <2>3 DEF Recoverable
<1>3. QED
  BY <1>1, <1>2

LEMMA QuietStable == ASSUME SyncInv, Quiet PROVE Recoverable' = Recoverable
<1>1. /\ Latest' = Latest /\ (Listed' = {} <=> Listed = {})
      /\ Listed # {} => disk'[Latest] = disk[Latest]
  BY LatestKept DEF SyncInv
<1>2. QED
  BY <1>1 DEF Recoverable, Complete

(* Training trains, writing the metadata saves, a restart recovers; every   *)
(* other step changes neither memory nor what would be restored.            *)
LEMMA AbsStep == ASSUME SyncInv, [Next]_vars PROVE [Abs!Next]_<<params[2], Recoverable>>
<1>1. SyncInv' /\ params[2] = step /\ params'[2] = step'
  <2>1. SyncInv'
    BY NextSyncInv
  <2>2. params = <<step, step>> /\ params' = <<step', step'>>
    BY <2>1 DEF SyncInv, StateMatchesStep
  <2>3. QED
    BY <2>1, <2>2
<1>2. CASE TrainStep
  <2>1. disk' = disk /\ step' = step + 1
    BY <1>2 DEF TrainStep
  <2>2. Recoverable' = Recoverable
    BY <2>1, QuietStable DEF Quiet
  <2>3. QED
    BY <1>1, <2>1, <2>2 DEF Abs!Next, Abs!Train
<1>3. CASE Restart
  <2>1. Recoverable' = Recoverable
    BY <1>3, QuietStable DEF Quiet, Restart
  <2>2. step' = Recoverable
    BY <1>3, RecoverableStep, Resume
  <2>3. QED
    BY <1>1, <2>1, <2>2 DEF Abs!Next, Abs!Recover
<1>4. CASE MetaWrite(0)
  <2>1. Listed' # {} /\ Latest' = next[0] /\ disk'[next[0]].data = <<step, step>>
    BY <1>4, Publish
  <2>2. disk'[next[0]].meta = Meta(step, <<step, step>>) /\ Meta(step, <<step, step>>).step = step
    BY <1>4, Publish DEF Meta
  <2>3. Complete(<<step, step>>)
    <3>1. step # 0
      BY <1>4 DEF MetaWrite, SyncInv, Saved
    <3>2. <<step, step>>[2] = step /\ <<step, step>> # <<>>
      OBVIOUS
    <3>3. QED
      BY <3>1, <3>2 DEF Complete, NoFile
  <2>4. Recoverable' = <<step, step>>[2]
    BY <2>1, <2>3 DEF Recoverable, Complete
  <2>5. step' = step
    BY <1>4 DEF MetaWrite
  <2>6. QED
    BY <1>1, <2>4, <2>5 DEF Abs!Next, Abs!Save
<1>5. CASE \/ UNCHANGED vars \/ SaveBegin(0) \/ WriteBegin(0) \/ WriteEnd(0) \/ WriteFails(0)
           \/ Barrier(0) \/ Checksum(0) \/ MetaOpen(0) \/ MetaFails(0)
           \/ GCList(0) \/ GCNext(0) \/ GCUnlink(0) \/ GCRmdir(0) \/ SaveReturn(0)
  <2>1. step' = step
    BY <1>5 DEF vars, SaveBegin, WriteBegin, WriteEnd, WriteFails, Barrier, Checksum, MetaOpen,
       MetaFails, GCList, GCNext, GCUnlink, GCRmdir, SaveReturn
  <2>2. Quiet
    <3>1. CASE UNCHANGED vars \/ SaveReturn(0)
      BY <3>1 DEF vars, SaveReturn, Quiet
    <3>2. QED
      BY <1>5, <3>1, SaveBeginSync, WriteSync, MetadataSync, CollectSync
  <2>3. Recoverable' = Recoverable
    BY <2>2, QuietStable
  <2>4. QED
    BY <1>1, <2>1, <2>3
<1>6. QED
  BY <1>2, <1>3, <1>4, <1>5, SyncSteps

(* The directory of checkpoints, with its partial files, its garbage        *)
(* collection and the crashes at any of their steps, is one stable step     *)
(* that save() replaces at once and a restart returns to.                   *)
THEOREM Refinement == Synchronous /\ Spec => AbsSpec
<1>1. Init => Abs!Init
  <2>1. Init => Listed = {} /\ params = <<0, 0>>
    BY DEF Init, Listed, Absent, NoMeta
  <2>2. QED
    BY <2>1 DEF Abs!Init, Recoverable
<1>2. SyncInv /\ [Next]_vars => [Abs!Next]_<<params[2], Recoverable>>
  BY AbsStep
<1>3. QED
  BY <1>1, <1>2, Invariance, PTL DEF Spec, AbsSpec, Abs!Spec
-----------------------------------------------------------------------------
(* What a listed checkpoint holds, with any ranks and asynchronous saves.   *)
(*                                                                         *)
(* Plan: all ranks save the same version c, the greatest there is, and none *)
(* looks at metadata before all have arrived at the barrier (Round), rank 0 *)
(* having submitted or written the data (Covers). A version is submitted    *)
(* once, so that the worker that takes it out of _pending_saves is the one  *)
(* that has written it (Handed); and a file that is gone when the worker is *)
(* through was removed by a rank that goes on to remove the metadata.       *)
Submitted == {"BARRIER", "CHECKSUM", "META", "META_WRITE", "RAISED"}

Round(c) ==
  /\ arrived = Ranks =>
       \A r \in Ranks : \/ (pc[r] \in Submitted /\ next[r] = c)
                        \/ (pc[r] \in Collecting \cup {"TRAIN"} /\ next[r] = c + 1)
  /\ arrived # Ranks =>
       \A r \in Ranks : /\ pc[r] \in {"TRAIN", "SAVE", "WRITE", "WRITING", "BARRIER", "LOAD_FAILED"}
                        /\ next[r] = c
                        /\ r \in arrived <=> pc[r] = "BARRIER"
  /\ \A r \in Ranks : pc[r] \in {"WRITE", "WRITING"} => r = 0

(* The versions there may be: rank 0 has submitted them or written them. *)
Begun(c, v) == v < c \/ (v = c /\ 0 \in arrived)

(* Version v has metadata, or will. *)
Promised(c, v) == v \in Listed \/ (v = c /\ 0 \in arrived)

(* Rank r has removed the data of v, or found none, and will remove the rest. *)
Removing(r, v) == pc[r] = "GC_RMTREE" /\ v = Oldest(gcTodo[r]) /\ "data" \notin gcFiles[r]

Removed(v) == \E r \in Ranks : Removing(r, v)

Covered(v) == v \in pending \cup lost \/ Removed(v) \/ Complete(disk[v].data)

Covers(c) == \A v \in Version : Promised(c, v) => Covered(v)

ListedBegun(c) == \A v \in Listed : v < c \/ (v = c /\ arrived = Ranks)

Collects(c) ==
  \A r \in Ranks :
    /\ \A v \in gcTodo[r] : v < c
    /\ pc[r] = "GC_RMTREE" =>
         /\ gcTodo[r] # {}
         /\ "meta" \notin gcFiles[r] => disk[Oldest(gcTodo[r])].meta = NoMeta

Queued(c) ==
  /\ \A i \in 1 .. Len(queue) : queue[i] \in pending /\ Begun(c, queue[i])
  /\ \A i, j \in 1 .. Len(queue) : i # j => queue[i] # queue[j]

Worked(c) ==
  \A w \in Workers, v \in Version : job[w] = v =>
    /\ v \in pending /\ Begun(c, v)
    /\ \A i \in 1 .. Len(queue) : queue[i] # v
    /\ \A u \in Workers : u # w => job[u] # v
    /\ Promised(c, v) => (disk[v].data # NoFile \/ Removed(v))

Busy == (\E r \in Ranks : pc[r] \notin {"TRAIN", "LOAD_FAILED"})
        \/ queue # <<>> \/ (\E w \in Workers : job[w] # 0)

Trained ==
  /\ Busy => params[2] # 0
  /\ pc[0] = "WRITING" => disk[next[0]].data # NoFile

SaveInv(c) ==
  Round(c) /\ ListedBegun(c) /\ Collects(c) /\ Queued(c) /\ Worked(c) /\ Trained /\ Covers(c)

AnyInv == TypeInv /\ \E c \in 1 .. MaxVersion + 1 : SaveInv(c)

LEMMA AnyTypes ==
  ASSUME TypeInv, NEW c \in 1 .. MaxVersion + 1, SaveInv(c)
  PROVE  /\ c \in Int /\ 0 \in Ranks /\ 0 \notin Version
         /\ disk \in [Version -> Dir]
         /\ \A v \in Version : /\ v \in Int
                               /\ disk[v] \in Dir /\ disk[v].data \in File
         /\ pc \in [Ranks -> Entry] /\ next \in [Ranks -> 1 .. MaxVersion + 1]
         /\ gcTodo \in [Ranks -> SUBSET Version] /\ gcFiles \in [Ranks -> SUBSET {"data", "meta"}]
         /\ queue \in Seq(Version) /\ job \in [Workers -> Version \cup {0}]
         /\ pending \subseteq Version
         /\ params \in Nat \X Nat /\ params[1] \in Nat /\ params[2] \in Nat
<1>1. TypeOK /\ MaxVersion \in Nat
  BY Bounds DEF TypeInv
<1>2. disk \in [Version -> Dir]
  BY <1>1 DEF TypeOK, Dir
<1>3. \A v \in Version : v \in Int /\ disk[v] \in Dir /\ disk[v].data \in File
  BY <1>2, Bounds DEF Dir
<1>4. QED
  BY <1>1, <1>2, <1>3, Bounds DEF TypeOK

LEMMA InitAny == Init => AnyInv
<1> SUFFICES ASSUME Init PROVE AnyInv
  OBVIOUS
<1>1. TypeInv /\ 1 \in 1 .. MaxVersion + 1
  BY InitTypeInv, Bounds
<1>2. arrived = {} /\ arrived # Ranks /\ 0 \notin arrived
  BY Bounds DEF Init
<1>3. Listed = {}
  BY DEF Init, Listed, Absent, NoMeta
<1>4. Round(1)
  BY <1>2 DEF Init, Round
<1>5. ListedBegun(1) /\ Covers(1)
  BY <1>2, <1>3 DEF ListedBegun, Covers, Promised
<1>6. Collects(1)
  BY DEF Init, Collects
<1>7. Queued(1) /\ Worked(1) /\ Trained
  BY Bounds DEF Init, Queued, Worked, Trained, Busy
<1>8. QED
  BY <1>1, <1>4, <1>5, <1>6, <1>7 DEF AnyInv, SaveInv

(* A step of garbage collection of rank r. The data of a version that is    *)
(* still promised stays, or the rank is removing the version.               *)
GCStep(r) ==
  /\ pc[r] \in Collecting
  /\ \E e \in Collecting \cup {"TRAIN"} : pc' = [pc EXCEPT ![r] = e]
  /\ UNCHANGED <<params, next, arrived, saver>>
  /\ Listed' \subseteq Listed

GCKeeps(c) ==
  \A v \in Version :
    (v \in Listed' \/ v = c) =>
      \/ Removed(v)'
      \/ disk'[v].data = disk[v].data /\ ~Removed(v)

LEMMA GCRound ==
  ASSUME TypeInv, NEW c \in 1 .. MaxVersion + 1, SaveInv(c), NEW r \in Ranks, GCStep(r)
  PROVE  arrived = Ranks /\ Round(c)' /\ ListedBegun(c)' /\ Queued(c)' /\ Trained'
<1>1. PICK e \in Collecting \cup {"TRAIN"} : pc' = [pc EXCEPT ![r] = e]
  BY DEF GCStep
<1>2. UNCHANGED <<params, next, arrived, queue, job, pending, lost>> /\ Listed' \subseteq Listed
  BY DEF GCStep, saver
<1>3. /\ pc'[r] = e /\ \A q \in Ranks : q # r => pc'[q] = pc[q]
      /\ pc[r] \in Collecting
  BY <1>1, AnyTypes DEF GCStep
<1>4. arrived = Ranks
  BY <1>3 DEF SaveInv, Round, Collecting
<1>5. Round(c)'
  BY <1>2, <1>3, <1>4 DEF SaveInv, Round, Collecting, Submitted
<1>6. ListedBegun(c)'
  BY <1>2 DEF SaveInv, ListedBegun
<1>7. Queued(c)'
  BY <1>2 DEF SaveInv, Queued, Begun
<1>8. Trained'
  <2>1. Busy
    BY <1>3 DEF Busy, Collecting
  <2>2. pc'[0] # "WRITING"
    BY <1>2, <1>4, <1>5, Bounds DEF Round, Submitted, Collecting
  <2>3. QED
    BY <1>2, <2>1, <2>2 DEF SaveInv, Trained
<1>9. QED
  BY <1>4, <1>5, <1>6, <1>7, <1>8

LEMMA GCFrame ==
  ASSUME TypeInv, NEW c \in 1 .. MaxVersion + 1, SaveInv(c), NEW r \in Ranks,
         GCStep(r), GCKeeps(c), Collects(c)'
  PROVE  SaveInv(c)'
<1>1. UNCHANGED <<params, next, arrived, queue, job, pending, lost>> /\ Listed' \subseteq Listed
  BY DEF GCStep, saver
<1>2. ASSUME NEW v \in Version, Promised(c, v)'
      PROVE  Promised(c, v) /\ (Removed(v)' \/ (disk'[v].data = disk[v].data /\ ~Removed(v)))
  BY <1>1, <1>2 DEF Promised, GCKeeps
<1>3. Covers(c)'
  <2> SUFFICES ASSUME NEW v \in Version, Promised(c, v)' PROVE Covered(v)'
    BY DEF Covers
  <2>1. Covered(v)
    BY <1>2 DEF SaveInv, Covers
  <2>2. QED
    BY <1>1, <1>2, <2>1 DEF Covered, Complete
<1>4. Worked(c)'
  <2> SUFFICES ASSUME NEW w \in Workers, NEW v \in Version, job'[w] = v
               PROVE  /\ v \in pending' /\ Begun(c, v)'
                      /\ \A i \in 1 .. Len(queue') : queue'[i] # v
                      /\ \A u \in Workers : u # w => job'[u] # v
                      /\ Promised(c, v)' => (disk'[v].data # NoFile \/ Removed(v)')
    BY DEF Worked
  <2>1. /\ v \in pending /\ Begun(c, v)
        /\ \A i \in 1 .. Len(queue) : queue[i] # v
        /\ \A u \in Workers : u # w => job[u] # v
        /\ Promised(c, v) => (disk[v].data # NoFile \/ Removed(v))
    BY <1>1 DEF SaveInv, Worked
  <2>2. Promised(c, v)' => (disk'[v].data # NoFile \/ Removed(v)')
    BY <1>2, <2>1
  <2>3. Begun(c, v)'
    BY <1>1, <2>1 DEF Begun
  <2>4. QED
    BY <1>1, <2>1, <2>2, <2>3
<1>5. QED
  BY GCRound, <1>3, <1>4 DEF SaveInv

(* Nobody else's removal changes, and rank r removed nothing.               *)
LEMMA GCQuiet ==
  ASSUME TypeInv, NEW c \in 1 .. MaxVersion + 1, SaveInv(c), NEW r \in Ranks,
         GCStep(r), pc[r] # "GC_RMTREE",
         \A q \in Ranks : q # r => UNCHANGED <<gcTodo[q], gcFiles[q]>>
  PROVE  \A v : Removed(v) => Removed(v)'
<1>1. \A q \in Ranks : q # r => pc'[q] = pc[q]
  BY AnyTypes DEF GCStep
<1>2. QED
  BY <1>1 DEF Removed, Removing

LEMMA GCListAny ==
  ASSUME TypeInv, NEW c \in 1 .. MaxVersion + 1, SaveInv(c), NEW r \in Ranks, GCList(r)
  PROVE  SaveInv(c)'
<1>1. /\ pc[r] = "GC" /\ pc' = [pc EXCEPT ![r] = "GC_LOOP"]
      /\ gcTodo' = [gcTodo EXCEPT ![r] = ToDelete]
      /\ UNCHANGED <<disk, params, next, arrived, gcFiles, saver>>
  BY DEF GCList
<1>2. GCStep(r)
  BY <1>1 DEF GCStep, Collecting, Listed
<1>3. /\ \A q \in Ranks : q # r => gcTodo'[q] = gcTodo[q] /\ gcFiles'[q] = gcFiles[q] /\ pc'[q] = pc[q]
      /\ gcTodo'[r] = ToDelete /\ pc'[r] = "GC_LOOP"
  BY <1>1, AnyTypes
<1>4. \A v \in ToDelete : v < c
  <2> SUFFICES ASSUME NEW v \in ToDelete PROVE v < c
    OBVIOUS
  <2>1. v \in Listed /\ v < Latest
    BY ToDeleteBeforeLatest
  <2>2. Latest \in Listed /\ Latest \in Version
    BY <2>1, LatestFacts
  <2>3. Latest <= c
    BY <2>2, AnyTypes DEF SaveInv, ListedBegun
  <2>4. v \in Int /\ Latest \in Int /\ c \in Int
    BY <2>1, <2>2, AnyTypes DEF Listed
  <2>5. QED
    BY <2>1, <2>3, <2>4
<1>5. Collects(c)'
  <2> SUFFICES ASSUME NEW q \in Ranks
               PROVE  /\ \A v \in gcTodo'[q] : v < c
                      /\ pc'[q] = "GC_RMTREE" =>
                           /\ gcTodo'[q] # {}
                           /\ "meta" \notin gcFiles'[q] => disk'[Oldest(gcTodo'[q])].meta = NoMeta
    BY DEF Collects, Oldest
  <2>1. CASE q = r
    BY <1>3, <1>4, <2>1
  <2>2. CASE q # r
    BY <1>1, <1>3, <2>2 DEF SaveInv, Collects
  <2>3. QED
    BY <2>1, <2>2
<1>6. GCKeeps(c)
  <2>1. \A v : Removed(v) => Removed(v)'
    BY <1>1, <1>2, <1>3, GCQuiet
  <2>2. QED
    BY <1>1, <2>1 DEF GCKeeps
<1>7. QED
  BY <1>2, <1>5, <1>6, GCFrame

LEMMA GCNextAny ==
  ASSUME TypeInv, NEW c \in 1 .. MaxVersion + 1, SaveInv(c), NEW r \in Ranks, GCNext(r)
  PROVE  SaveInv(c)'
<1> DEFINE o == Oldest(gcTodo[r])
<1>1. /\ pc[r] = "GC_LOOP" /\ gcTodo[r] # {}
      /\ UNCHANGED <<disk, params, next, arrived, saver>>
  BY DEF GCNext
<1>2. \/ /\ pc' = [pc EXCEPT ![r] = "GC_RMTREE"] /\ gcTodo' = gcTodo
         /\ \E F \in SUBSET {"data", "meta"} :
              /\ gcFiles' = [gcFiles EXCEPT ![r] = F]
              /\ "meta" \notin F => disk[o].meta = NoMeta
      \/ /\ pc' = pc /\ gcFiles' = gcFiles
         /\ gcTodo' = [gcTodo EXCEPT ![r] = gcTodo[r] \ {o}]
  BY DEF GCNext
<1>3. GCStep(r)
  <2>1. \E e \in Collecting \cup {"TRAIN"} : pc' = [pc EXCEPT ![r] = e]
    BY <1>1, <1>2, AnyTypes DEF Collecting
  <2>2. QED
    BY <1>1, <2>1 DEF GCStep, Collecting, Listed
<1>4. \A q \in Ranks : q # r => gcTodo'[q] = gcTodo[q] /\ gcFiles'[q] = gcFiles[q] /\ pc'[q] = pc[q]
  BY <1>2, AnyTypes
<1>5. Collects(c)'
  <2> SUFFICES ASSUME NEW q \in Ranks
               PROVE  /\ \A v \in gcTodo'[q] : v < c
                      /\ pc'[q] = "GC_RMTREE" =>
                           /\ gcTodo'[q] # {}
                           /\ "meta" \notin gcFiles'[q] => disk'[Oldest(gcTodo'[q])].meta = NoMeta
    BY DEF Collects, Oldest
  <2>1. CASE q = r
    <3>1. \A v \in gcTodo[r] : v < c
      BY DEF SaveInv, Collects
    <3>2. CASE pc' = pc
      BY <1>1, <1>2, <2>1, <3>1, <3>2, AnyTypes
    <3>3. CASE gcTodo' = gcTodo
      BY <1>1, <1>2, <2>1, <3>1, <3>3, AnyTypes
    <3>4. QED
      BY <1>2, <3>2, <3>3
  <2>2. CASE q # r
    BY <1>1, <1>4, <2>2 DEF SaveInv, Collects
  <2>3. QED
    BY <2>1, <2>2
<1>6. GCKeeps(c)
  <2>1. \A v : Removed(v) => Removed(v)'
    BY <1>1, <1>3, <1>4, GCQuiet
  <2>2. QED
    BY <1>1, <2>1 DEF GCKeeps
<1>7. QED
  BY <1>3, <1>5, <1>6, GCFrame

LEMMA SaveReturnAny ==
  ASSUME TypeInv, NEW c \in 1 .. MaxVersion + 1, SaveInv(c), NEW r \in Ranks, SaveReturn(r)
  PROVE  SaveInv(c)'
<1>1. /\ pc[r] = "GC_LOOP" /\ pc' = [pc EXCEPT ![r] = "TRAIN"]
      /\ gcTodo' = [gcTodo EXCEPT ![r] = {}]
      /\ UNCHANGED <<disk, params, next, arrived, gcFiles, saver>>
  BY DEF SaveReturn
<1>2. GCStep(r)
  BY <1>1 DEF GCStep, Collecting, Listed
<1>3. /\ \A q \in Ranks : q # r => gcTodo'[q] = gcTodo[q] /\ gcFiles'[q] = gcFiles[q] /\ pc'[q] = pc[q]
      /\ gcTodo'[r] = {} /\ pc'[r] = "TRAIN"
  BY <1>1, AnyTypes
<1>4. Collects(c)'
  <2> SUFFICES ASSUME NEW q \in Ranks
               PROVE  /\ \A v \in gcTodo'[q] : v < c
                      /\ pc'[q] = "GC_RMTREE" =>
                           /\ gcTodo'[q] # {}
                           /\ "meta" \notin gcFiles'[q] => disk'[Oldest(gcTodo'[q])].meta = NoMeta
    BY DEF Collects, Oldest
  <2>1. CASE q = r
    BY <1>3, <2>1
  <2>2. CASE q # r
    BY <1>1, <1>3, <2>2 DEF SaveInv, Collects
  <2>3. QED
    BY <2>1, <2>2
<1>5. GCKeeps(c)
  <2>1. \A v : Removed(v) => Removed(v)'
    BY <1>1, <1>2, <1>3, GCQuiet
  <2>2. QED
    BY <1>1, <2>1 DEF GCKeeps
<1>6. QED
  BY <1>2, <1>4, <1>5, GCFrame

(* While version o is removed by rank r, others are as they were, and       *)
(* metadata that is gone stays so.                                          *)
LEMMA RmtreeCollects ==
  ASSUME TypeInv, NEW c \in 1 .. MaxVersion + 1, SaveInv(c), NEW r \in Ranks,
         GCStep(r), gcTodo'[r] \subseteq gcTodo[r],
         \A q \in Ranks : q # r => UNCHANGED <<gcTodo[q], gcFiles[q]>>,
         \A v \in Version : disk[v].meta = NoMeta => disk'[v].meta = NoMeta,
         pc'[r] = "GC_RMTREE" =>
           /\ gcTodo'[r] # {}
           /\ "meta" \notin gcFiles'[r] => disk'[Oldest(gcTodo'[r])].meta = NoMeta
  PROVE  Collects(c)'
<1>1. \A q \in Ranks : q # r => pc'[q] = pc[q]
  BY AnyTypes DEF GCStep
<1>2. ASSUME NEW q \in Ranks
      PROVE  /\ \A v \in gcTodo'[q] : v < c
             /\ pc'[q] = "GC_RMTREE" =>
                  /\ gcTodo'[q] # {}
                  /\ "meta" \notin gcFiles'[q] => disk'[Oldest(gcTodo'[q])].meta = NoMeta
  <2>1. CASE q = r
    BY <2>1 DEF SaveInv, Collects
  <2>2. CASE q # r
    <3>1. gcTodo'[q] = gcTodo[q] /\ gcFiles'[q] = gcFiles[q] /\ pc'[q] = pc[q]
      BY <1>1, <2>2
    <3>2. ASSUME gcTodo[q] # {} PROVE Oldest(gcTodo[q]) \in Version
      BY <3>2, AnyTypes, OldestFacts
    <3>3. QED
      BY <3>1, <3>2 DEF SaveInv, Collects
  <2>3. QED
    BY <2>1, <2>2
<1>3. QED
  BY <1>2 DEF Collects, Oldest

LEMMA GCUnlinkAny ==
  ASSUME TypeInv, NEW c \in 1 .. MaxVersion + 1, SaveInv(c), NEW r \in Ranks, GCUnlink(r)
  PROVE  SaveInv(c)'
<1>1. PICK o : o = Oldest(gcTodo[r])
  OBVIOUS
<1>2. /\ pc[r] = "GC_RMTREE" /\ gcTodo[r] # {} /\ \A v \in gcTodo[r] : v < c
      /\ UNCHANGED <<params, next, arrived, saver>>
  BY DEF GCUnlink, SaveInv, Collects
<1>3. o \in Version /\ o \in gcTodo[r] /\ o < c /\ o # c
  BY <1>1, <1>2, AnyTypes, OldestFacts
<1>4. PICK f \in gcFiles[r] :
        /\ disk' = IF f = "data" THEN [disk EXCEPT ![o].data = NoFile]
                   ELSE [disk EXCEPT ![o].meta = NoMeta]
        /\ IF (f = "data" /\ disk[o].data = NoFile) \/ (f = "meta" /\ disk[o].meta = NoMeta)
           THEN /\ gcFiles' = [gcFiles EXCEPT ![r] = {}]
                /\ gcTodo' = [gcTodo EXCEPT ![r] = @ \ {o}]
                /\ pc' = [pc EXCEPT ![r] = "GC_LOOP"]
           ELSE /\ gcFiles' = [gcFiles EXCEPT ![r] = @ \ {f}]
                /\ UNCHANGED <<gcTodo, pc>>
  BY <1>1 DEF GCUnlink
<1>5. f = "data" \/ f = "meta"
  BY AnyTypes
<1>6. /\ \A v \in Version : v # o => disk'[v] = disk[v]
      /\ f = "data" => disk'[o].data = NoFile /\ disk'[o].meta = disk[o].meta
      /\ f = "meta" => disk'[o].data = disk[o].data /\ disk'[o].meta = NoMeta
  BY <1>3, <1>4, <1>5, AnyTypes DEF Dir
<1>7. \A v \in Version : disk'[v].meta = disk[v].meta \/ disk'[v].meta = NoMeta
  BY <1>5, <1>6
<1>8. Listed' \subseteq Listed
  BY <1>7 DEF Listed, NoMeta
<1>9. pc'[r] \in Collecting /\ pc' = [pc EXCEPT ![r] = pc'[r]]
  BY <1>2, <1>4, AnyTypes DEF Collecting
<1>10. GCStep(r)
  BY <1>2, <1>8, <1>9 DEF GCStep, Collecting
<1>11. /\ \A q \in Ranks : q # r => gcTodo'[q] = gcTodo[q] /\ gcFiles'[q] = gcFiles[q] /\ pc'[q] = pc[q]
       /\ gcTodo'[r] \subseteq gcTodo[r]
  BY <1>4, AnyTypes
<1>12. CASE (f = "data" /\ disk[o].data = NoFile) \/ (f = "meta" /\ disk[o].meta = NoMeta)
  <2>1. pc'[r] = "GC_LOOP"
    BY <1>4, <1>12, AnyTypes
  <2>2. \A v \in Version : disk'[v].data = disk[v].data /\ disk'[v].meta = disk[v].meta
    BY <1>5, <1>6, <1>12
  <2>3. Collects(c)'
    BY <1>10, <1>11, <2>1, <2>2, RmtreeCollects
  <2>4. ASSUME NEW v \in Version, v \in Listed' \/ v = c, Removed(v) PROVE Removed(v)'
    <3>1. PICK q \in Ranks : Removing(q, v)
      BY <2>4 DEF Removed
    <3>2. q # r
      <4> SUFFICES ASSUME q = r PROVE FALSE
        OBVIOUS
      <4>1. v = o /\ "data" \notin gcFiles[r]
        BY <1>1, <3>1 DEF Removing
      <4>2. f = "meta" /\ disk[o].meta = NoMeta
        BY <1>5, <1>12, <4>1
      <4>3. v \notin Listed'
        BY <2>2, <4>1, <4>2 DEF Listed, NoMeta
      <4>4. QED
        BY <1>3, <2>4, <4>1, <4>3
    <3>3. QED
      BY <1>11, <3>1, <3>2 DEF Removed, Removing
  <2>5. GCKeeps(c)
    BY <2>2, <2>4 DEF GCKeeps
  <2>6. QED
    BY <1>10, <2>3, <2>5, GCFrame
<1>13. CASE ~((f = "data" /\ disk[o].data = NoFile) \/ (f = "meta" /\ disk[o].meta = NoMeta))
  <2>1. gcFiles' = [gcFiles EXCEPT ![r] = @ \ {f}] /\ gcTodo' = gcTodo /\ pc' = pc
    BY <1>4, <1>13
  <2>2. gcFiles'[r] = gcFiles[r] \ {f}
    BY <2>1, AnyTypes
  <2>3. "meta" \notin gcFiles'[r] => disk'[o].meta = NoMeta
    <3>1. "meta" \notin gcFiles[r] => disk[o].meta = NoMeta
      BY <1>1, <1>2 DEF SaveInv, Collects
    <3>2. QED
      BY <1>5, <1>6, <2>2, <3>1
  <2>4. Oldest(gcTodo'[r]) = o
    BY <1>1, <2>1
  <2>5. Collects(c)'
    BY <1>2, <1>7, <1>10, <1>11, <2>1, <2>3, <2>4, RmtreeCollects
  <2>6. \A v : Removed(v) => Removed(v)'
    BY <1>11, <2>1, <2>2 DEF Removed, Removing
  <2>7. f = "data" => Removed(o)'
    BY <1>2, <2>1, <2>2, <2>4 DEF Removed, Removing
  <2>8. GCKeeps(c)
    <3> SUFFICES ASSUME NEW v \in Version
                 PROVE  Removed(v)' \/ (disk'[v].data = disk[v].data /\ ~Removed(v))
      BY DEF GCKeeps
    <3>1. CASE v = o /\ f = "data"
      BY <2>7, <3>1
    <3>2. CASE ~(v = o /\ f = "data")
      BY <1>5, <1>6, <2>6, <3>2
    <3>3. QED
      BY <3>1, <3>2
  <2>9. QED
    BY <1>10, <2>5, <2>8, GCFrame
<1>14. QED
  BY <1>12, <1>13

LEMMA GCRmdirAny ==
  ASSUME TypeInv, NEW c \in 1 .. MaxVersion + 1, SaveInv(c), NEW r \in Ranks, GCRmdir(r)
  PROVE  SaveInv(c)'
<1>1. PICK o : o = Oldest(gcTodo[r])
  OBVIOUS
<1>2. /\ pc[r] = "GC_RMTREE" /\ gcFiles[r] = {} /\ gcFiles' = gcFiles
      /\ UNCHANGED <<params, next, arrived, saver>>
      /\ gcTodo' = [gcTodo EXCEPT ![r] = @ \ {o}]
      /\ pc' = [pc EXCEPT ![r] = "GC_LOOP"]
  BY <1>1 DEF GCRmdir
<1>3. /\ o \in Version /\ o < c /\ o # c
      /\ disk[o].meta = NoMeta
  <2>1. /\ gcTodo[r] # {} /\ \A v \in gcTodo[r] : v < c
        /\ disk[o].meta = NoMeta
    BY <1>1, <1>2 DEF SaveInv, Collects
  <2>2. gcTodo[r] \in SUBSET Version /\ c \in Int /\ \A v \in Version : v \in Int
    BY AnyTypes
  <2>3. o \in gcTodo[r]
    BY <1>1, <2>1, <2>2, OldestFacts
  <2>4. QED
    BY <2>1, <2>2, <2>3
<1>4. disk' = [disk EXCEPT ![o].dir = FALSE] \/ disk' = disk
  BY <1>1 DEF GCRmdir
<1>5. \A v \in Version : disk'[v].data = disk[v].data /\ disk'[v].meta = disk[v].meta
  <2>1. disk \in [Version -> Dir]
    BY AnyTypes
  <2>2. QED
    BY <1>3, <1>4, <2>1 DEF Dir
<1>6. Listed' = Listed
  BY <1>5 DEF Listed
<1>7. GCStep(r)
  BY <1>2, <1>6 DEF GCStep, Collecting
<1>8. /\ \A q \in Ranks : q # r => gcTodo'[q] = gcTodo[q] /\ gcFiles'[q] = gcFiles[q] /\ pc'[q] = pc[q]
      /\ gcTodo'[r] \subseteq gcTodo[r] /\ pc'[r] = "GC_LOOP"
  BY <1>2, AnyTypes
<1>9. Collects(c)'
  BY <1>5, <1>7, <1>8, RmtreeCollects
<1>10. ASSUME NEW v \in Version, v \in Listed' \/ v = c, Removed(v) PROVE Removed(v)'
  <2>1. PICK q \in Ranks : Removing(q, v)
    BY <1>10 DEF Removed
  <2>2. o \notin Listed'
    BY <1>3, <1>5 DEF Listed, NoMeta
  <2>3. q # r
    BY <1>1, <1>3, <1>10, <2>1, <2>2 DEF Removing
  <2>4. QED
    BY <1>8, <2>1, <2>3 DEF Removed, Removing
<1>11. GCKeeps(c)
  BY <1>5, <1>10 DEF GCKeeps
<1>12. QED
  BY <1>7, <1>9, <1>11, GCFrame

(* Where nobody enters, leaves or advances a removal. *)
LEMMA RemovedSame ==
  ASSUME gcTodo' = gcTodo, gcFiles' = gcFiles,
         \A q \in Ranks : pc'[q] = "GC_RMTREE" <=> pc[q] = "GC_RMTREE"
  PROVE  \A v : Removed(v)' <=> Removed(v)
BY DEF Removed, Removing

(* From the barrier to json.dump, of the version all ranks save. *)
LEMMA MetadataAny ==
  ASSUME TypeInv, NEW c \in 1 .. MaxVersion + 1, SaveInv(c), NEW r \in Ranks,
         Barrier(r) \/ Checksum(r) \/ MetaOpen(r) \/ MetaWrite(r) \/ MetaFails(r)
  PROVE  SaveInv(c)'
<1>1. /\ pc[r] \in Submitted
      /\ pc[r] = "BARRIER" => arrived = Ranks
      /\ UNCHANGED <<params, arrived, collector, saver>>
  BY DEF Barrier, Checksum, MetaOpen, MetaWrite, MetaFails, Submitted
<1>2. arrived = Ranks /\ 0 \in arrived
  BY <1>1, Bounds DEF SaveInv, Round, Submitted
<1>3. next[r] = c /\ c \in Version
  <2>1. next[r] = c
    BY <1>1, <1>2 DEF SaveInv, Round, Submitted, Collecting
  <2>2. QED
    BY <1>1, <2>1 DEF TypeInv, SavesInRange, Saving, Submitted
<1>4. \/ \E e \in Submitted : pc' = [pc EXCEPT ![r] = e] /\ next' = next
      \/ pc' = [pc EXCEPT ![r] = "GC"] /\ next' = [next EXCEPT ![r] = @ + 1]
  BY DEF Barrier, Checksum, MetaOpen, MetaWrite, MetaFails, Submitted
<1>5. disk' = disk \/ \E m \in MetaFile : disk' = [disk EXCEPT ![c].meta = m]
  <2>1. CASE Barrier(r) \/ Checksum(r) \/ MetaFails(r)
    BY <2>1 DEF Barrier, Checksum, MetaFails
  <2>2. CASE MetaOpen(r)
    BY <1>3, <2>2, EmptyFiles DEF MetaOpen
  <2>3. CASE MetaWrite(r)
    <3>1. step \in Step /\ sum[r] \in File
      BY DEF TypeInv, TypeOK
    <3>2. QED
      BY <1>3, <2>3, <3>1, EmptyFiles DEF MetaWrite
  <2>4. QED
    BY <2>1, <2>2, <2>3
<1>6. /\ \A v \in Version : disk'[v].data = disk[v].data
      /\ \A v \in Version : v # c => disk'[v].meta = disk[v].meta
  <2>1. disk \in [Version -> Dir]
    BY AnyTypes
  <2>2. QED
    BY <1>3, <1>5, <2>1 DEF Dir
<1>7. Listed' \subseteq Listed \cup {c}
  BY <1>6 DEF Listed
<1>8. /\ \A q \in Ranks : q # r => pc'[q] = pc[q] /\ next'[q] = next[q]
      /\ \/ (pc'[r] \in Submitted /\ next'[r] = c)
         \/ (pc'[r] = "GC" /\ next'[r] = c + 1)
  <2>1. pc \in [Ranks -> Entry] /\ next \in [Ranks -> 1 .. MaxVersion + 1]
    BY AnyTypes
  <2>2. QED
    BY <1>3, <1>4, <2>1
<1>9. Round(c)'
  BY <1>1, <1>2, <1>8 DEF SaveInv, Round, Submitted, Collecting
<1>10. ListedBegun(c)'
  BY <1>1, <1>2, <1>7 DEF SaveInv, ListedBegun
<1>11. \A v : Removed(v)' <=> Removed(v)
  <2>1. \A q \in Ranks : pc'[q] = "GC_RMTREE" <=> pc[q] = "GC_RMTREE"
    BY <1>1, <1>8 DEF Submitted
  <2>2. QED
    BY <1>1, <2>1, RemovedSame DEF collector
<1>12. Collects(c)'
  <2> SUFFICES ASSUME NEW q \in Ranks
               PROVE  /\ \A v \in gcTodo'[q] : v < c
                      /\ pc'[q] = "GC_RMTREE" =>
                           /\ gcTodo'[q] # {}
                           /\ "meta" \notin gcFiles'[q] => disk'[Oldest(gcTodo'[q])].meta = NoMeta
    BY DEF Collects, Oldest
  <2>1. gcTodo' = gcTodo /\ gcFiles' = gcFiles
    BY <1>1 DEF collector
  <2>2. \A v \in gcTodo[q] : v < c
    BY DEF SaveInv, Collects
  <2>3. ASSUME pc'[q] = "GC_RMTREE"
        PROVE  /\ gcTodo[q] # {}
               /\ "meta" \notin gcFiles[q] => disk'[Oldest(gcTodo[q])].meta = NoMeta
    <3>1. pc[q] = "GC_RMTREE"
      BY <1>8, <2>3 DEF Submitted
    <3>2. /\ gcTodo[q] # {}
          /\ "meta" \notin gcFiles[q] => disk[Oldest(gcTodo[q])].meta = NoMeta
      BY <3>1 DEF SaveInv, Collects
    <3>3. Oldest(gcTodo[q]) \in gcTodo[q] /\ gcTodo[q] \in SUBSET Version
      BY <3>2, AnyTypes, OldestFacts
    <3>4. Oldest(gcTodo[q]) \in Version /\ Oldest(gcTodo[q]) # c
      BY <2>2, <3>3, AnyTypes
    <3>5. QED
      BY <1>6, <3>2, <3>4
  <2>4. QED
    BY <2>1, <2>2, <2>3
<1>13. \A v : Promised(c, v)' => Promised(c, v)
  BY <1>1, <1>2, <1>7 DEF Promised
<1>14. UNCHANGED <<queue, job, pending, lost>>
  BY <1>1 DEF saver
<1>15. Queued(c)'
  BY <1>1, <1>14 DEF SaveInv, Queued, Begun
<1>16. Worked(c)'
  BY <1>1, <1>6, <1>11, <1>13, <1>14 DEF SaveInv, Worked, Begun
<1>17. Covers(c)'
  BY <1>6, <1>11, <1>13, <1>14 DEF SaveInv, Covers, Covered, Complete
<1>18. Trained'
  <2>1. Busy
    BY <1>1 DEF Busy, Submitted
  <2>2. pc'[0] # "WRITING"
    BY <1>1, <1>2, <1>9, Bounds DEF Round, Submitted, Collecting
  <2>3. QED
    BY <1>1, <2>1, <2>2 DEF SaveInv, Trained
<1>19. QED
  BY <1>9, <1>10, <1>12, <1>15, <1>16, <1>17, <1>18 DEF SaveInv

(* A rank that has not arrived: nobody has passed the barrier. *)
LEMMA BeforeBarrier ==
  ASSUME TypeInv, NEW c \in 1 .. MaxVersion + 1, SaveInv(c), NEW r \in Ranks,
         pc[r] \in {"SAVE", "WRITE", "WRITING"}
  PROVE  /\ arrived # Ranks /\ r \notin arrived
         /\ next[r] = c /\ c \in Version /\ c \notin Listed
         /\ \A q \in Ranks : pc[q] # "GC_RMTREE"
         /\ Busy /\ params[2] # 0
<1>1. arrived # Ranks
  BY DEF SaveInv, Round, Submitted, Collecting
<1>2. /\ next[r] = c /\ r \notin arrived
      /\ \A q \in Ranks : pc[q] # "GC_RMTREE"
  BY <1>1 DEF SaveInv, Round
<1>3. c \in Version
  BY <1>2 DEF TypeInv, SavesInRange, Saving
<1>4. c \notin Listed
  BY <1>1, <1>3, AnyTypes DEF SaveInv, ListedBegun
<1>5. Busy /\ params[2] # 0
  BY DEF Busy, SaveInv, Trained
<1>6. QED
  BY <1>1, <1>2, <1>3, <1>4, <1>5

(* What such a step leaves alone. *)
LEMMA EarlyFrame ==
  ASSUME TypeInv, NEW c \in 1 .. MaxVersion + 1, SaveInv(c), NEW r \in Ranks,
         pc[r] \in {"SAVE", "WRITE", "WRITING"},
         UNCHANGED <<next, params, collector>>,
         \A v \in Version : disk'[v].meta = disk[v].meta,
         \E e \in {"TRAIN", "WRITE", "WRITING", "BARRIER"} :
           /\ pc' = [pc EXCEPT ![r] = e]
           /\ e \in {"WRITE", "WRITING"} => r = 0
           /\ arrived' = IF e = "BARRIER" THEN arrived \cup {r} ELSE arrived
  PROVE  /\ Round(c)' /\ ListedBegun(c)' /\ Collects(c)' /\ Listed' = Listed
         /\ \A v : ~Removed(v) /\ ~Removed(v)'
         /\ arrived \subseteq arrived'
<1>1. PICK e \in {"TRAIN", "WRITE", "WRITING", "BARRIER"} :
           /\ pc' = [pc EXCEPT ![r] = e]
           /\ e \in {"WRITE", "WRITING"} => r = 0
           /\ arrived' = IF e = "BARRIER" THEN arrived \cup {r} ELSE arrived
  OBVIOUS
<1>2. pc'[r] = e /\ \A q \in Ranks : q # r => pc'[q] = pc[q]
  BY <1>1, AnyTypes
<1>3. arrived # Ranks /\ r \notin arrived /\ next' = next
  BY BeforeBarrier
<1>4. \A q \in Ranks :
        /\ pc'[q] \in {"TRAIN", "SAVE", "WRITE", "WRITING", "BARRIER", "LOAD_FAILED"}
        /\ next'[q] = c
        /\ q \in arrived' <=> pc'[q] = "BARRIER"
        /\ pc'[q] \in {"WRITE", "WRITING"} => q = 0
  BY <1>1, <1>2, <1>3 DEF SaveInv, Round
<1>5. Round(c)'
  BY <1>4 DEF Round, Submitted
<1>6. Listed' = Listed
  BY DEF Listed
<1>7. ListedBegun(c)'
  BY <1>3, <1>6 DEF SaveInv, ListedBegun
<1>8. Collects(c)'
  BY <1>4 DEF SaveInv, Collects, collector
<1>9. \A v : ~Removed(v) /\ ~Removed(v)'
  BY <1>4, BeforeBarrier DEF Removed, Removing
<1>10. QED
  BY <1>1, <1>5, <1>6, <1>7, <1>8, <1>9

LEMMA WriteAny ==
  ASSUME TypeInv, NEW c \in 1 .. MaxVersion + 1, SaveInv(c), NEW r \in Ranks,
         WriteBegin(r) \/ WriteEnd(r) \/ WriteFails(r)
  PROVE  SaveInv(c)'
<1>1. /\ pc[r] \in {"WRITE", "WRITING"} /\ r = 0
      /\ UNCHANGED <<params, next, collector, saver>>
  BY DEF WriteBegin, WriteEnd, WriteFails, SaveInv, Round
<1>2. /\ next[r] = c /\ c \in Version /\ c \notin Listed /\ 0 \notin arrived
      /\ Busy /\ params[2] # 0 /\ params[2] \in Nat
  BY <1>1, BeforeBarrier, AnyTypes
<1>3. disk \in [Version -> Dir] /\ disk[c].data \in File
  BY <1>2, AnyTypes
<1>4. /\ \A v \in Version : disk'[v].meta = disk[v].meta
      /\ \A v \in Version : v # c => disk'[v].data = disk[v].data
  BY <1>2, <1>3 DEF WriteBegin, WriteEnd, WriteFails, Dir
<1>5. /\ WriteBegin(r) => disk'[c].data # NoFile
      /\ WriteEnd(r) => Complete(disk'[c].data)
      /\ ~WriteEnd(r) => arrived' = arrived
  <2>1. CASE WriteBegin(r)
    BY <1>1, <1>2, <1>3, <2>1 DEF WriteBegin, WriteEnd, Opened, NoFile, Dir
  <2>2. CASE WriteEnd(r)
    <3>1. disk[c].data # NoFile /\ pc[r] = "WRITING"
      BY <1>1, <1>2, <2>2 DEF WriteEnd, SaveInv, Trained
    <3>2. disk'[c].data = [disk[c].data EXCEPT ![2] = params[2]]
      BY <1>2, <1>3, <2>2 DEF WriteEnd, Dir
    <3>3. disk'[c].data = <<disk[c].data[1], params[2]>>
      BY <1>2, <1>3, <3>1, <3>2, FileWritten
    <3>4. Complete(disk'[c].data)
      BY <1>2, <3>3 DEF Complete, NoFile
    <3>5. QED
      BY <2>2, <3>1, <3>4 DEF WriteBegin
  <2>3. CASE WriteFails(r) /\ ~WriteEnd(r) /\ ~WriteBegin(r)
    BY <2>3 DEF WriteFails
  <2>4. QED
    BY <2>1, <2>2, <2>3
<1>6. \E e \in {"TRAIN", "WRITE", "WRITING", "BARRIER"} :
           /\ pc' = [pc EXCEPT ![r] = e]
           /\ e \in {"WRITE", "WRITING"} => r = 0
           /\ arrived' = IF e = "BARRIER" THEN arrived \cup {r} ELSE arrived
  BY <1>1 DEF WriteBegin, WriteEnd, WriteFails
<1>7. /\ Round(c)' /\ ListedBegun(c)' /\ Collects(c)' /\ Listed' = Listed
      /\ \A v : ~Removed(v) /\ ~Removed(v)'
      /\ arrived \subseteq arrived'
  BY <1>1, <1>4, <1>6, EarlyFrame
<1>8. UNCHANGED <<queue, job, pending, lost, next, params>>
  BY <1>1 DEF saver
<1>9. Queued(c)'
  BY <1>7, <1>8 DEF SaveInv, Queued, Begun
<1>10. Worked(c)'
  <2> SUFFICES ASSUME NEW w \in Workers, NEW v \in Version, job'[w] = v
               PROVE  /\ v \in pending' /\ Begun(c, v)'
                      /\ \A i \in 1 .. Len(queue') : queue'[i] # v
                      /\ \A u \in Workers : u # w => job'[u] # v
                      /\ Promised(c, v)' => (disk'[v].data # NoFile \/ Removed(v)')
    BY DEF Worked
  <2>1. /\ v \in pending /\ Begun(c, v)
        /\ \A i \in 1 .. Len(queue) : queue[i] # v
        /\ \A u \in Workers : u # w => job[u] # v
        /\ Promised(c, v) => (disk[v].data # NoFile \/ Removed(v))
    BY <1>8 DEF SaveInv, Worked
  <2>2. v < c /\ v # c
    BY <1>2, <2>1, AnyTypes DEF Begun
  <2>3. Promised(c, v)' => disk'[v].data # NoFile
    BY <1>4, <1>7, <2>1, <2>2 DEF Promised
  <2>4. QED
    BY <1>7, <1>8, <2>1, <2>2, <2>3 DEF Begun
<1>11. Covers(c)'
  <2> SUFFICES ASSUME NEW v \in Version, Promised(c, v)' PROVE Covered(v)'
    BY DEF Covers
  <2>1. CASE v # c
    <3>1. Promised(c, v) /\ disk'[v].data = disk[v].data
      BY <1>4, <1>7, <2>1 DEF Promised
    <3>2. Covered(v)
      BY <3>1 DEF SaveInv, Covers
    <3>3. QED
      BY <1>7, <1>8, <3>1, <3>2 DEF Covered, Complete
  <2>2. CASE v = c
    <3>1. 0 \in arrived'
      BY <1>2, <1>7, <2>2 DEF Promised
    <3>2. WriteEnd(r)
      BY <1>2, <1>5, <3>1
    <3>3. QED
      BY <1>5, <2>2, <3>2 DEF Covered, Complete
  <2>3. QED
    BY <2>1, <2>2
<1>12. Trained'
  <2>1. pc'[0] = "WRITING" => WriteBegin(r)
    <3>1. pc \in [Ranks -> Entry]
      BY AnyTypes
    <3>2. QED
      BY <1>1, <3>1 DEF WriteBegin, WriteEnd, WriteFails
  <2>2. QED
    BY <1>1, <1>2, <1>5, <1>8, <2>1 DEF Trained
<1>13. QED
  BY <1>7, <1>9, <1>10, <1>11, <1>12 DEF SaveInv

(* save() until the data is submitted, or is about to be written. *)
LEMMA SaveBeginAny ==
  ASSUME TypeInv, NEW c \in 1 .. MaxVersion + 1, SaveInv(c), NEW r \in Ranks, SaveBegin(r)
  PROVE  SaveInv(c)'
<1>1. /\ pc[r] = "SAVE" /\ UNCHANGED <<params, next, collector, job>>
      /\ disk' = [disk EXCEPT ![next[r]].dir = TRUE]
  BY DEF SaveBegin
<1>2. /\ next[r] = c /\ c \in Version /\ c \notin Listed /\ r \notin arrived
      /\ Busy /\ params[2] # 0
  BY <1>1, BeforeBarrier
<1>3. \A v \in Version : disk'[v].data = disk[v].data /\ disk'[v].meta = disk[v].meta
  <2>1. disk \in [Version -> Dir]
    BY AnyTypes
  <2>2. QED
    BY <1>1, <1>2, <2>1 DEF Dir
<1>4. \E e \in {"TRAIN", "WRITE", "WRITING", "BARRIER"} :
           /\ pc' = [pc EXCEPT ![r] = e]
           /\ e \in {"WRITE", "WRITING"} => r = 0
           /\ arrived' = IF e = "BARRIER" THEN arrived \cup {r} ELSE arrived
  BY DEF SaveBegin
<1>5. /\ Round(c)' /\ ListedBegun(c)' /\ Collects(c)' /\ Listed' = Listed
      /\ \A v : ~Removed(v) /\ ~Removed(v)'
      /\ arrived \subseteq arrived'
  BY <1>1, <1>3, <1>4, EarlyFrame
<1>6. Trained'
  <2>1. pc'[0] = "WRITING" => pc[0] = "WRITING"
    BY AnyTypes DEF SaveBegin
  <2>2. disk'[next[0]].data = disk[next[0]].data \/ pc[0] # "WRITING"
    <3>1. pc[0] = "WRITING" => next[0] \in Version
      BY Bounds DEF TypeInv, SavesInRange, Saving
    <3>2. QED
      BY <1>3, <3>1
  <2>3. QED
    BY <1>1, <1>2, <2>1, <2>2 DEF SaveInv, Trained
<1>7. \A v \in Version : v # c => Promised(c, v)' = Promised(c, v)
  BY <1>5 DEF Promised
<1>8. CASE r = 0 /\ AsyncSave
  <2>1. /\ queue' = Append(queue, c) /\ pending' = pending \cup {c} /\ lost' = lost \ {c}
        /\ 0 \in arrived'
    BY <1>2, <1>8 DEF SaveBegin
  <2>2. /\ Len(queue) \in Nat /\ Len(queue') = Len(queue) + 1
        /\ \A i \in 1 .. Len(queue) : queue'[i] = queue[i]
        /\ queue'[Len(queue) + 1] = c
    BY <1>2, <2>1, AnyTypes, AppendProperties, LenProperties
  <2>3. \A i \in 1 .. Len(queue') : i \in 1 .. Len(queue) \/ i = Len(queue) + 1
    BY <2>2
  <2>4. \A v : Begun(c, v) => Begun(c, v)'
    BY <1>5 DEF Begun
  <2>5. \A i \in 1 .. Len(queue) : queue[i] < c /\ queue[i] # c
    <3>1. \A i \in 1 .. Len(queue) : queue[i] \in Version /\ Begun(c, queue[i])
      BY AnyTypes, LenProperties, ElementOfSeq DEF SaveInv, Queued
    <3>2. QED
      BY <1>2, <1>8, <3>1, AnyTypes DEF Begun
  <2>6. Queued(c)'
    <3>1. \A i \in 1 .. Len(queue') : queue'[i] \in pending' /\ Begun(c, queue[i])'
      <4> SUFFICES ASSUME NEW i \in 1 .. Len(queue'), NEW v, v = queue'[i]
                   PROVE  v \in pending' /\ Begun(c, v)'
        OBVIOUS
      <4>1. CASE i \in 1 .. Len(queue)
        <5>1. v = queue[i] /\ v \in pending /\ Begun(c, v)
          BY <2>2, <4>1 DEF SaveInv, Queued
        <5>2. QED
          BY <2>1, <2>4, <5>1
      <4>2. CASE i = Len(queue) + 1
        BY <2>1, <2>2, <4>2 DEF Begun
      <4>3. QED
        BY <2>3, <4>1, <4>2
    <3>2. \A i, j \in 1 .. Len(queue') : i # j => queue'[i] # queue'[j]
      BY <2>2, <2>3, <2>5 DEF SaveInv, Queued
    <3>3. QED
      BY <3>1, <3>2 DEF Queued, Begun
  <2>7. Worked(c)'
    <3> SUFFICES ASSUME NEW w \in Workers, NEW v \in Version, job'[w] = v
                 PROVE  /\ v \in pending' /\ Begun(c, v)'
                        /\ \A i \in 1 .. Len(queue') : queue'[i] # v
                        /\ \A u \in Workers : u # w => job'[u] # v
                        /\ Promised(c, v)' => (disk'[v].data # NoFile \/ Removed(v)')
      BY DEF Worked
    <3>1. /\ v \in pending /\ Begun(c, v)
          /\ \A i \in 1 .. Len(queue) : queue[i] # v
          /\ \A u \in Workers : u # w => job[u] # v
          /\ Promised(c, v) => (disk[v].data # NoFile \/ Removed(v))
      BY <1>1 DEF SaveInv, Worked
    <3>2. v < c /\ v # c
      BY <1>2, <1>8, <3>1, AnyTypes DEF Begun
    <3>3. \A i \in 1 .. Len(queue') : queue'[i] # v
      BY <2>2, <2>3, <3>1, <3>2
    <3>4. QED
      BY <1>1, <1>3, <1>5, <1>7, <2>1, <2>4, <3>1, <3>2, <3>3
  <2>8. Covers(c)'
    <3> SUFFICES ASSUME NEW v \in Version, Promised(c, v)' PROVE Covered(v)'
      BY DEF Covers
    <3>1. CASE v = c
      BY <2>1, <3>1 DEF Covered
    <3>2. CASE v # c
      <4>1. Covered(v)
        BY <1>7, <3>2 DEF SaveInv, Covers
      <4>2. QED
        BY <1>3, <1>5, <2>1, <3>2, <4>1 DEF Covered, Complete
    <3>3. QED
      BY <3>1, <3>2
  <2>9. QED
    BY <1>5, <1>6, <2>6, <2>7, <2>8 DEF SaveInv
<1>9. CASE ~(r = 0 /\ AsyncSave)
  <2>1. UNCHANGED <<queue, pending, lost, job>>
    BY <1>9 DEF SaveBegin
  <2>2. 0 \in arrived' <=> 0 \in arrived
    BY <1>9 DEF SaveBegin
  <2>3. \A v : Promised(c, v)' = Promised(c, v) /\ Begun(c, v)' = Begun(c, v)
    BY <1>5, <2>2 DEF Promised, Begun
  <2>4. Queued(c)'
    BY <2>1, <2>2 DEF SaveInv, Queued, Begun
  <2>5. Worked(c)'
    BY <1>3, <1>5, <2>1, <2>3 DEF SaveInv, Worked
  <2>6. Covers(c)'
    BY <1>3, <1>5, <2>1, <2>3 DEF SaveInv, Covers, Covered, Complete
  <2>7. QED
    BY <1>5, <1>6, <2>4, <2>5, <2>6 DEF SaveInv
<1>10. QED
  BY <1>8, <1>9

(* What a step of a worker leaves alone. *)
LEMMA WorkerFrame ==
  ASSUME TypeInv, NEW c \in 1 .. MaxVersion + 1, SaveInv(c),
         UNCHANGED <<pc, next, arrived, params, collector>>,
         \A v \in Version : disk'[v].meta = disk[v].meta,
         \A v \in Version : disk[v].data # NoFile => disk'[v].data # NoFile,
         Busy
  PROVE  /\ Round(c)' /\ ListedBegun(c)' /\ Collects(c)' /\ Trained'
         /\ \A v : /\ Removed(v)' <=> Removed(v)
                   /\ Promised(c, v)' = Promised(c, v) /\ Begun(c, v)' = Begun(c, v)
<1>1. Listed' = Listed
  BY DEF Listed
<1>2. \A v : /\ Removed(v)' <=> Removed(v)
             /\ Promised(c, v)' = Promised(c, v) /\ Begun(c, v)' = Begun(c, v)
  BY <1>1 DEF Removed, Removing, Promised, Begun, collector
<1>3. Round(c)' /\ ListedBegun(c)'
  BY <1>1 DEF SaveInv, Round, ListedBegun
<1>4. Collects(c)'
  <2>1. \A q \in Ranks : gcTodo[q] # {} => Oldest(gcTodo[q]) \in Version
    BY AnyTypes, OldestFacts
  <2>2. gcTodo' = gcTodo /\ gcFiles' = gcFiles
    BY DEF collector
  <2>3. \A q \in Ranks :
          /\ \A v \in gcTodo[q] : v < c
          /\ pc[q] = "GC_RMTREE" =>
               /\ gcTodo[q] # {}
               /\ "meta" \notin gcFiles[q] => disk'[Oldest(gcTodo[q])].meta = NoMeta
    BY <2>1 DEF SaveInv, Collects
  <2>4. QED
    BY <2>2, <2>3 DEF Collects, Oldest
<1>5. Trained'
  <2>1. pc[0] = "WRITING" => next[0] \in Version
    BY Bounds DEF TypeInv, SavesInRange, Saving
  <2>2. QED
    BY <2>1 DEF SaveInv, Trained
<1>6. QED
  BY <1>2, <1>3, <1>4, <1>5

LEMMA WorkerStartAny ==
  ASSUME TypeInv, NEW c \in 1 .. MaxVersion + 1, SaveInv(c), NEW w \in Workers, WorkerStart(w)
  PROVE  SaveInv(c)'
<1>1. PICK v : v = Head(queue)
  OBVIOUS
<1>2. /\ job[w] = 0 /\ queue # <<>> /\ queue' = Tail(queue)
      /\ UNCHANGED <<pc, next, arrived, params, collector>>
      /\ \/ /\ disk' = [disk EXCEPT ![v].data = Opened(@)]
            /\ job' = [job EXCEPT ![w] = v]
            /\ UNCHANGED <<pending, lost>>
         \/ /\ pending' = pending \ {v} /\ lost' = lost \cup {v}
            /\ UNCHANGED <<disk, job>>
  BY <1>1 DEF WorkerStart
<1>3. /\ v \in Version /\ v # 0 /\ v = queue[1]
      /\ Len(queue) \in Nat /\ Len(queue) # 0 /\ Len(queue') = Len(queue) - 1
      /\ \A i \in 1 .. Len(queue') : queue'[i] = queue[i + 1] /\ i + 1 \in 1 .. Len(queue)
  BY <1>1, <1>2, AnyTypes, HeadTailProperties, LenProperties, EmptySeq
<1>4. /\ v \in pending /\ Begun(c, v)
      /\ \A i \in 1 .. Len(queue') : queue'[i] # v
      /\ \A u \in Workers : job[u] # v
  <2>1. 1 \in 1 .. Len(queue)
    BY <1>3
  <2>2. \A i \in 1 .. Len(queue') : i + 1 \in 1 .. Len(queue) /\ i + 1 # 1
    BY <1>3
  <2>3. \A i \in 1 .. Len(queue') : queue'[i] # v
    BY <1>3, <2>1, <2>2 DEF SaveInv, Queued
  <2>4. v \in pending /\ Begun(c, v)
    BY <1>3, <2>1 DEF SaveInv, Queued
  <2>5. \A u \in Workers : job[u] # v
    BY <1>3, <2>1 DEF SaveInv, Worked
  <2>6. QED
    BY <2>3, <2>4, <2>5
<1>5. \A i \in 1 .. Len(queue') :
        queue'[i] \in pending /\ queue'[i] # v /\ Begun(c, queue'[i])
  <2> SUFFICES ASSUME NEW i \in 1 .. Len(queue'), NEW q, q = queue'[i]
               PROVE  q \in pending /\ q # v /\ Begun(c, q)
    OBVIOUS
  <2>1. q = queue[i + 1] /\ i + 1 \in 1 .. Len(queue) /\ q # v
    BY <1>3, <1>4
  <2>2. QED
    BY <2>1 DEF SaveInv, Queued
<1>6. \A i, j \in 1 .. Len(queue') : i # j => queue'[i] # queue'[j]
  <2> SUFFICES ASSUME NEW i \in 1 .. Len(queue'), NEW j \in 1 .. Len(queue'), i # j
               PROVE  queue'[i] # queue'[j]
    OBVIOUS
  <2>1. /\ i + 1 \in 1 .. Len(queue) /\ j + 1 \in 1 .. Len(queue) /\ i + 1 # j + 1
        /\ queue'[i] = queue[i + 1] /\ queue'[j] = queue[j + 1]
    BY <1>3
  <2>2. QED
    BY <2>1 DEF SaveInv, Queued
<1>7. ASSUME NEW u \in Workers, NEW n \in Version, job[u] = n
      PROVE  /\ n \in pending /\ Begun(c, n) /\ n # v
             /\ \A i \in 1 .. Len(queue') : queue'[i] # n
             /\ \A x \in Workers : x # u => job[x] # n
             /\ Promised(c, n) => (disk[n].data # NoFile \/ Removed(n))
  <2>1. /\ n \in pending /\ Begun(c, n)
        /\ \A i \in 1 .. Len(queue) : queue[i] # n
        /\ \A x \in Workers : x # u => job[x] # n
        /\ Promised(c, n) => (disk[n].data # NoFile \/ Removed(n))
    BY <1>7 DEF SaveInv, Worked
  <2>2. \A i \in 1 .. Len(queue') : queue'[i] # n
    BY <1>3, <2>1
  <2>3. QED
    BY <1>4, <1>7, <2>1, <2>2
<1>8. Busy
  BY <1>2 DEF Busy
<1>9. CASE /\ disk' = [disk EXCEPT ![v].data = Opened(@)]
           /\ job' = [job EXCEPT ![w] = v]
           /\ UNCHANGED <<pending, lost>>
  <2>1. /\ \A n \in Version : disk'[n].meta = disk[n].meta
        /\ \A n \in Version : n # v => disk'[n].data = disk[n].data
        /\ disk'[v].data # NoFile
    <3>1. disk \in [Version -> Dir]
      BY AnyTypes
    <3>2. QED
      BY <1>3, <1>9, <3>1 DEF Dir, Opened, NoFile
  <2>2. /\ job'[w] = v /\ \A u \in Workers : u # w => job'[u] = job[u]
    BY <1>9, AnyTypes
  <2>3. \A n \in Version : disk[n].data # NoFile => disk'[n].data # NoFile
    BY <2>1
  <2>4. /\ Round(c)' /\ ListedBegun(c)' /\ Collects(c)' /\ Trained'
        /\ \A n : /\ Removed(n)' <=> Removed(n)
                  /\ Promised(c, n)' = Promised(c, n) /\ Begun(c, n)' = Begun(c, n)
    BY <1>2, <1>8, <2>1, <2>3, WorkerFrame
  <2>5. Queued(c)'
    <3>1. \A i \in 1 .. Len(queue') : queue'[i] \in pending' /\ Begun(c, queue[i])'
      <4> SUFFICES ASSUME NEW i \in 1 .. Len(queue'), NEW q, q = queue'[i]
                   PROVE  q \in pending' /\ Begun(c, q)'
        OBVIOUS
      <4>1. q \in pending /\ Begun(c, q)
        BY <1>5
      <4>2. QED
        BY <1>9, <2>4, <4>1
    <3>2. QED
      BY <1>6, <3>1 DEF Queued, Begun
  <2>6. Worked(c)'
    <3> SUFFICES ASSUME NEW u \in Workers, NEW n \in Version, job'[u] = n
                 PROVE  /\ n \in pending' /\ Begun(c, n)'
                        /\ \A i \in 1 .. Len(queue') : queue'[i] # n
                        /\ \A x \in Workers : x # u => job'[x] # n
                        /\ Promised(c, n)' => (disk'[n].data # NoFile \/ Removed(n)')
      BY DEF Worked
    <3>1. CASE u = w
      <4>1. n = v
        BY <2>2, <3>1
      <4>2. QED
        BY <1>4, <1>9, <2>1, <2>2, <2>4, <3>1, <4>1
    <3>2. CASE u # w
      <4>1. job[u] = n
        BY <2>2, <3>2
      <4>2. /\ n \in pending /\ Begun(c, n) /\ n # v
            /\ \A i \in 1 .. Len(queue') : queue'[i] # n
            /\ \A x \in Workers : x # u => job[x] # n
            /\ Promised(c, n) => (disk[n].data # NoFile \/ Removed(n))
        BY <1>7, <4>1
      <4>3. \A x \in Workers : x # u => job'[x] # n
        BY <2>2, <4>2
      <4>4. QED
        BY <1>9, <2>1, <2>4, <4>2, <4>3
    <3>3. QED
      BY <3>1, <3>2
  <2>7. Covers(c)'
    <3> SUFFICES ASSUME NEW n \in Version, Promised(c, n)' PROVE Covered(n)'
      BY DEF Covers
    <3>1. CASE n = v
      BY <1>4, <1>9, <3>1 DEF Covered
    <3>2. CASE n # v
      <4>1. Covered(n)
        BY <2>4 DEF SaveInv, Covers
      <4>2. QED
        BY <1>9, <2>1, <2>4, <3>2, <4>1 DEF Covered, Complete
    <3>3. QED
      BY <3>1, <3>2
  <2>8. QED
    BY <2>4, <2>5, <2>6, <2>7 DEF SaveInv
<1>10. CASE /\ pending' = pending \ {v} /\ lost' = lost \cup {v}
            /\ UNCHANGED <<disk, job>>
  <2>1. /\ Round(c)' /\ ListedBegun(c)' /\ Collects(c)' /\ Trained'
        /\ \A n : /\ Removed(n)' <=> Removed(n)
                  /\ Promised(c, n)' = Promised(c, n) /\ Begun(c, n)' = Begun(c, n)
    BY <1>2, <1>8, <1>10, WorkerFrame
  <2>2. Queued(c)'
    <3>1. \A i \in 1 .. Len(queue') : queue'[i] \in pending' /\ Begun(c, queue[i])'
      <4> SUFFICES ASSUME NEW i \in 1 .. Len(queue'), NEW q, q = queue'[i]
                   PROVE  q \in pending' /\ Begun(c, q)'
        OBVIOUS
      <4>1. q \in pending /\ q # v /\ Begun(c, q)
        BY <1>5
      <4>2. QED
        BY <1>10, <2>1, <4>1
    <3>2. QED
      BY <1>6, <3>1 DEF Queued, Begun
  <2>3. Worked(c)'
    <3> SUFFICES ASSUME NEW u \in Workers, NEW n \in Version, job'[u] = n
                 PROVE  /\ n \in pending' /\ Begun(c, n)'
                        /\ \A i \in 1 .. Len(queue') : queue'[i] # n
                        /\ \A x \in Workers : x # u => job'[x] # n
                        /\ Promised(c, n)' => (disk'[n].data # NoFile \/ Removed(n)')
      BY DEF Worked
    <3>1. /\ n \in pending /\ Begun(c, n) /\ n # v
          /\ \A i \in 1 .. Len(queue') : queue'[i] # n
          /\ \A x \in Workers : x # u => job[x] # n
          /\ Promised(c, n) => (disk[n].data # NoFile \/ Removed(n))
      BY <1>7, <1>10
    <3>2. QED
      BY <1>10, <2>1, <3>1
  <2>4. Covers(c)'
    <3> SUFFICES ASSUME NEW n \in Version, Promised(c, n)' PROVE Covered(n)'
      BY DEF Covers
    <3>1. Covered(n)
      BY <2>1 DEF SaveInv, Covers
    <3>2. QED
      BY <1>10, <2>1, <3>1 DEF Covered, Complete
  <2>5. QED
    BY <2>1, <2>2, <2>3, <2>4 DEF SaveInv
<1>11. QED
  BY <1>2, <1>9, <1>10

LEMMA WorkerEndAny ==
  ASSUME TypeInv, NEW c \in 1 .. MaxVersion + 1, SaveInv(c), NEW w \in Workers,
         WorkerEnd(w) \/ WorkerFails(w)
  PROVE  SaveInv(c)'
<1>1. PICK v : v = job[w]
  OBVIOUS
<1>2. /\ v # 0 /\ v \in Version
      /\ UNCHANGED <<pc, next, arrived, params, collector, queue>>
      /\ pending' = pending \ {v} /\ job' = [job EXCEPT ![w] = 0]
  BY <1>1, AnyTypes DEF WorkerEnd, WorkerFails
<1>3. Busy /\ params[2] # 0 /\ params[2] \in Nat
  BY <1>1, <1>2, AnyTypes DEF Busy, SaveInv, Trained
<1>4. /\ \A n \in Version : disk'[n].meta = disk[n].meta
      /\ \A n \in Version : n # v => disk'[n].data = disk[n].data
      /\ disk'[v].data = disk[v].data \/ Complete(disk'[v].data)
      /\ (disk[v].data = NoFile /\ disk' = disk) \/ Complete(disk'[v].data) \/ lost' = lost \cup {v}
      /\ lost' = lost \/ lost' = lost \cup {v}
  <2>1. CASE WorkerFails(w)
    BY <1>1, <2>1 DEF WorkerFails
  <2>2. CASE WorkerEnd(w)
    <3>1. disk \in [Version -> Dir] /\ disk[v].data \in File
      BY <1>2, AnyTypes
    <3>2. lost' = lost
      BY <2>2 DEF WorkerEnd
    <3>3. CASE disk[v].data = NoFile
      BY <1>1, <2>2, <3>2, <3>3 DEF WorkerEnd
    <3>4. CASE disk[v].data # NoFile
      <4>1. PICK f : f = [disk[v].data EXCEPT ![2] = params[2]]
        OBVIOUS
      <4>2. disk' = [disk EXCEPT ![v].data = f]
        BY <1>1, <2>2, <3>4, <4>1 DEF WorkerEnd
      <4>3. f = <<disk[v].data[1], params[2]>>
        BY <1>3, <3>1, <3>4, <4>1, FileWritten
      <4>4. Complete(f)
        BY <1>3, <4>3 DEF Complete, NoFile
      <4>5. /\ \A n \in Version : disk'[n].meta = disk[n].meta
            /\ \A n \in Version : n # v => disk'[n].data = disk[n].data
            /\ disk'[v].data = f
        BY <1>2, <3>1, <4>2 DEF Dir
      <4>6. QED
        BY <3>2, <4>4, <4>5
    <3>5. QED
      BY <3>3, <3>4
  <2>3. QED
    BY <2>1, <2>2
<1>5. \A n \in Version : disk[n].data # NoFile => disk'[n].data # NoFile
  BY <1>4 DEF Complete
<1>6. /\ Round(c)' /\ ListedBegun(c)' /\ Collects(c)' /\ Trained'
      /\ \A n : /\ Removed(n)' <=> Removed(n)
                /\ Promised(c, n)' = Promised(c, n) /\ Begun(c, n)' = Begun(c, n)
  BY <1>2, <1>3, <1>4, <1>5, WorkerFrame
<1>7. /\ \A i \in 1 .. Len(queue) : queue[i] # v
      /\ \A u \in Workers : u # w => job[u] # v
      /\ Promised(c, v) => (disk[v].data # NoFile \/ Removed(v))
  BY <1>1, <1>2 DEF SaveInv, Worked
<1>8. Queued(c)'
  <2>1. \A i \in 1 .. Len(queue') : queue'[i] \in pending' /\ Begun(c, queue[i])'
    <3> SUFFICES ASSUME NEW i \in 1 .. Len(queue'), NEW q, q = queue'[i]
                 PROVE  q \in pending' /\ Begun(c, q)'
      OBVIOUS
    <3>1. q = queue[i] /\ q \in pending /\ q # v /\ Begun(c, q)
      BY <1>2, <1>7 DEF SaveInv, Queued
    <3>2. QED
      BY <1>2, <1>6, <3>1
  <2>2. \A i, j \in 1 .. Len(queue') : i # j => queue'[i] # queue'[j]
    BY <1>2 DEF SaveInv, Queued
  <2>3. QED
    BY <2>1, <2>2 DEF Queued, Begun
<1>9. Worked(c)'
  <2> SUFFICES ASSUME NEW u \in Workers, NEW n \in Version, job'[u] = n
               PROVE  /\ n \in pending' /\ Begun(c, n)'
                      /\ \A i \in 1 .. Len(queue') : queue'[i] # n
                      /\ \A x \in Workers : x # u => job'[x] # n
                      /\ Promised(c, n)' => (disk'[n].data # NoFile \/ Removed(n)')
    BY DEF Worked
  <2>1. n # 0 /\ job'[w] = 0 /\ \A x \in Workers : x # w => job'[x] = job[x]
    BY <1>2, AnyTypes
  <2>2. u # w /\ job[u] = n /\ n # v
    BY <1>7, <2>1
  <2>3. /\ n \in pending /\ Begun(c, n)
        /\ \A i \in 1 .. Len(queue) : queue[i] # n
        /\ \A x \in Workers : x # u => job[x] # n
        /\ Promised(c, n) => (disk[n].data # NoFile \/ Removed(n))
    BY <2>2 DEF SaveInv, Worked
  <2>4. \A x \in Workers : x # u => job'[x] # n
    BY <2>1, <2>3
  <2>5. QED
    BY <1>2, <1>4, <1>6, <2>2, <2>3, <2>4
<1>10. Covers(c)'
  <2> SUFFICES ASSUME NEW n \in Version, Promised(c, n)' PROVE Covered(n)'
    BY DEF Covers
  <2>1. Promised(c, n) /\ Covered(n)
    BY <1>6 DEF SaveInv, Covers
  <2>2. CASE n = v
    BY <1>4, <1>6, <1>7, <2>1, <2>2 DEF Covered
  <2>3. CASE n # v
    BY <1>2, <1>4, <1>6, <2>1, <2>3 DEF Covered, Complete
  <2>4. QED
    BY <2>2, <2>3
<1>11. QED
  BY <1>6, <1>8, <1>9, <1>10 DEF SaveInv

(* The next step of training: the ranks go on to the next version, if they  *)
(* have saved.                                                              *)
LEMMA TrainStepAny ==
  ASSUME TypeInv, NEW c \in 1 .. MaxVersion + 1, SaveInv(c), TrainStep
  PROVE  \E d \in 1 .. MaxVersion + 1 : SaveInv(d)'
<1>1. /\ \A r \in Ranks : pc[r] = "TRAIN" /\ next[r] <= MaxVersion
      /\ params' = <<params[1] + 1, params[2] + 1>> /\ arrived' = {}
      /\ \E entry \in {"TRAIN", "SAVE"} : pc' = [r \in Ranks |-> entry]
      /\ UNCHANGED <<disk, next, queue, job, pending, lost, collector>>
  BY DEF TrainStep, saver
<1>2. \A r \in Ranks : pc'[r] \in {"TRAIN", "SAVE"}
  BY <1>1
<1>3. PICK d : d = next[0]
  OBVIOUS
<1>4. d \in 1 .. MaxVersion + 1 /\ d \in Int /\ 0 \in Ranks
  BY <1>3, AnyTypes, Bounds
<1>5. /\ \A r \in Ranks : next[r] = d
      /\ d = c + 1 \/ (d = c /\ arrived # Ranks /\ 0 \notin arrived)
  BY <1>1, <1>3, <1>4 DEF SaveInv, Round, Submitted
<1>6. Round(d)'
  BY <1>1, <1>2, <1>4, <1>5 DEF Round
<1>7. \A v \in Version : Begun(c, v) => v < d
  BY <1>5, AnyTypes DEF Begun
<1>8. ListedBegun(d)'
  <2>1. Listed' = Listed /\ Listed \in SUBSET Version
    BY <1>1 DEF Listed
  <2>2. \A v \in Listed : v < d
    BY <1>5, <2>1, AnyTypes DEF SaveInv, ListedBegun
  <2>3. QED
    BY <2>1, <2>2 DEF ListedBegun
<1>9. Collects(d)'
  <2>1. \A r \in Ranks : gcTodo'[r] = gcTodo[r] /\ pc'[r] # "GC_RMTREE"
    BY <1>1, <1>2 DEF collector
  <2>2. \A r \in Ranks : \A v \in gcTodo[r] : v < c /\ v \in Int
    BY AnyTypes DEF SaveInv, Collects
  <2>3. \A r \in Ranks : \A v \in gcTodo[r] : v < d
    BY <1>4, <1>5, <2>2, AnyTypes
  <2>4. QED
    BY <2>1, <2>3 DEF Collects
<1>10. \A v : ~Removed(v) /\ ~Removed(v)'
  BY <1>1, <1>2 DEF Removed, Removing
<1>11. ASSUME NEW v \in Version, Promised(d, v)' PROVE Promised(c, v)
  BY <1>1, <1>11 DEF Promised, Listed
<1>12. Queued(d)'
  <2>1. \A i \in 1 .. Len(queue) : queue[i] \in Version
    BY AnyTypes, ElementOfSeq
  <2>2. \A i \in 1 .. Len(queue) : queue[i] \in pending /\ queue[i] < d
    BY <1>7, <2>1 DEF SaveInv, Queued
  <2>3. \A i, j \in 1 .. Len(queue) : i # j => queue[i] # queue[j]
    BY DEF SaveInv, Queued
  <2>4. QED
    BY <1>1, <2>2, <2>3 DEF Queued, Begun
<1>13. Worked(d)'
  <2> SUFFICES ASSUME NEW w \in Workers, NEW v \in Version, job'[w] = v
               PROVE  /\ v \in pending' /\ Begun(d, v)'
                      /\ \A i \in 1 .. Len(queue') : queue'[i] # v
                      /\ \A u \in Workers : u # w => job'[u] # v
                      /\ Promised(d, v)' => (disk'[v].data # NoFile \/ Removed(v)')
    BY DEF Worked
  <2>1. /\ v \in pending /\ Begun(c, v)
        /\ \A i \in 1 .. Len(queue) : queue[i] # v
        /\ \A u \in Workers : u # w => job[u] # v
        /\ Promised(c, v) => (disk[v].data # NoFile \/ Removed(v))
    BY <1>1 DEF SaveInv, Worked
  <2>2. QED
    BY <1>1, <1>7, <1>10, <1>11, <2>1 DEF Begun
<1>14. Covers(d)'
  <2> SUFFICES ASSUME NEW v \in Version, Promised(d, v)' PROVE Covered(v)'
    BY DEF Covers
  <2>1. Covered(v)
    BY <1>11 DEF SaveInv, Covers
  <2>2. QED
    BY <1>1, <1>10, <2>1 DEF Covered, Complete
<1>15. Trained'
  <2>1. params'[2] = params[2] + 1 /\ params[2] \in Nat
    BY <1>1, AnyTypes
  <2>2. QED
    BY <1>2, <1>4, <2>1 DEF Trained
<1>16. QED
  BY <1>4, <1>6, <1>8, <1>9, <1>12, <1>13, <1>14, <1>15 DEF SaveInv

(* After a restart nothing is pending; what was, is lost. *)
LEMMA RestartAny ==
  ASSUME TypeInv, NEW c \in 1 .. MaxVersion + 1, SaveInv(c), Restart
  PROVE  \E d \in 1 .. MaxVersion + 1 : SaveInv(d)'
<1>1. /\ next' = [r \in Ranks |-> NextVersion] /\ arrived' = {}
      /\ gcTodo' = [r \in Ranks |-> {}]
      /\ queue' = <<>> /\ job' = [w \in Workers |-> 0] /\ pending' = {}
      /\ lost' = lost \cup pending \cup UNION {gcTodo[r] : r \in Ranks}
      /\ disk' = disk
  BY DEF Restart
<1>2. \A r \in Ranks : pc'[r] \in {"TRAIN", "LOAD_FAILED"}
  BY DEF Restart
<1>3. PICK d : d = NextVersion
  OBVIOUS
<1>4. /\ d \in 1 .. MaxVersion + 1 /\ 0 \in Ranks
      /\ \A v \in Listed : v < d
  <2>1. /\ Latest \in Version \cup {0} /\ Listed \in SUBSET Version
        /\ Listed # {} => \A u \in Listed : u <= Latest
    BY LatestFacts
  <2>2. MaxVersion \in Nat /\ 0 \in Ranks /\ Latest \in 0 .. MaxVersion
    BY <2>1, Bounds DEF Version
  <2>3. \A v \in Listed : v \in Int /\ v <= Latest
    BY <2>1, Bounds
  <2>4. QED
    BY <1>3, <2>2, <2>3 DEF NextVersion
<1>5. Round(d)'
  BY <1>1, <1>2, <1>3, <1>4 DEF Round
<1>6. Listed' = Listed
  BY <1>1 DEF Listed
<1>7. ListedBegun(d)' /\ Collects(d)'
  BY <1>1, <1>2, <1>4, <1>6 DEF ListedBegun, Collects
<1>8. Queued(d)' /\ Worked(d)'
  BY <1>1, AnyTypes DEF Queued, Worked
<1>9. Covers(d)'
  <2> SUFFICES ASSUME NEW v \in Version, Promised(d, v)' PROVE Covered(v)'
    BY DEF Covers
  <2>1. Covered(v)
    BY <1>1, <1>6 DEF SaveInv, Covers, Promised
  <2>2. ASSUME Removed(v) PROVE v \in lost'
    <3>1. PICK r \in Ranks : Removing(r, v)
      BY <2>2 DEF Removed
    <3>2. gcTodo[r] # {} /\ gcTodo[r] \in SUBSET Version
      BY <3>1, AnyTypes DEF Removing, SaveInv, Collects
    <3>3. v \in gcTodo[r]
      BY <3>1, <3>2, OldestFacts DEF Removing
    <3>4. QED
      BY <1>1, <3>3
  <2>3. QED
    BY <1>1, <2>1, <2>2 DEF Covered, Complete
<1>10. Trained'
  BY <1>1, <1>2, <1>4 DEF Trained, Busy
<1>11. QED
  BY <1>4, <1>5, <1>7, <1>8, <1>9, <1>10 DEF SaveInv

LEMMA NextAny == AnyInv /\ [Next]_vars => AnyInv'
<1> SUFFICES ASSUME AnyInv, [Next]_vars PROVE AnyInv'
  OBVIOUS
<1>1. TypeInv /\ TypeInv'
  BY NextTypeInv DEF AnyInv
<1>2. PICK c \in 1 .. MaxVersion + 1 : SaveInv(c)
  BY DEF AnyInv
<1>3. CASE TrainStep \/ Restart
  BY <1>1, <1>2, <1>3, TrainStepAny, RestartAny DEF AnyInv
<1>4. ASSUME UNCHANGED vars PROVE SaveInv(c)'
  BY <1>2, <1>4 DEF vars, collector, saver, SaveInv, Round, ListedBegun, Listed, Collects, Oldest,
     Removed, Removing, Queued, Worked, Begun, Promised, Covers, Covered, Complete, Trained, Busy
<1>5. ASSUME NEW r \in Ranks, RankNext(r) PROVE SaveInv(c)'
  BY <1>1, <1>2, <1>5, SaveBeginAny, WriteAny, MetadataAny, GCListAny, GCNextAny, GCUnlinkAny,
     GCRmdirAny, SaveReturnAny DEF RankNext
<1>6. ASSUME NEW w \in Workers, WorkerNext(w) PROVE SaveInv(c)'
  BY <1>1, <1>2, <1>6, WorkerStartAny, WorkerEndAny DEF WorkerNext
<1>7. QED
  BY <1>1, <1>2, <1>3, <1>4, <1>5, <1>6 DEF Next, Terminating, AnyInv

(* For any number of ranks and of worker threads, with synchronous and       *)
(* asynchronous saves: a listed version that has left _pending_saves is on  *)
(* the disk, whole, unless its save failed or it is being removed; whatever *)
(* is collected while it is queued or written, and whenever the job dies.   *)
THEOREM WaitedForIsWritten == Spec => []NotPendingComplete
<1>1. AnyInv => NotPendingComplete
  <2> SUFFICES ASSUME AnyInv, NEW v \in Listed
               PROVE  \/ v \in pending \cup lost \/ \E r \in Ranks : v \in gcTodo[r]
                      \/ Complete(disk[v].data)
    BY DEF NotPendingComplete
  <2>1. PICK c \in 1 .. MaxVersion + 1 : SaveInv(c)
    BY DEF AnyInv
  <2>2. Covered(v)
    BY <2>1 DEF SaveInv, Covers, Promised, Listed
  <2>3. ASSUME NEW r \in Ranks, Removing(r, v) PROVE v \in gcTodo[r]
    <3>1. gcTodo[r] # {} /\ gcTodo[r] \in SUBSET Version
      BY <2>1, <2>3, AnyTypes DEF AnyInv, Removing, SaveInv, Collects
    <3>2. QED
      BY <2>3, <3>1, OldestFacts DEF Removing
  <2>4. QED
    BY <2>2, <2>3 DEF Covered, Removed
<1>2. QED
  BY <1>1, InitAny, NextAny, PTL DEF Spec
=============================================================================
