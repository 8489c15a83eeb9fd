--------------------------- MODULE PreTraining_proofs ---------------------------
(***************************************************************************)
(* Proofs about PreTraining for any number of steps, any interval, any      *)
(* numbers of kept files and any number of starts.                         *)
(*                                                                         *)
(* Plan, in four layers, each proved from those before it: what the two     *)
(* threads hold and how many updates the weights and files have (Base);     *)
(* with `resume`, the files and the queue in the order of their labels, so  *)
(* that only the newest file is ever unfinished (Directory); that labels    *)
(* are a save_interval apart at most (Spaced); and how far the newest       *)
(* complete file is behind the best ever saved (Deep).                     *)
(***************************************************************************)
EXTENDS PreTraining, FiniteSetTheorems, SequenceTheorems,
        WellFoundedInduction, TLAPS

Running == {"train", "next", "save", "write", "list", "remove", "close", "join", "done"}
Saving == {"save", "write", "list", "remove"}

(* Steps whose update is in the weights: global_step is incremented later. *)
Counted == IF pc \in {"next"} \cup Saving /\ globalStep < MaxSteps
           THEN globalStep + 1 ELSE globalStep

(* The starts whose updates may be in the files. *)
Earlier == IF pc = "load" THEN starts - 1 ELSE starts

(* The updates of n whole runs. *)
Worth(n) == MaxSteps * n

Threads ==
  /\ pc \in {"down", "raised"} => worker = "none"
  /\ pc \notin {"down", "raised"} => (worker = "none" <=> ~async)
  /\ worker # "runs" => writing = NoLabel
  /\ pc \in {"down", "raised", "load"} => queue = <<>> /\ writing = NoLabel
  /\ ~async => queue = <<>>
  /\ pc = "write" => ~async
  /\ pc = "done" => worker # "runs"
  /\ worker = "ended" => queue = <<>> /\ pc \in {"join", "done"}
  /\ \A i \in 1 .. Len(queue) : queue[i] = NoLabel => i = Len(queue) /\ pc \in {"join", "done"}

RunCounts ==
  /\ pc # "down" => starts >= 1
  /\ pc = "next" => globalStep < MaxSteps
  /\ pc \in {"close", "join", "done"} => globalStep = MaxSteps
  /\ pc = "load" => globalStep = 0 /\ weights = [lo |-> 0, hi |-> 0]
  /\ pc \in Running =>
       /\ Counted <= weights.lo
       /\ weights.lo <= Worth(starts - 1) + Counted
       /\ weights.hi <= Worth(starts - 1) + Counted
       /\ ~async => weights.hi <= Counted + starts - 1

FileCounts ==
  \A l \in OnDisk :
    /\ l <= disk[l].lo
    /\ disk[l].lo <= Worth(Earlier)
    /\ disk[l].hi <= Worth(Earlier)
    /\ ~async /\ disk[l].whole => disk[l].hi <= l + Earlier

QueueCounts ==
  /\ \A i \in 1 .. Len(queue) : queue[i] # NoLabel => queue[i] <= globalStep

Base == TypeOK /\ Threads /\ RunCounts /\ FileCounts /\ QueueCounts
-----------------------------------------------------------------------------
LEMMA Constants ==
  /\ MaxSteps \in Nat /\ MaxStarts \in Nat /\ SaveInterval \in Nat /\ SaveInterval > 0
  /\ \A k \in Keeps : k \in Nat /\ k >= 1
BY PreTrainingAssumption

LEMMA WorthFacts ==
  /\ \A n \in 0 .. MaxStarts : Worth(n) \in Nat /\ Worth(n) \in Updates
  /\ \A n \in 1 .. MaxStarts : Worth(n) = Worth(n - 1) + MaxSteps
  /\ \A n, m \in 0 .. MaxStarts : m <= n => Worth(m) <= Worth(n)
<1>1. MaxSteps \in Nat /\ MaxStarts \in Nat
  BY Constants
<1>2. \A n \in 0 .. MaxStarts : Worth(n) \in Nat
  BY <1>1 DEF Worth
<1>3. \A n, m \in 0 .. MaxStarts : m <= n => Worth(m) <= Worth(n)
  <2> SUFFICES ASSUME NEW n \in 0 .. MaxStarts, NEW m \in 0 .. MaxStarts, m <= n
               PROVE  MaxSteps * m <= MaxSteps * n
    BY DEF Worth
  <2>1. n - m \in Nat /\ n = m + (n - m)
    OBVIOUS
  <2>2. MaxSteps * n = MaxSteps * m + MaxSteps * (n - m) /\ MaxSteps * (n - m) \in Nat
    BY <1>1, <2>1
  <2>3. QED
    BY <1>1, <2>2
<1>4. \A n \in 1 .. MaxStarts : Worth(n) = Worth(n - 1) + MaxSteps
  BY <1>1 DEF Worth
<1>5. Worth(MaxStarts) = MaxSteps * MaxStarts /\ MaxStarts \in 0 .. MaxStarts
  BY <1>1 DEF Worth
<1>6. QED
  BY <1>2, <1>3, <1>4, <1>5 DEF Updates

LEMMA PutFacts ==
  ASSUME NEW l, NEW f, disk' = Put(l, f)
  PROVE  /\ OnDisk' = OnDisk \cup {l}
         /\ disk'[l] = f
         /\ \A m \in OnDisk : m # l => disk'[m] = disk[m]
BY DEF Put, OnDisk

LEMMA WithoutFacts ==
  ASSUME NEW L, disk' = Without(L)
  PROVE  /\ OnDisk' = OnDisk \ L
         /\ \A m \in OnDisk' : disk'[m] = disk[m]
BY DEF Without, OnDisk

LEMMA TailFacts ==
  ASSUME NEW S, NEW q \in Seq(S), q # <<>>
  PROVE  /\ Tail(q) \in Seq(S) /\ Len(Tail(q)) = Len(q) - 1 /\ Len(q) \in Nat /\ Len(q) >= 1
         /\ \A i \in 1 .. Len(Tail(q)) : Tail(q)[i] = q[i + 1] /\ i + 1 \in 1 .. Len(q)
         /\ Head(q) = q[1] /\ 1 \in 1 .. Len(q) /\ q[1] \in S
<1>1. Tail(q) \in Seq(S) /\ Len(Tail(q)) = Len(q) - 1 /\ Len(q) \in Nat /\ Len(q) >= 1
  BY EmptySeq, LenProperties, HeadTailProperties
<1>2. \A i \in 1 .. Len(Tail(q)) : Tail(q)[i] = q[i + 1] /\ i + 1 \in 1 .. Len(q)
  BY <1>1, HeadTailProperties
<1>3. QED
  BY <1>1, <1>2, HeadTailProperties, ElementOfSeq

LEMMA AppendFacts ==
  ASSUME NEW S, NEW q \in Seq(S), NEW e \in S
  PROVE  /\ Append(q, e) \in Seq(S) /\ Len(Append(q, e)) = Len(q) + 1 /\ Len(q) \in Nat
         /\ \A i \in 1 .. Len(q) : Append(q, e)[i] = q[i]
         /\ Append(q, e)[Len(q) + 1] = e
BY AppendProperties, LenProperties

Less == {p \in Nat \X Nat : p[1] < p[2]}

(* A set of labels that is not empty has a least and a greatest. *)
LEMMA MinFacts ==
  ASSUME NEW S \in SUBSET Nat, S # {}
  PROVE  Min(S) \in S /\ \A n \in S : Min(S) <= n
<1>1. IsWellFoundedOn(Less, Nat)
  BY NatLessThanWellFounded, Zenon DEF OpToRel, Less
<1>2. PICK m \in S : \A n \in S : <<n, m>> \notin Less
  BY <1>1, WFMin
<1>3. \A n \in S : m <= n
  <2> SUFFICES ASSUME NEW n \in S PROVE m <= n
    OBVIOUS
  <2>1. n \in Nat /\ m \in Nat /\ <<n, m>> \notin Less
    BY <1>2
  <2>2. ~(n < m)
    BY <2>1 DEF Less
  <2>3. QED
    BY <2>1, <2>2
<1>4. QED
  BY <1>3 DEF Min

LEMMA MaxFacts ==
  ASSUME NEW S \in SUBSET Label, S # {}
  PROVE  Max(S) \in S /\ \A n \in S : n <= Max(S)
<1> DEFINE T == {k \in Nat : MaxSteps - k \in S}
<1>0. MaxSteps \in Nat /\ \A s \in S : s \in 0 .. MaxSteps
  BY Constants DEF Label
<1>1. PICK s \in S : s \in Nat /\ s <= MaxSteps /\ MaxSteps \in Nat
  BY <1>0
<1>2. MaxSteps - s \in T
  BY <1>1
<1>3. T \in SUBSET Nat /\ T # {}
  BY <1>2
<1>4. Min(T) \in T /\ \A j \in T : Min(T) <= j
  <2> HIDE DEF T
  <2> QED
    BY <1>3, MinFacts
<1>5. MaxSteps - Min(T) \in S /\ Min(T) \in Nat
  BY <1>4
<1>6. ASSUME NEW n \in S PROVE n <= MaxSteps - Min(T)
  <2>1. n \in Nat /\ n <= MaxSteps /\ MaxSteps - n \in T
    BY <1>0
  <2>2. Min(T) <= MaxSteps - n
    BY <1>4, <2>1
  <2>3. QED
    BY <1>1, <1>5, <2>1, <2>2
<1>7. \E m \in S : \A n \in S : n <= m
  BY <1>5, <1>6
<1>8. \A m, n \in S : n <= m <=> m >= n
  BY <1>0
<1>9. \E m \in S : \A n \in S : m >= n
  BY <1>7, <1>8
<1>10. Max(S) \in S /\ \A n \in S : Max(S) >= n
  BY <1>9 DEF Max
<1>11. QED
  BY <1>8, <1>10
-----------------------------------------------------------------------------
(* What the proofs below need of TypeOK, in one place. *)
LEMMA Types ==
  ASSUME TypeOK
  PROVE  /\ globalStep \in Nat /\ globalStep <= MaxSteps /\ globalStep \in Label
         /\ weights.lo \in Nat /\ weights.hi \in Nat /\ weights = [lo |-> weights.lo, hi |-> weights.hi]
         /\ starts \in Nat /\ starts <= MaxStarts
         /\ MaxSteps \in Nat /\ MaxStarts \in Nat
         /\ keep \in Nat /\ keep >= 1
         /\ Counted \in Nat /\ Counted <= MaxSteps
         /\ NoLabel \notin Label
         /\ OnDisk \in SUBSET Label
         /\ \A l \in OnDisk : /\ l \in Nat /\ l <= MaxSteps
                              /\ disk[l].lo \in Nat /\ disk[l].hi \in Nat /\ disk[l].whole \in BOOLEAN
<1>1. MaxSteps \in Nat /\ MaxStarts \in Nat /\ MaxSteps * MaxStarts \in Nat
  BY Constants
<1>2. globalStep \in Nat /\ globalStep <= MaxSteps /\ globalStep \in Label
  BY <1>1 DEF TypeOK, Label
<1>3. weights.lo \in Nat /\ weights.hi \in Nat /\ weights = [lo |-> weights.lo, hi |-> weights.hi]
  BY <1>1 DEF TypeOK, Updates
<1>4. starts \in Nat /\ starts <= MaxStarts /\ keep \in Nat /\ keep >= 1
  BY <1>1, Constants DEF TypeOK
<1>5. Counted \in Nat /\ Counted <= MaxSteps
  BY <1>1, <1>2 DEF Counted
<1>6. NoLabel \notin Label
  BY <1>1 DEF NoLabel, Label
<1>7. OnDisk \in SUBSET Label /\ \A l \in OnDisk : disk[l] \in File
  BY DEF TypeOK
<1>8. \A l \in OnDisk : disk[l].lo \in Nat /\ disk[l].hi \in Nat /\ disk[l].whole \in BOOLEAN
  BY <1>1, <1>7 DEF File, Updates
<1>9. \A l \in OnDisk : l \in Nat /\ l <= MaxSteps
  BY <1>1, <1>7 DEF Label
<1>10. QED
  BY <1>1, <1>2, <1>3, <1>4, <1>5, <1>6, <1>7, <1>8, <1>9

LEMMA InitBase == Init => Base
<1> SUFFICES ASSUME Init PROVE Base
  OBVIOUS
<1>1. OnDisk = {} /\ queue = <<>> /\ Len(queue) = 0 /\ 0 \in Updates /\ 0 \in Label /\ 0 \in 0 .. MaxStarts
  BY Constants, WorthFacts DEF Init, OnDisk, Updates, Label
<1>2. TypeOK
  BY <1>1, EmptySeq DEF Init, TypeOK, Label
<1>3. Threads /\ RunCounts /\ FileCounts /\ QueueCounts
  BY <1>1 DEF Init, Threads, RunCounts, FileCounts, QueueCounts, Running
<1>4. QED
  BY <1>2, <1>3 DEF Base

(* Frames: files and queued labels that do not change stay within bounds that grow. *)
LEMMA EarlierFacts ==
  ASSUME Base
  PROVE  /\ Earlier \in Nat /\ Earlier <= starts /\ Earlier <= MaxStarts
         /\ pc # "load" => Earlier = starts
         /\ pc = "load" => Earlier = starts - 1
         /\ Worth(Earlier) \in Nat /\ Worth(Earlier) <= Worth(starts) /\ Worth(starts) \in Nat
<1>1. starts \in Nat /\ starts <= MaxStarts /\ (pc = "load" => starts >= 1) /\ MaxStarts \in Nat
  BY Types DEF Base, RunCounts
<1>2. /\ Earlier \in Nat /\ Earlier <= starts /\ Earlier <= MaxStarts
      /\ pc # "load" => Earlier = starts
      /\ pc = "load" => Earlier = starts - 1
  BY <1>1 DEF Earlier
<1>3. Earlier \in 0 .. MaxStarts /\ starts \in 0 .. MaxStarts
  BY <1>1, <1>2
<1>4. QED
  BY <1>2, <1>3, WorthFacts

LEMMA FileFrame ==
  ASSUME Base, disk' = disk, async' = async,
         Earlier' \in Nat, Earlier <= Earlier', Earlier' <= MaxStarts
  PROVE  FileCounts'
<1> SUFFICES ASSUME NEW l \in OnDisk
             PROVE  /\ l <= disk[l].lo
                    /\ disk[l].lo <= Worth(Earlier')
                    /\ disk[l].hi <= Worth(Earlier')
                    /\ ~async /\ disk[l].whole => disk[l].hi <= l + Earlier'
  BY DEF FileCounts, OnDisk, Worth
<1>1. /\ l \in Nat /\ disk[l].lo \in Nat /\ disk[l].hi \in Nat /\ l <= disk[l].lo
      /\ disk[l].lo <= Worth(Earlier) /\ disk[l].hi <= Worth(Earlier)
      /\ ~async /\ disk[l].whole => disk[l].hi <= l + Earlier
  BY Types DEF Base, FileCounts
<1>2. Earlier \in 0 .. MaxStarts /\ Earlier' \in 0 .. MaxStarts /\ MaxStarts \in Nat
  BY EarlierFacts, Constants
<1>3. Worth(Earlier) <= Worth(Earlier') /\ Worth(Earlier) \in Nat /\ Worth(Earlier') \in Nat
  BY <1>2, WorthFacts
<1>4. QED
  BY <1>1, <1>2, <1>3

(* Steps of the trainer within a run that leave directory, queue and worker alone. *)
LEMMA QuietBase ==
  ASSUME Base, UNCHANGED <<async, keep, weights, queue, writing, worker, disk, starts, best>>,
         pc # "load", pc' # "load", pc # "down",
         pc' \in {"train", "next", "save", "list", "remove", "close", "join", "done"},
         globalStep' \in 0 .. MaxSteps, globalStep <= globalStep',
         victims' \in SUBSET Label,
         Threads', RunCounts'
  PROVE  Base'
<1>1. TypeOK'
  BY DEF Base, TypeOK, OnDisk
<1>2. FileCounts'
  <2>1. Earlier' = Earlier
    BY DEF Earlier
  <2>2. QED
    BY <2>1, FileFrame, EarlierFacts
<1>3. QueueCounts'
  <2> SUFFICES ASSUME NEW i \in 1 .. Len(queue), queue[i] # NoLabel
               PROVE  queue[i] <= globalStep'
    BY DEF QueueCounts
  <2>1. queue[i] \in Label \cup {NoLabel} /\ queue[i] <= globalStep
    BY ElementOfSeq DEF Base, TypeOK, QueueCounts
  <2>2. queue[i] \in Nat /\ globalStep \in Nat /\ globalStep' \in Nat
    BY <2>1, Types DEF Base, Label
  <2>3. QED
    BY <2>1, <2>2
<1>4. QED
  BY <1>1, <1>2, <1>3 DEF Base

LEMMA NextStepBase ==
  ASSUME Base, NextStep
  PROVE  Base'
<1>1. /\ UNCHANGED <<async, keep, weights, queue, writing, worker, disk, starts, best>>
      /\ pc = "next" /\ pc' = "train" /\ globalStep' = globalStep + 1 /\ victims' = victims
  BY DEF NextStep, Go, settings, saver
<1>2. TypeOK /\ Threads /\ RunCounts
  BY DEF Base
<1>3. Threads'
  BY <1>1, <1>2 DEF Threads
<1>4. RunCounts' /\ globalStep' \in 0 .. MaxSteps /\ globalStep <= globalStep' /\ pc \in Running
  BY <1>1, <1>2, Types DEF RunCounts, Counted, Running, Saving
<1>5. victims' \in SUBSET Label
  BY <1>1, <1>2 DEF TypeOK
<1>6. QED
  BY <1>1, <1>3, <1>4, <1>5, QuietBase DEF Running

LEMMA FinalSaveBase ==
  ASSUME Base, FinalSave
  PROVE  Base'
<1>1. /\ UNCHANGED <<async, keep, weights, queue, writing, worker, disk, starts, best>>
      /\ pc = "train" /\ pc' = "save" /\ globalStep' = globalStep /\ globalStep >= MaxSteps
      /\ victims' = victims
  BY DEF FinalSave, Go, settings, saver
<1>2. TypeOK /\ Threads /\ RunCounts
  BY DEF Base
<1>3. Threads'
  BY <1>1, <1>2 DEF Threads
<1>4. RunCounts' /\ globalStep' \in 0 .. MaxSteps /\ globalStep <= globalStep' /\ pc \in Running
  BY <1>1, <1>2, Types DEF RunCounts, Counted, Running, Saving
<1>5. victims' \in SUBSET Label
  BY <1>1, <1>2 DEF TypeOK
<1>6. QED
  BY <1>1, <1>3, <1>4, <1>5, QuietBase DEF Running

LEMMA ListBase ==
  ASSUME Base, List
  PROVE  Base'
<1>1. /\ UNCHANGED <<async, keep, weights, queue, writing, worker, disk, starts, best>>
      /\ pc = "list" /\ pc' = "remove" /\ globalStep' = globalStep /\ victims' = Excess
  BY DEF List, Go, settings, saver
<1>2. TypeOK /\ Threads /\ RunCounts
  BY DEF Base
<1>3. Threads'
  BY <1>1, <1>2 DEF Threads
<1>4. RunCounts' /\ globalStep' \in 0 .. MaxSteps /\ globalStep <= globalStep' /\ pc \in Running
  BY <1>1, <1>2, Types DEF RunCounts, Counted, Running, Saving
<1>5. victims' \in SUBSET Label
  BY <1>1, <1>2 DEF TypeOK, Excess
<1>6. QED
  BY <1>1, <1>3, <1>4, <1>5, QuietBase DEF Running

LEMMA SaveReturnsBase ==
  ASSUME Base, SaveReturns
  PROVE  Base'
<1>1. /\ UNCHANGED <<async, keep, weights, queue, writing, worker, disk, starts, best>>
      /\ pc = "remove" /\ pc' = (IF globalStep < MaxSteps THEN "next" ELSE "close")
      /\ globalStep' = globalStep /\ victims' = victims
  BY DEF SaveReturns, Go, settings, saver
<1>2. TypeOK /\ Threads /\ RunCounts
  BY DEF Base
<1>3. Threads'
  BY <1>1, <1>2 DEF Threads
<1>4. RunCounts' /\ globalStep' \in 0 .. MaxSteps /\ globalStep <= globalStep' /\ pc \in Running
  BY <1>1, <1>2, Types DEF RunCounts, Counted, Running, Saving
<1>5. victims' \in SUBSET Label
  BY <1>1, <1>2 DEF TypeOK
<1>6. QED
  BY <1>1, <1>3, <1>4, <1>5, QuietBase DEF Running

LEMMA JoinBase ==
  ASSUME Base, Join
  PROVE  Base'
<1>1. /\ UNCHANGED <<async, keep, weights, queue, writing, worker, disk, starts, best>>
      /\ pc = "join" /\ pc' = "done" /\ globalStep' = globalStep /\ victims' = victims /\ worker # "runs"
  BY DEF Join, Go, settings, saver
<1>2. TypeOK /\ Threads /\ RunCounts
  BY DEF Base
<1>3. Threads'
  BY <1>1, <1>2 DEF Threads
<1>4. RunCounts' /\ globalStep' \in 0 .. MaxSteps /\ globalStep <= globalStep' /\ pc \in Running
  BY <1>1, <1>2, Types DEF RunCounts, Counted, Running, Saving
<1>5. victims' \in SUBSET Label
  BY <1>1, <1>2 DEF TypeOK
<1>6. QED
  BY <1>1, <1>3, <1>4, <1>5, QuietBase DEF Running

(* Files that are removed were within their bounds. *)
LEMMA FewerFiles ==
  ASSUME Base, async' = async, Earlier' = Earlier, NEW L, disk' = Without(L)
  PROVE  FileCounts' /\ OnDisk' \in SUBSET Label /\ \A l \in OnDisk' : disk'[l] \in File
<1>1. OnDisk' \subseteq OnDisk /\ \A m \in OnDisk' : disk'[m] = disk[m]
  BY WithoutFacts
<1>2. OnDisk \in SUBSET Label /\ \A l \in OnDisk : disk[l] \in File
  BY DEF Base, TypeOK
<1>3. Worth(Earlier') = Worth(Earlier) /\ Worth(Earlier)' = Worth(Earlier')
  BY DEF Worth
<1>4. FileCounts'
  BY <1>1, <1>3 DEF Base, FileCounts
<1>5. QED
  BY <1>1, <1>2, <1>4

LEMMA RemoveBase ==
  ASSUME Base, Remove
  PROVE  Base'
<1>1. /\ UNCHANGED <<async, keep, pc, globalStep, weights, queue, writing, worker, starts, best>>
      /\ pc = "remove" /\ disk' = Without({Min(victims)}) /\ victims' = victims \ {Min(victims)}
  BY DEF Remove, settings, saver
<1>2. Earlier' = Earlier /\ Counted' = Counted
  BY <1>1 DEF Earlier, Counted
<1>3. FileCounts' /\ OnDisk' \in SUBSET Label /\ \A l \in OnDisk' : disk'[l] \in File
  BY <1>1, <1>2, FewerFiles
<1>4. TypeOK'
  BY <1>1, <1>3 DEF Base, TypeOK
<1>5. Threads' /\ RunCounts' /\ QueueCounts'
  BY <1>1, <1>2 DEF Base, Threads, RunCounts, QueueCounts, Worth
<1>6. QED
  BY <1>3, <1>4, <1>5 DEF Base

LEMMA RemoveByHandBase ==
  ASSUME Base, RemoveByHand
  PROVE  Base'
<1>1. /\ UNCHANGED <<async, keep, globalStep, weights, victims, queue, writing, worker, starts, best>>
      /\ pc = "raised" /\ pc' = "down" /\ disk' = Without({Max(OnDisk)})
  BY DEF RemoveByHand, Go, settings, saver
<1>2. Earlier' = Earlier
  BY <1>1 DEF Earlier
<1>3. FileCounts' /\ OnDisk' \in SUBSET Label /\ \A l \in OnDisk' : disk'[l] \in File
  BY <1>1, <1>2, FewerFiles
<1>4. TypeOK'
  BY <1>1, <1>3 DEF Base, TypeOK
<1>5. Threads' /\ RunCounts' /\ QueueCounts'
  BY <1>1 DEF Base, Threads, RunCounts, QueueCounts, Running
<1>6. QED
  BY <1>3, <1>4, <1>5 DEF Base

LEMMA OptimizerStepBase ==
  ASSUME Base, OptimizerStep
  PROVE  Base'
<1>1. /\ UNCHANGED <<async, keep, globalStep, victims, queue, writing, worker, disk, starts, best>>
      /\ pc = "train" /\ pc' \in {"save", "next"} /\ globalStep < MaxSteps
      /\ weights' = [lo |-> weights.lo + 1, hi |-> weights.hi + 1]
  BY DEF OptimizerStep, Go, settings, saver
<1>2. /\ starts \in Nat /\ starts >= 1 /\ starts <= MaxStarts /\ MaxStarts \in Nat /\ MaxSteps \in Nat
      /\ weights.lo \in Nat /\ weights.hi \in Nat /\ globalStep \in Nat
      /\ Counted = globalStep /\ Counted' = globalStep + 1
      /\ weights'.lo = weights.lo + 1 /\ weights'.hi = weights.hi + 1
  BY <1>1, Types DEF Base, RunCounts, Counted, Saving
<1>3. starts \in 1 .. MaxStarts /\ starts - 1 \in 0 .. MaxStarts /\ starts \in 0 .. MaxStarts /\ MaxStarts \in 0 .. MaxStarts
  BY <1>2
<1>4. /\ Worth(starts) = Worth(starts - 1) + MaxSteps
      /\ Worth(starts - 1) \in Nat /\ Worth(starts) \in Nat /\ Worth(MaxStarts) \in Nat
      /\ Worth(starts) <= Worth(MaxStarts)
  BY <1>2, <1>3, WorthFacts
<1>5. RunCounts
  BY DEF Base
<1>6. /\ globalStep <= weights.lo
      /\ weights.lo <= Worth(starts - 1) + globalStep
      /\ weights.hi <= Worth(starts - 1) + globalStep
      /\ ~async => weights.hi <= globalStep + starts - 1
  BY <1>1, <1>2, <1>5 DEF RunCounts, Running
<1>7. weights' \in [lo : Updates, hi : Updates]
  <2>1. weights.lo + 1 \in 0 .. Worth(MaxStarts) /\ weights.hi + 1 \in 0 .. Worth(MaxStarts)
    BY <1>1, <1>2, <1>4, <1>6
  <2>2. QED
    BY <1>1, <2>1 DEF Updates, Worth
<1>8. TypeOK'
  BY <1>1, <1>7 DEF Base, TypeOK, OnDisk
<1>9. Threads' /\ QueueCounts'
  BY <1>1 DEF Base, Threads, QueueCounts
<1>10. Worth(starts - 1)' = Worth(starts - 1)
  BY <1>1 DEF Worth
<1>11. /\ Counted' <= weights'.lo
       /\ weights'.lo <= Worth(starts - 1)' + Counted'
       /\ weights'.hi <= Worth(starts - 1)' + Counted'
       /\ ~async' => weights'.hi <= Counted' + starts' - 1
  BY <1>1, <1>2, <1>4, <1>6, <1>10
<1>12. RunCounts'
  BY <1>1, <1>2, <1>11 DEF RunCounts
<1>13. FileCounts'
  <2>1. Earlier' = Earlier
    BY <1>1 DEF Earlier
  <2>2. QED
    BY <1>1, <2>1, FileFrame, EarlierFacts
<1>14. QED
  BY <1>8, <1>9, <1>12, <1>13 DEF Base

LEMMA EnqueueBase ==
  ASSUME Base, Enqueue
  PROVE  Base'
<1>1. /\ UNCHANGED <<async, keep, globalStep, weights, victims, writing, worker, disk, starts, best>>
      /\ pc = "save" /\ pc' = "list" /\ async /\ queue' = Append(queue, globalStep)
  BY DEF Enqueue, Go, settings, saver
<1>2. /\ queue \in Seq(Label \cup {NoLabel}) /\ globalStep \in Label /\ globalStep \in Nat
      /\ globalStep # NoLabel
  BY Types DEF Base, TypeOK
<1>3. /\ queue' \in Seq(Label \cup {NoLabel}) /\ Len(queue) \in Nat /\ Len(queue') = Len(queue) + 1
      /\ \A i \in 1 .. Len(queue') : \/ i \in 1 .. Len(queue) /\ queue'[i] = queue[i]
                                     \/ i = Len(queue) + 1 /\ queue'[i] = globalStep
  <2> Len(queue) \in Nat
    BY <1>2, LenProperties
  <2>1. \A i \in 1 .. Len(queue) + 1 : i \in 1 .. Len(queue) \/ i = Len(queue) + 1
    OBVIOUS
  <2>2. QED
    BY <1>1, <1>2, <2>1, AppendFacts
<1>4. TypeOK'
  BY <1>1, <1>3 DEF Base, TypeOK, OnDisk
<1>5. Threads'
  BY <1>1, <1>2, <1>3 DEF Base, Threads
<1>6. RunCounts'
  BY <1>1 DEF Base, RunCounts, Counted, Running, Saving, Worth
<1>7. FileCounts'
  <2>1. Earlier' = Earlier
    BY <1>1 DEF Earlier
  <2>2. QED
    BY <1>1, <2>1, FileFrame, EarlierFacts
<1>8. QueueCounts'
  BY <1>1, <1>2, <1>3 DEF Base, QueueCounts
<1>9. QED
  BY <1>4, <1>5, <1>6, <1>7, <1>8 DEF Base

LEMMA CloseBase ==
  ASSUME Base, Close
  PROVE  Base'
<1>1. /\ UNCHANGED <<async, keep, globalStep, weights, victims, writing, worker, disk, starts, best>>
      /\ pc = "close" /\ pc' = "join"
      /\ async => queue' = Append(queue, NoLabel)
      /\ ~async => queue' = queue
  BY DEF Close, Go, settings, saver
<1>2. queue \in Seq(Label \cup {NoLabel})
  BY DEF Base, TypeOK
<1>3. /\ queue' \in Seq(Label \cup {NoLabel}) /\ Len(queue) \in Nat
      /\ \A i \in 1 .. Len(queue') : \/ i \in 1 .. Len(queue) /\ queue'[i] = queue[i]
                                     \/ i = Len(queue') /\ queue'[i] = NoLabel
  <2> Len(queue) \in Nat
    BY <1>2, LenProperties
  <2>1. CASE async
    <3>1. \A i \in 1 .. Len(queue) + 1 : i \in 1 .. Len(queue) \/ i = Len(queue) + 1
      OBVIOUS
    <3>2. /\ queue' = Append(queue, NoLabel) /\ queue' \in Seq(Label \cup {NoLabel})
          /\ Len(queue') = Len(queue) + 1 /\ queue'[Len(queue) + 1] = NoLabel
          /\ \A i \in 1 .. Len(queue) : queue'[i] = queue[i]
      <4>1. queue' = Append(queue, NoLabel) /\ NoLabel \in Label \cup {NoLabel}
        BY <1>1, <2>1
      <4>2. QED
        BY <1>2, <4>1, AppendFacts
    <3>3. QED
      BY <3>1, <3>2
  <2>2. CASE ~async
    BY <1>1, <1>2, <2>2
  <2>3. QED
    BY <2>1, <2>2
<1>4. TypeOK'
  BY <1>1, <1>3 DEF Base, TypeOK, OnDisk
<1>5. Threads'
  <2>1. \A i \in 1 .. Len(queue') : queue'[i] = NoLabel => i = Len(queue')
    BY <1>1, <1>3 DEF Base, Threads
  <2>2. QED
    BY <1>1, <2>1 DEF Base, Threads
<1>6. RunCounts'
  BY <1>1 DEF Base, RunCounts, Counted, Running, Saving, Worth
<1>7. FileCounts'
  <2>1. Earlier' = Earlier
    BY <1>1 DEF Earlier
  <2>2. QED
    BY <1>1, <2>1, FileFrame, EarlierFacts
<1>8. QueueCounts'
  BY <1>1, <1>3 DEF Base, QueueCounts
<1>9. QED
  BY <1>4, <1>5, <1>6, <1>7, <1>8 DEF Base

(* The updates in the weights of a run, as a file may get them. *)
LEMMA InRun ==
  ASSUME Base, pc \in Running
  PROVE  /\ globalStep <= weights.lo /\ starts \in Nat /\ starts >= 1 /\ Earlier = starts
         /\ weights.lo <= Worth(starts) /\ weights.hi <= Worth(starts)
         /\ weights.lo \in Updates /\ weights.hi \in Updates
         /\ ~async => weights.hi <= globalStep + starts
<1>1. /\ starts \in Nat /\ starts >= 1 /\ starts <= MaxStarts /\ MaxStarts \in Nat /\ MaxSteps \in Nat
      /\ weights.lo \in Nat /\ weights.hi \in Nat /\ globalStep \in Nat /\ pc # "load"
      /\ Counted \in Nat /\ Counted <= MaxSteps /\ globalStep <= Counted /\ Counted <= globalStep + 1
  BY Types DEF Base, RunCounts, Counted, Running
<1>2. starts \in 1 .. MaxStarts /\ starts - 1 \in 0 .. MaxStarts /\ starts \in 0 .. MaxStarts
  BY <1>1
<1>3. /\ Worth(starts) = Worth(starts - 1) + MaxSteps
      /\ Worth(starts - 1) \in Nat /\ Worth(starts) \in Nat
  BY <1>2, WorthFacts
<1>4. /\ Counted <= weights.lo
      /\ weights.lo <= Worth(starts - 1) + Counted
      /\ weights.hi <= Worth(starts - 1) + Counted
      /\ ~async => weights.hi <= Counted + starts - 1
  BY DEF Base, RunCounts
<1>5. weights.lo \in Updates /\ weights.hi \in Updates
  BY DEF Base, TypeOK
<1>6. QED
  BY <1>1, <1>3, <1>4, <1>5 DEF Earlier

(* A file is opened for a label whose updates the weights hold. *)
LEMMA OpenedFiles ==
  ASSUME Base, pc \in Running, async' = async, Earlier' = Earlier,
         NEW q \in Label, q <= weights.lo, disk' = Put(q, Torn)
  PROVE  FileCounts' /\ OnDisk' \in SUBSET Label /\ \A l \in OnDisk' : disk'[l] \in File
<1>1. OnDisk' = OnDisk \cup {q} /\ disk'[q] = Torn /\ \A m \in OnDisk : m # q => disk'[m] = disk[m]
  BY PutFacts
<1>2. OnDisk \in SUBSET Label /\ \A l \in OnDisk : disk[l] \in File
  BY DEF Base, TypeOK
<1>3. Torn.lo = weights.lo /\ Torn.hi = weights.lo /\ Torn.whole = FALSE /\ Torn \in File
  BY InRun DEF Torn, File
<1>4. Worth(Earlier)' = Worth(Earlier) /\ Earlier = starts /\ weights.lo <= Worth(starts)
  BY InRun DEF Worth
<1>5. FileCounts'
  <2> SUFFICES ASSUME NEW l \in OnDisk'
               PROVE  /\ l <= disk'[l].lo
                      /\ disk'[l].lo <= Worth(Earlier)
                      /\ disk'[l].hi <= Worth(Earlier)
                      /\ ~async /\ disk'[l].whole => disk'[l].hi <= l + Earlier
    BY <1>4 DEF FileCounts
  <2>1. CASE l = q
    BY <1>1, <1>3, <1>4, <2>1
  <2>2. CASE l # q
    BY <1>1, <2>2 DEF Base, FileCounts
  <2>3. QED
    BY <2>1, <2>2
<1>6. QED
  BY <1>1, <1>2, <1>3, <1>5

(* The file is complete, with the weights as they are now. *)
LEMMA CompletedFiles ==
  ASSUME Base, pc \in Running, async' = async, Earlier' = Earlier,
         NEW q \in Label, async \/ q = globalStep, Complete(q)
  PROVE  /\ FileCounts' /\ OnDisk' \in SUBSET Label /\ \A l \in OnDisk' : disk'[l] \in File
         /\ best' \in Label \cup {NoLabel}
<1>1. OnDisk \in SUBSET Label /\ \A l \in OnDisk : disk[l] \in File
  BY DEF Base, TypeOK
<1>2. best' \in Label \cup {NoLabel}
  BY DEF Base, TypeOK, Complete
<1>3. Worth(Earlier)' = Worth(Earlier)
  BY DEF Worth
<1>4. CASE q \notin OnDisk
  BY <1>1, <1>2, <1>3, <1>4 DEF Complete, OnDisk, Base, FileCounts
<1>5. CASE q \in OnDisk
  <2> DEFINE f == [whole |-> TRUE, lo |-> disk[q].lo, hi |-> weights.hi]
  <2>1. disk' = Put(q, f)
    BY <1>5 DEF Complete
  <2>2. OnDisk' = OnDisk \cup {q} /\ disk'[q] = f /\ \A m \in OnDisk : m # q => disk'[m] = disk[m]
    BY <2>1, PutFacts
  <2>3. f \in File /\ f.lo = disk[q].lo /\ f.hi = weights.hi
    BY <1>1, <1>5, InRun DEF File
  <2>4. /\ q <= f.lo /\ f.lo <= Worth(Earlier) /\ f.hi <= Worth(Earlier)
        /\ ~async => f.hi <= q + Earlier
    BY <1>5, <2>3, InRun DEF Base, FileCounts
  <2> HIDE DEF f
  <2>5. FileCounts'
    <3> SUFFICES ASSUME NEW l \in OnDisk'
                 PROVE  /\ l <= disk'[l].lo
                        /\ disk'[l].lo <= Worth(Earlier)
                        /\ disk'[l].hi <= Worth(Earlier)
                        /\ ~async /\ disk'[l].whole => disk'[l].hi <= l + Earlier
      BY <1>3 DEF FileCounts
    <3>1. CASE l = q
      BY <2>2, <2>4, <3>1
    <3>2. CASE l # q
      BY <2>2, <3>2 DEF Base, FileCounts
    <3>3. QED
      BY <3>1, <3>2
  <2>6. QED
    BY <1>1, <1>2, <2>2, <2>3, <2>5
<1>6. QED
  BY <1>4, <1>5

LEMMA OpenBase ==
  ASSUME Base, Open
  PROVE  Base'
<1>1. /\ UNCHANGED <<async, keep, globalStep, weights, victims, queue, writing, worker, starts, best>>
      /\ pc = "save" /\ pc' = "write" /\ ~async /\ disk' = Put(globalStep, Torn)
  BY DEF Open, Go, settings, saver
<1>2. Earlier' = Earlier /\ Counted' = Counted /\ pc \in Running
  BY <1>1 DEF Earlier, Counted, Saving, Running
<1>3. FileCounts' /\ OnDisk' \in SUBSET Label /\ \A l \in OnDisk' : disk'[l] \in File
  BY <1>1, <1>2, OpenedFiles, InRun, Types DEF Base
<1>4. TypeOK'
  BY <1>1, <1>3 DEF Base, TypeOK
<1>5. Threads' /\ RunCounts' /\ QueueCounts'
  BY <1>1, <1>2 DEF Base, Threads, RunCounts, QueueCounts, Worth, Running
<1>6. QED
  BY <1>3, <1>4, <1>5 DEF Base

LEMMA WriteBase ==
  ASSUME Base, Write
  PROVE  Base'
<1>1. /\ UNCHANGED <<async, keep, globalStep, weights, victims, queue, writing, worker, starts>>
      /\ pc = "write" /\ pc' = "list" /\ Complete(globalStep)
  BY DEF Write, Go, settings, saver
<1>2. Earlier' = Earlier /\ Counted' = Counted /\ pc \in Running
  BY <1>1 DEF Earlier, Counted, Saving, Running
<1>3. /\ FileCounts' /\ OnDisk' \in SUBSET Label /\ \A l \in OnDisk' : disk'[l] \in File
      /\ best' \in Label \cup {NoLabel}
  BY <1>1, <1>2, CompletedFiles, Types DEF Base
<1>4. TypeOK'
  BY <1>1, <1>3 DEF Base, TypeOK
<1>5. Threads' /\ RunCounts' /\ QueueCounts'
  BY <1>1, <1>2 DEF Base, Threads, RunCounts, QueueCounts, Worth, Running
<1>6. QED
  BY <1>3, <1>4, <1>5 DEF Base

(* The worker has something to do only in a run of train. *)
LEMMA WorkerInRun ==
  ASSUME Base, worker = "runs", queue # <<>> \/ writing # NoLabel
  PROVE  pc \in Running /\ pc # "load" /\ pc # "done" /\ async
BY DEF Base, Threads, TypeOK, Running

LEMMA WorkerOpensBase ==
  ASSUME Base, WorkerOpens
  PROVE  Base'
<1>1. /\ UNCHANGED <<async, keep, pc, globalStep, weights, victims, worker, starts, best>>
      /\ worker = "runs" /\ writing = NoLabel /\ queue # <<>> /\ Head(queue) # NoLabel
      /\ queue' = Tail(queue) /\ writing' = Head(queue) /\ disk' = Put(Head(queue), Torn)
  BY DEF WorkerOpens, settings
<1>2. Earlier' = Earlier /\ Counted' = Counted
  BY <1>1 DEF Earlier, Counted
<1>3. pc \in Running /\ pc # "load" /\ pc # "done" /\ async
  BY <1>1, WorkerInRun
<1>4. queue \in Seq(Label \cup {NoLabel})
  BY DEF Base, TypeOK
<1>5. /\ queue' \in Seq(Label \cup {NoLabel}) /\ Len(queue') = Len(queue) - 1 /\ Len(queue) \in Nat
      /\ \A i \in 1 .. Len(queue') : queue'[i] = queue[i + 1] /\ i + 1 \in 1 .. Len(queue)
      /\ Head(queue) = queue[1] /\ 1 \in 1 .. Len(queue) /\ queue[1] \in Label
  BY <1>1, <1>4, TailFacts
<1>6. queue[1] <= weights.lo
  <2>1. queue[1] <= globalStep /\ globalStep <= weights.lo
    BY <1>1, <1>3, <1>5, InRun DEF Base, QueueCounts
  <2>2. queue[1] \in Nat /\ globalStep \in Nat /\ weights.lo \in Nat
    BY <1>5, Types DEF Base, Label
  <2>3. QED
    BY <2>1, <2>2
<1>7. FileCounts' /\ OnDisk' \in SUBSET Label /\ \A l \in OnDisk' : disk'[l] \in File
  BY <1>1, <1>2, <1>3, <1>5, <1>6, OpenedFiles
<1>8. TypeOK'
  BY <1>1, <1>5, <1>7 DEF Base, TypeOK
<1>9. Threads'
  <2>1. \A i \in 1 .. Len(queue') : queue'[i] = NoLabel => i = Len(queue') /\ pc \in {"join", "done"}
    BY <1>5 DEF Base, Threads
  <2>2. QED
    BY <1>1, <1>3, <2>1 DEF Base, Threads, Running
<1>10. RunCounts'
  BY <1>1, <1>2 DEF Base, RunCounts, Worth
<1>11. QueueCounts'
  BY <1>1, <1>5 DEF Base, QueueCounts
<1>12. QED
  BY <1>7, <1>8, <1>9, <1>10, <1>11 DEF Base

LEMMA WorkerWritesBase ==
  ASSUME Base, WorkerWrites
  PROVE  Base'
<1>1. /\ UNCHANGED <<async, keep, pc, globalStep, weights, victims, queue, worker, starts>>
      /\ worker = "runs" /\ writing # NoLabel /\ Complete(writing) /\ writing' = NoLabel
  BY DEF WorkerWrites, settings
<1>2. Earlier' = Earlier /\ Counted' = Counted /\ writing \in Label
  BY <1>1 DEF Earlier, Counted, Base, TypeOK
<1>3. pc \in Running /\ async
  BY <1>1, WorkerInRun
<1>4. /\ FileCounts' /\ OnDisk' \in SUBSET Label /\ \A l \in OnDisk' : disk'[l] \in File
      /\ best' \in Label \cup {NoLabel}
  BY <1>1, <1>2, <1>3, CompletedFiles
<1>5. TypeOK'
  BY <1>1, <1>4 DEF Base, TypeOK
<1>6. Threads' /\ RunCounts' /\ QueueCounts'
  BY <1>1, <1>2 DEF Base, Threads, RunCounts, QueueCounts, Worth
<1>7. QED
  BY <1>4, <1>5, <1>6 DEF Base

(* Steps that leave the directory as it is, and the weights. *)
LEMMA DiskFrame ==
  ASSUME Base, UNCHANGED <<async, disk, starts>>, pc' # "load" \/ pc' = pc
  PROVE  FileCounts'
<1>1. Earlier' \in Nat /\ Earlier <= Earlier' /\ Earlier' <= MaxStarts
  <2>1. starts \in Nat /\ starts <= MaxStarts /\ MaxStarts \in Nat
    BY Types DEF Base
  <2>2. Earlier' = starts \/ Earlier' = Earlier
    BY DEF Earlier
  <2>3. QED
    BY <2>1, <2>2, EarlierFacts
<1>2. QED
  BY <1>1, FileFrame

LEMMA WorkerDiesBase ==
  ASSUME Base, WorkerDies
  PROVE  Base'
<1>1. /\ UNCHANGED <<async, keep, pc, globalStep, weights, victims, queue, disk, starts, best>>
      /\ worker = "runs" /\ writing' = NoLabel /\ worker' = "died"
      /\ queue # <<>> \/ writing # NoLabel
  BY DEF WorkerDies, settings
<1>2. TypeOK'
  BY <1>1 DEF Base, TypeOK, OnDisk
<1>3. Threads' /\ RunCounts' /\ QueueCounts'
  BY <1>1, WorkerInRun DEF Base, Threads, RunCounts, QueueCounts, Worth, Counted, Running
<1>4. FileCounts'
  BY <1>1, DiskFrame
<1>5. QED
  BY <1>2, <1>3, <1>4 DEF Base

LEMMA WorkerStopsBase ==
  ASSUME Base, WorkerStops
  PROVE  Base'
<1>1. /\ UNCHANGED <<async, keep, pc, globalStep, weights, victims, writing, disk, starts, best>>
      /\ worker = "runs" /\ writing = NoLabel /\ worker' = "ended"
      /\ queue # <<>> /\ Head(queue) = NoLabel /\ queue' = Tail(queue)
  BY DEF WorkerStops, settings
<1>2. queue \in Seq(Label \cup {NoLabel})
  BY DEF Base, TypeOK
<1>3. /\ queue' \in Seq(Label \cup {NoLabel}) /\ Len(queue') = Len(queue) - 1 /\ Len(queue) \in Nat
      /\ \A i \in 1 .. Len(queue') : queue'[i] = queue[i + 1] /\ i + 1 \in 1 .. Len(queue)
      /\ Head(queue) = queue[1] /\ 1 \in 1 .. Len(queue)
  BY <1>1, <1>2, TailFacts
<1>4. Len(queue) = 1 /\ pc \in {"join", "done"}
  BY <1>1, <1>3 DEF Base, Threads
<1>5. queue' = <<>>
  <2>1. Len(queue') = Len(queue) - 1
    BY <1>3
  <2>2. Len(queue') = 0
    BY <1>4, <2>1
  <2>3. QED
    BY <1>3, <2>2, EmptySeq
<1>6. TypeOK'
  BY <1>1, <1>3 DEF Base, TypeOK, OnDisk
<1>7. Threads' /\ RunCounts' /\ QueueCounts'
  <2>1. RunCounts'
    BY <1>1 DEF Base, RunCounts, Worth, Counted
  <2>2. Threads'
    BY <1>1, <1>4, <1>5 DEF Base, Threads
  <2>3. QueueCounts'
    BY <1>5 DEF QueueCounts
  <2>4. QED
    BY <2>1, <2>2, <2>3
<1>8. FileCounts'
  BY <1>1, DiskFrame
<1>9. QED
  BY <1>6, <1>7, <1>8 DEF Base

LEMMA CrashBase ==
  ASSUME Base, Crash
  PROVE  Base'
<1>1. /\ UNCHANGED <<async, keep, globalStep, weights, disk, starts, best>>
      /\ pc' = "down" /\ victims' = {} /\ queue' = <<>> /\ writing' = NoLabel /\ worker' = "none"
  BY DEF Crash, settings
<1>2. TypeOK'
  BY <1>1, EmptySeq DEF Base, TypeOK, OnDisk
<1>3. Threads' /\ RunCounts' /\ QueueCounts'
  BY <1>1 DEF Threads, RunCounts, QueueCounts, Running
<1>4. FileCounts'
  BY <1>1, DiskFrame
<1>5. QED
  BY <1>2, <1>3, <1>4 DEF Base

LEMMA LoadRaisesBase ==
  ASSUME Base, LoadRaises
  PROVE  Base'
<1>1. /\ UNCHANGED <<async, keep, globalStep, weights, victims, queue, writing, disk, starts, best>>
      /\ pc = "load" /\ pc' = "raised" /\ worker' = "none"
  BY DEF LoadRaises, Go, settings
<1>2. TypeOK'
  BY <1>1 DEF Base, TypeOK, OnDisk
<1>3. Threads' /\ RunCounts' /\ QueueCounts'
  BY <1>1 DEF Base, Threads, RunCounts, QueueCounts, Running
<1>4. FileCounts'
  BY <1>1, DiskFrame
<1>5. QED
  BY <1>2, <1>3, <1>4 DEF Base

LEMMA StartBase ==
  ASSUME Base, Start
  PROVE  Base'
<1>1. /\ UNCHANGED <<async, keep, victims, writing, disk, best>>
      /\ pc \in {"down", "done"} /\ starts < MaxStarts /\ pc' = "load" /\ starts' = starts + 1
      /\ globalStep' = 0 /\ weights' = [lo |-> 0, hi |-> 0] /\ queue' = <<>>
      /\ worker' = IF async THEN "runs" ELSE "none"
  BY DEF Start, settings
<1>2. starts \in Nat /\ starts' \in 0 .. MaxStarts /\ starts' >= 1 /\ MaxSteps \in Nat /\ MaxStarts \in Nat
  BY <1>1, Types DEF Base
<1>3. TypeOK'
  <2>1. 0 \in Updates
    BY <1>2, WorthFacts DEF Updates
  <2>2. QED
    BY <1>1, <1>2, <2>1, EmptySeq DEF Base, TypeOK, OnDisk
<1>4. Threads' /\ RunCounts' /\ QueueCounts'
  BY <1>1, <1>2 DEF Base, Threads, RunCounts, QueueCounts, Running
<1>5. FileCounts'
  <2>1. Earlier = starts /\ Earlier' = starts
    BY <1>1, <1>2 DEF Earlier
  <2>2. QED
    BY <1>1, <1>2, <2>1, FileFrame
<1>6. QED
  BY <1>3, <1>4, <1>5 DEF Base

LEMMA LoadBase ==
  ASSUME Base, Load
  PROVE  Base'
<1>1. /\ UNCHANGED <<async, keep, victims, queue, writing, worker, disk, starts, best>>
      /\ pc = "load" /\ pc' = "train"
  BY DEF Load, Go, settings, saver
<1>2. Threads' /\ FileCounts'
  BY <1>1, DiskFrame DEF Base, Threads
<1>3. /\ starts \in Nat /\ starts >= 1 /\ starts <= MaxStarts /\ MaxStarts \in Nat /\ MaxSteps \in Nat
      /\ queue = <<>> /\ Earlier = starts - 1 /\ Counted' = globalStep'
  BY <1>1, Types, EarlierFacts DEF Base, RunCounts, Threads, Counted, Saving
<1>4. Worth(starts - 1) \in Nat /\ Worth(starts - 1)' = Worth(starts - 1)
  <2>1. starts - 1 \in 0 .. MaxStarts
    BY <1>3
  <2>2. QED
    BY <1>1, <2>1, WorthFacts DEF Worth
<1>5. /\ globalStep' \in Label /\ weights' \in [lo : Updates, hi : Updates]
      /\ globalStep' <= weights'.lo
      /\ weights'.lo <= Worth(starts - 1) + globalStep'
      /\ weights'.hi <= Worth(starts - 1) + globalStep'
      /\ ~async => weights'.hi <= globalStep' + starts - 1
  <2>1. CASE Resume /\ OnDisk # {}
    <3> DEFINE m == Max(OnDisk)
    <3>1. m \in OnDisk /\ disk[m].whole /\ globalStep' = m /\ weights' = [lo |-> disk[m].lo, hi |-> disk[m].hi]
      BY <2>1, MaxFacts, Types DEF Base, Load
    <3>2. m \in Label /\ m \in Nat /\ disk[m] \in File
      BY <3>1, Types DEF Base, TypeOK
    <3>3. disk[m].lo \in Updates /\ disk[m].hi \in Updates /\ disk[m].lo \in Nat /\ disk[m].hi \in Nat
      BY <3>1, <3>2, Types DEF Base, File
    <3>4. /\ m <= disk[m].lo /\ disk[m].lo <= Worth(starts - 1) /\ disk[m].hi <= Worth(starts - 1)
          /\ ~async => disk[m].hi <= m + (starts - 1)
      BY <1>3, <3>1 DEF Base, FileCounts
    <3> HIDE DEF m
    <3>5. QED
      BY <1>3, <1>4, <3>1, <3>2, <3>3, <3>4
  <2>2. CASE ~(Resume /\ OnDisk # {})
    <3>1. weights' = weights /\ globalStep' = globalStep
      BY <2>2 DEF Load
    <3>2. globalStep = 0 /\ weights.lo = 0 /\ weights.hi = 0 /\ weights \in [lo : Updates, hi : Updates] /\ 0 \in Label
      BY <1>1, <1>3 DEF Base, RunCounts, TypeOK, Label
    <3>3. QED
      BY <1>3, <1>4, <3>1, <3>2
  <2>3. QED
    BY <2>1, <2>2
<1>6. TypeOK'
  BY <1>1, <1>5 DEF Base, TypeOK, OnDisk, Label
<1>7. RunCounts'
  BY <1>1, <1>3, <1>4, <1>5 DEF RunCounts
<1>8. QueueCounts'
  BY <1>1, <1>3 DEF QueueCounts
<1>9. QED
  BY <1>2, <1>6, <1>7, <1>8 DEF Base

LEMMA NextBase == Base /\ [Next]_vars => Base'
<1> SUFFICES ASSUME Base, [Next]_vars PROVE Base'
  OBVIOUS
<1>1. CASE UNCHANGED vars
  BY <1>1 DEF vars, Base, TypeOK, OnDisk, Threads, RunCounts, FileCounts, QueueCounts, Counted, Earlier, Worth
<1>2. CASE Trainer
  BY <1>2, LoadBase, LoadRaisesBase, OptimizerStepBase, NextStepBase, FinalSaveBase, EnqueueBase,
     OpenBase, WriteBase, ListBase, RemoveBase, SaveReturnsBase, CloseBase, JoinBase DEF Trainer
<1>3. CASE Worker
  BY <1>3, WorkerOpensBase, WorkerWritesBase, WorkerDiesBase, WorkerStopsBase DEF Worker
<1>4. QED
  BY <1>1, <1>2, <1>3, StartBase, RemoveByHandBase, CrashBase DEF Next

(* In every reachable state the weights and files hold the updates their    *)
(* labels and the number of starts allow.                                  *)
THEOREM BaseInvariance == Spec => []Base
BY InitBase, NextBase, PTL DEF Spec

(* TypeOK: no step, label or number of updates leaves its bound. *)
THEOREM TypeCorrect == Spec => []TypeOK
<1>1. Base => TypeOK
  BY DEF Base
<1>2. QED
  BY <1>1, BaseInvariance, PTL

LEMMA BaseSteps == Base => StepsInWeights
<1> SUFFICES ASSUME Base, NEW l \in OnDisk, disk[l].whole
             PROVE  l <= disk[l].lo /\ (~async => disk[l].hi <= l + starts)
  BY DEF StepsInWeights
<1>1. /\ l \in Nat /\ disk[l].hi \in Nat /\ starts \in Nat /\ Earlier \in Nat /\ Earlier <= starts
      /\ l <= disk[l].lo
      /\ ~async => disk[l].hi <= l + Earlier
  BY Types, EarlierFacts DEF Base, FileCounts
<1>2. QED
  BY <1>1

(* Training skips no step, whatever crashes, resumes and the worker do: the *)
(* label of a complete checkpoint is at most the updates in its weights.    *)
THEOREM StepsAreInWeights == Spec => []StepsInWeights
BY BaseSteps, BaseInvariance, PTL
-----------------------------------------------------------------------------
(* With `resume`: labels are written in their order, to the disk and through *)
(* the queue, and all but the file being written are complete.             *)
OlderWhole == \A l, m \in OnDisk : l < m => disk[l].whole

StepOnTop == pc \in Running => \A l \in OnDisk : l <= globalStep

QueueOnTop == \A l \in OnDisk, i \in 1 .. Len(queue) : queue[i] # NoLabel => l <= queue[i]

QueueSorted == \A i, j \in 1 .. Len(queue) : i < j /\ queue[j] # NoLabel => queue[i] <= queue[j]

OthersWhole ==
  pc \in Running /\ worker # "died" =>
    \A l \in OnDisk : disk[l].whole \/ l = writing \/ (pc = "write" /\ l = globalStep)

(* Files to be removed are the oldest, and never the final checkpoint. *)
VictimsOldest ==
  /\ pc # "remove" => victims = {}
  /\ victims \subseteq OnDisk
  /\ \A v \in victims : v < MaxSteps
  /\ \A v \in victims, l \in OnDisk : l < v => l \in victims

(* The final checkpoint is on disk or on its way. *)
FinalOnWay ==
  worker # "died" /\ globalStep = MaxSteps /\ pc \in {"write", "list", "remove", "close", "join", "done"} =>
    MaxSteps \in OnDisk \/ \E i \in 1 .. Len(queue) : queue[i] = MaxSteps

FewKept ==
  ~async /\ pc \in {"remove", "close", "join", "done"} => Cardinality(OnDisk \ victims) <= keep

Directory ==
  /\ OlderWhole /\ StepOnTop /\ QueueOnTop /\ QueueSorted /\ OthersWhole
  /\ VictimsOldest /\ FinalOnWay /\ FewKept
-----------------------------------------------------------------------------
LEMMA DiskFinite ==
  ASSUME TypeOK
  PROVE  IsFiniteSet(OnDisk) /\ \A S \in SUBSET OnDisk : IsFiniteSet(S) /\ Cardinality(S) \in Nat
<1>1. MaxSteps \in Nat /\ OnDisk \subseteq 0 .. MaxSteps
  BY Types DEF Label
<1>2. IsFiniteSet(0 .. MaxSteps)
  BY <1>1, FS_Interval
<1>3. \A S \in SUBSET (0 .. MaxSteps) : IsFiniteSet(S)
  BY <1>2, FS_Subset
<1>4. QED
  BY <1>1, <1>3, FS_CardinalityType

(* Of the files, no more than keep are followed by fewer than keep others, *)
LEMMA ExcessLeavesFew ==
  ASSUME TypeOK
  PROVE  Cardinality(OnDisk \ Excess) <= keep
<1> DEFINE K == OnDisk \ Excess
           After(l) == {m \in OnDisk : m > l}
<1>1. keep \in Nat /\ IsFiniteSet(K) /\ Cardinality(K) \in Nat /\ K \subseteq OnDisk /\ K \in SUBSET Nat
  BY Types, DiskFinite DEF Excess
<1>2. CASE K = {}
  BY <1>1, <1>2, FS_EmptySet
<1>3. CASE K # {}
  <2> DEFINE k == Min(K)
  <2>1. k \in K /\ \A n \in K : k <= n
    BY <1>1, <1>3, MinFacts
  <2> HIDE DEF k
  <2>2. K \ {k} \subseteq After(k)
    <3>1. \A n \in K \ {k} : n \in Nat /\ k \in Nat /\ k <= n /\ n # k
      BY <1>1, <2>1
    <3>2. QED
      BY <1>1, <3>1
  <2>3. IsFiniteSet(After(k)) /\ Cardinality(After(k)) \in Nat /\ ~(Cardinality(After(k)) >= keep)
    BY <2>1, DiskFinite DEF Excess
  <2>4. Cardinality(K \ {k}) <= Cardinality(After(k)) /\ Cardinality(K \ {k}) \in Nat
    BY <2>2, <2>3, FS_Subset, FS_CardinalityType
  <2>5. Cardinality(K \ {k}) = Cardinality(K) - 1
    BY <1>1, <2>1, FS_RemoveElement
  <2>6. QED
    BY <1>1, <2>3, <2>4, <2>5
<1>4. QED
  BY <1>2, <1>3

(* and at least keep, or all of them. *)
LEMMA ExcessLeavesEnough ==
  ASSUME TypeOK, Excess # {}
  PROVE  Cardinality(OnDisk \ Excess) >= keep
<1> DEFINE e == Max(Excess)
           After(l) == {m \in OnDisk : m > l}
<1>1. keep \in Nat /\ Excess \subseteq OnDisk /\ Excess \in SUBSET Label
  BY Types DEF Excess
<1>2. e \in Excess /\ \A n \in Excess : n <= e
  BY <1>1, MaxFacts
<1> HIDE DEF e
<1>3. Cardinality(After(e)) >= keep /\ Cardinality(After(e)) \in Nat
  BY <1>2, DiskFinite DEF Excess
<1>4. After(e) \subseteq OnDisk \ Excess
  <2>1. \A m \in OnDisk : m > e => m \notin Excess
    BY <1>1, <1>2, Types
  <2>2. QED
    BY <2>1
<1>5. Cardinality(After(e)) <= Cardinality(OnDisk \ Excess) /\ Cardinality(OnDisk \ Excess) \in Nat
  BY <1>4, DiskFinite, FS_Subset
<1>6. QED
  BY <1>1, <1>3, <1>5

(* The excess is the oldest files, and there is a newer one than each. *)
LEMMA ExcessOldest ==
  ASSUME TypeOK
  PROVE  /\ Excess \subseteq OnDisk
         /\ \A v \in Excess : v < MaxSteps
         /\ \A v \in Excess, l \in OnDisk : l < v => l \in Excess
<1> DEFINE After(l) == {m \in OnDisk : m > l}
<1>1. keep \in Nat /\ keep >= 1 /\ \A l \in OnDisk : l \in Nat /\ l <= MaxSteps
  BY Types
<1>2. \A l \in OnDisk : IsFiniteSet(After(l)) /\ Cardinality(After(l)) \in Nat
  BY DiskFinite
<1>3. \A v \in Excess : v < MaxSteps
  <2> SUFFICES ASSUME NEW v \in Excess PROVE v < MaxSteps
    OBVIOUS
  <2>1. v \in OnDisk /\ Cardinality(After(v)) >= keep
    BY DEF Excess
  <2>2. After(v) # {}
    BY <1>1, <1>2, <2>1, FS_EmptySet
  <2>3. PICK m \in OnDisk : m > v
    BY <2>2
  <2>4. QED
    BY <1>1, <2>1, <2>3, Types
<1>4. ASSUME NEW v \in Excess, NEW l \in OnDisk, l < v
      PROVE  l \in Excess
  <2>1. v \in OnDisk /\ Cardinality(After(v)) >= keep
    BY DEF Excess
  <2>2. After(v) \subseteq After(l)
    BY <1>1, <1>4, <2>1
  <2>3. Cardinality(After(v)) <= Cardinality(After(l))
    BY <1>2, <2>1, <2>2, FS_Subset
  <2>4. Cardinality(After(l)) >= keep
    BY <1>1, <1>2, <2>1, <2>3
  <2>5. QED
    BY <2>4 DEF Excess
<1>5. QED
  BY <1>3, <1>4 DEF Excess

LEMMA QueueTypes ==
  ASSUME Base
  PROVE  /\ queue \in Seq(Label \cup {NoLabel}) /\ Len(queue) \in Nat
         /\ \A i \in 1 .. Len(queue) :
              /\ i \in Nat /\ queue[i] \in Int /\ queue[i] \in Label \cup {NoLabel}
              /\ queue[i] # NoLabel => queue[i] \in Label /\ queue[i] \in Nat /\ queue[i] <= globalStep
<1>1. queue \in Seq(Label \cup {NoLabel}) /\ Len(queue) \in Nat
  BY LenProperties DEF Base, TypeOK
<1>2. \A i \in 1 .. Len(queue) : queue[i] \in Label \cup {NoLabel}
  BY <1>1, ElementOfSeq
<1>3. NoLabel \in Int /\ \A x \in Label : x \in Nat /\ x \in Int
  BY Constants DEF Label, NoLabel
<1>4. \A i \in 1 .. Len(queue) : queue[i] # NoLabel => queue[i] <= globalStep
  BY DEF Base, QueueCounts
<1>5. ASSUME NEW i \in 1 .. Len(queue)
      PROVE  /\ i \in Nat /\ queue[i] \in Int /\ queue[i] \in Label \cup {NoLabel}
             /\ queue[i] # NoLabel => queue[i] \in Label /\ queue[i] \in Nat /\ queue[i] <= globalStep
  <2>1. i \in Nat
    BY <1>1
  <2>2. queue[i] \in Label \/ queue[i] = NoLabel
    BY <1>2
  <2>3. queue[i] \in Int
    BY <1>3, <2>2
  <2>4. queue[i] # NoLabel => queue[i] \in Label /\ queue[i] \in Nat
    BY <1>3, <2>2
  <2>5. QED
    BY <1>2, <1>4, <2>1, <2>2, <2>3, <2>4
<1>6. QED
  BY <1>1, <1>5

LEMMA InitDirectory == Init => Directory
<1> SUFFICES ASSUME Init PROVE Directory
  OBVIOUS
<1>1. OnDisk = {} /\ victims = {} /\ pc = "down" /\ queue = <<>>
  BY DEF Init, OnDisk
<1>2. QED
  BY <1>1 DEF Directory, OlderWhole, StepOnTop, QueueOnTop, QueueSorted, OthersWhole, VictimsOldest,
              FinalOnWay, FewKept, Running

(* Steps that leave directory and queue as they are. *)
LEMMA SameFiles ==
  ASSUME Base, Base', Directory, UNCHANGED <<async, keep, disk, queue, writing, worker>>,
         pc \in Running, pc' \in Running, pc # "write", pc' # "write",
         globalStep <= globalStep',
         VictimsOldest', FinalOnWay', FewKept'
  PROVE  Directory'
<1>1. OnDisk' = OnDisk
  BY DEF OnDisk
<1>2. OlderWhole' /\ QueueOnTop' /\ QueueSorted' /\ OthersWhole'
  BY <1>1 DEF Directory, OlderWhole, QueueOnTop, QueueSorted, OthersWhole
<1>3. StepOnTop'
  <2> SUFFICES ASSUME NEW l \in OnDisk PROVE l <= globalStep'
    BY <1>1 DEF StepOnTop
  <2>1. l \in Nat /\ globalStep \in Nat /\ globalStep' \in Int /\ l <= globalStep
    <3>1. globalStep' \in Int
      BY DEF Base, TypeOK
    <3>2. QED
      BY <3>1, Types DEF Base, Directory, StepOnTop
  <2>2. QED
    BY <2>1
<1>4. QED
  BY <1>2, <1>3 DEF Directory

LEMMA QuietDirectory ==
  ASSUME Base, Base', Directory, OptimizerStep \/ NextStep \/ FinalSave \/ SaveReturns \/ Join
  PROVE  Directory'
<1>1. /\ UNCHANGED <<async, keep, disk, queue, writing, worker, victims>>
      /\ pc \in Running /\ pc' \in Running /\ pc # "write" /\ pc' # "write"
      /\ pc' = "remove" => pc = "remove"
      /\ pc = "remove" => victims = {}
  BY DEF OptimizerStep, NextStep, FinalSave, SaveReturns, Join, Go, settings, saver, Running
<1>2. globalStep \in Nat /\ globalStep <= MaxSteps /\ MaxSteps \in Nat
  BY Types DEF Base
<1>3. globalStep <= globalStep' /\ (globalStep' = globalStep \/ pc' = "train")
  BY <1>2 DEF OptimizerStep, NextStep, FinalSave, SaveReturns, Join, Go
<1>4. OnDisk' = OnDisk
  BY <1>1 DEF OnDisk
<1>5. VictimsOldest'
  BY <1>1, <1>4 DEF Directory, VictimsOldest
<1>6. pc' \in {"close", "join", "done"} => pc \in {"remove", "close", "join", "done"}
  BY DEF OptimizerStep, NextStep, FinalSave, SaveReturns, Join, Go
<1>7. pc' \notin {"write", "list", "remove"}
  BY DEF OptimizerStep, NextStep, FinalSave, SaveReturns, Join, Go
<1>8. FinalOnWay'
  BY <1>1, <1>3, <1>4, <1>6, <1>7 DEF Directory, FinalOnWay
<1>9. FewKept'
  BY <1>1, <1>4, <1>6, <1>7 DEF Directory, FewKept
<1>10. QED
  BY <1>1, <1>3, <1>5, <1>8, <1>9, SameFiles

LEMMA ListDirectory ==
  ASSUME Base, Base', Directory, List
  PROVE  Directory'
<1>1. /\ UNCHANGED <<async, keep, globalStep, disk, queue, writing, worker>>
      /\ pc = "list" /\ pc' = "remove" /\ victims' = Excess
  BY DEF List, Go, settings, saver
<1>2. OnDisk' = OnDisk /\ globalStep \in Nat
  BY <1>1, Types DEF OnDisk, Base
<1>3. VictimsOldest'
  BY <1>1, <1>2, ExcessOldest DEF Base, VictimsOldest
<1>4. FinalOnWay'
  BY <1>1, <1>2 DEF Directory, FinalOnWay
<1>5. FewKept'
  BY <1>1, <1>2, ExcessLeavesFew DEF Base, FewKept
<1>6. globalStep <= globalStep' /\ pc \in Running /\ pc' \in Running
  BY <1>1, <1>2 DEF Running
<1>7. QED
  BY <1>1, <1>3, <1>4, <1>5, <1>6, SameFiles

LEMMA RemoveDirectory ==
  ASSUME Base, Base', Directory, Remove
  PROVE  Directory'
<1> DEFINE v == Min(victims)
<1>1. /\ UNCHANGED <<async, keep, pc, globalStep, queue, writing, worker>>
      /\ pc = "remove" /\ victims # {} /\ disk' = Without({v}) /\ victims' = victims \ {v}
  BY DEF Remove, settings, saver
<1>2. OnDisk' = OnDisk \ {v} /\ \A m \in OnDisk' : disk'[m] = disk[m]
  BY <1>1, WithoutFacts
<1>3. v \in victims
  <2>1. victims \in SUBSET Nat
    BY Constants DEF Base, TypeOK, Label
  <2>2. QED
    BY <1>1, <2>1, MinFacts
<1> HIDE DEF v
<1>4. OlderWhole' /\ StepOnTop' /\ QueueOnTop' /\ QueueSorted' /\ OthersWhole'
  BY <1>1, <1>2 DEF Directory, OlderWhole, StepOnTop, QueueOnTop, QueueSorted, OthersWhole
<1>5. VictimsOldest'
  BY <1>1, <1>2 DEF Directory, VictimsOldest
<1>6. FinalOnWay'
  <2>1. v # MaxSteps
    BY <1>3, Types DEF Directory, VictimsOldest, Base
  <2>2. QED
    BY <1>1, <1>2, <2>1 DEF Directory, FinalOnWay
<1>7. FewKept'
  <2>1. OnDisk' \ victims' = OnDisk \ victims
    BY <1>1, <1>2, <1>3
  <2>2. QED
    BY <1>1, <2>1 DEF Directory, FewKept
<1>8. QED
  BY <1>4, <1>5, <1>6, <1>7 DEF Directory

(* A file is opened for the greatest label yet, when all others are complete. *)
LEMMA OpenedDirectory ==
  ASSUME Base, Directory, NEW q \in Label, disk' = Put(q, Torn),
         \A l \in OnDisk : l <= q /\ (l # q => disk[l].whole)
  PROVE  /\ OlderWhole' /\ OnDisk' = OnDisk \cup {q}
         /\ \A l \in OnDisk' : l <= q /\ (l # q => disk'[l].whole)
<1>1. OnDisk' = OnDisk \cup {q} /\ \A m \in OnDisk : m # q => disk'[m] = disk[m]
  BY PutFacts
<1>2. q \in Nat /\ \A l \in OnDisk : l \in Nat
  BY Types, Constants DEF Base, Label
<1>3. \A l \in OnDisk' : l \in Nat /\ l <= q /\ (l # q => disk'[l].whole)
  BY <1>1, <1>2
<1>4. OlderWhole'
  <2> SUFFICES ASSUME NEW l \in OnDisk', NEW m \in OnDisk', l < m PROVE disk'[l].whole
    BY DEF OlderWhole
  <2>1. l # q
    BY <1>2, <1>3
  <2>2. QED
    BY <1>3, <2>1
<1>5. QED
  BY <1>1, <1>3, <1>4

(* Completing a file unmakes no other. *)
LEMMA CompletedDirectory ==
  ASSUME NEW q, Complete(q)
  PROVE  /\ OnDisk' = OnDisk
         /\ \A l \in OnDisk : disk[l].whole \/ l = q => disk'[l].whole
<1>1. CASE q \notin OnDisk
  BY <1>1 DEF Complete, OnDisk
<1>2. CASE q \in OnDisk
  <2> DEFINE f == [whole |-> TRUE, lo |-> disk[q].lo, hi |-> weights.hi]
  <2>1. disk' = Put(q, f) /\ f.whole
    BY <1>2 DEF Complete
  <2> HIDE DEF f
  <2>2. OnDisk' = OnDisk \cup {q} /\ disk'[q] = f /\ \A m \in OnDisk : m # q => disk'[m] = disk[m]
    BY <2>1, PutFacts
  <2>3. QED
    BY <1>2, <2>1, <2>2
<1>3. QED
  BY <1>1, <1>2

LEMMA OpenDirectory ==
  ASSUME Base, Base', Directory, Open
  PROVE  Directory'
<1>1. /\ UNCHANGED <<async, keep, globalStep, victims, queue, writing, worker>>
      /\ pc = "save" /\ pc' = "write" /\ ~async /\ disk' = Put(globalStep, Torn)
  BY DEF Open, Go, settings, saver
<1>2. /\ globalStep \in Label /\ queue = <<>> /\ writing = NoLabel /\ worker # "died" /\ NoLabel \notin Label
      /\ OnDisk \subseteq Label
  BY <1>1, Types DEF Base, Threads
<1>3. \A l \in OnDisk : l <= globalStep /\ (l # globalStep => disk[l].whole)
  BY <1>1, <1>2 DEF Directory, StepOnTop, OthersWhole, Running
<1>4. /\ OlderWhole' /\ OnDisk' = OnDisk \cup {globalStep}
      /\ \A l \in OnDisk' : l <= globalStep /\ (l # globalStep => disk'[l].whole)
  BY <1>1, <1>2, <1>3, OpenedDirectory
<1>5. StepOnTop' /\ OthersWhole' /\ QueueOnTop' /\ QueueSorted' /\ FinalOnWay' /\ FewKept'
  BY <1>1, <1>2, <1>4 DEF StepOnTop, OthersWhole, QueueOnTop, QueueSorted, FinalOnWay, FewKept
<1>6. VictimsOldest'
  BY <1>1, <1>4 DEF Directory, VictimsOldest
<1>7. QED
  BY <1>4, <1>5, <1>6 DEF Directory

LEMMA WriteDirectory ==
  ASSUME Base, Base', Directory, Write
  PROVE  Directory'
<1>1. /\ UNCHANGED <<async, keep, globalStep, victims, queue, writing, worker>>
      /\ pc = "write" /\ pc' = "list" /\ Complete(globalStep)
  BY DEF Write, Go, settings, saver
<1>2. OnDisk' = OnDisk /\ \A l \in OnDisk : disk[l].whole \/ l = globalStep => disk'[l].whole
  BY <1>1, CompletedDirectory
<1>3. OlderWhole' /\ StepOnTop' /\ QueueOnTop' /\ QueueSorted' /\ OthersWhole'
  BY <1>1, <1>2 DEF Directory, OlderWhole, StepOnTop, QueueOnTop, QueueSorted, OthersWhole, Running
<1>4. VictimsOldest' /\ FinalOnWay' /\ FewKept'
  BY <1>1, <1>2 DEF Directory, VictimsOldest, FinalOnWay, FewKept
<1>5. QED
  BY <1>3, <1>4 DEF Directory

LEMMA EnqueueDirectory ==
  ASSUME Base, Base', Directory, Enqueue
  PROVE  Directory'
<1>1. /\ UNCHANGED <<async, keep, globalStep, victims, writing, worker, disk>>
      /\ pc = "save" /\ pc' = "list" /\ async /\ queue' = Append(queue, globalStep)
  BY DEF Enqueue, Go, settings, saver
<1>2. /\ globalStep \in Label /\ globalStep \in Nat /\ OnDisk' = OnDisk
      /\ \A l \in OnDisk : l <= globalStep
  BY <1>1, Types DEF Base, OnDisk, Directory, StepOnTop, Running
<1>3. /\ Len(queue) \in Nat /\ Len(queue') = Len(queue) + 1 /\ queue'[Len(queue) + 1] = globalStep
      /\ \A i \in 1 .. Len(queue) : queue'[i] = queue[i]
  BY <1>1, <1>2, QueueTypes, AppendFacts
<1>4. \A i \in 1 .. Len(queue') : i \in 1 .. Len(queue) \/ i = Len(queue) + 1
  BY <1>3
<1>5. OlderWhole' /\ StepOnTop' /\ OthersWhole' /\ VictimsOldest' /\ FewKept'
  BY <1>1, <1>2 DEF Directory, OlderWhole, StepOnTop, OthersWhole, VictimsOldest, FewKept, Running
<1>6. QueueOnTop'
  BY <1>2, <1>3, <1>4 DEF Directory, QueueOnTop
<1>7. QueueSorted'
  <2> SUFFICES ASSUME NEW i \in 1 .. Len(queue'), NEW j \in 1 .. Len(queue'), i < j, queue'[j] # NoLabel
               PROVE  queue'[i] <= queue'[j]
    BY DEF QueueSorted
  <2>1. i \in 1 .. Len(queue) /\ i \in Nat
    BY <1>3
  <2>2. CASE j \in 1 .. Len(queue)
    BY <1>3, <2>1, <2>2 DEF Directory, QueueSorted
  <2>3. CASE j = Len(queue) + 1
    <3>1. queue[i] = NoLabel \/ queue[i] <= globalStep
      BY <2>1, QueueTypes
    <3>2. NoLabel <= globalStep
      BY <1>2 DEF NoLabel
    <3>3. QED
      BY <1>3, <2>1, <2>3, <3>1, <3>2
  <2>4. QED
    BY <1>4, <2>2, <2>3
<1>8. FinalOnWay'
  <2>1. Len(queue) + 1 \in 1 .. Len(queue')
    BY <1>3
  <2>2. QED
    BY <1>1, <1>3, <2>1 DEF FinalOnWay
<1>9. QED
  BY <1>5, <1>6, <1>7, <1>8 DEF Directory

LEMMA CloseDirectory ==
  ASSUME Base, Base', Directory, Close
  PROVE  Directory'
<1>1. /\ UNCHANGED <<async, keep, globalStep, victims, writing, worker, disk>>
      /\ pc = "close" /\ pc' = "join"
      /\ queue' = IF async THEN Append(queue, NoLabel) ELSE queue
  BY DEF Close, Go, settings, saver
<1>2. OnDisk' = OnDisk
  BY <1>1 DEF OnDisk
<1>3. OlderWhole' /\ StepOnTop' /\ OthersWhole' /\ VictimsOldest' /\ FewKept'
  BY <1>1, <1>2 DEF Directory, OlderWhole, StepOnTop, OthersWhole, VictimsOldest, FewKept, Running
<1>4. /\ Len(queue) \in Nat /\ 1 .. Len(queue) \subseteq 1 .. Len(queue')
      /\ \A i \in 1 .. Len(queue) : queue'[i] = queue[i]
      /\ \A i \in 1 .. Len(queue') : queue'[i] # NoLabel => i \in 1 .. Len(queue)
      /\ Len(queue') \in Nat
  <2>1. CASE async
    <3>1. queue' = Append(queue, NoLabel) /\ NoLabel \in Label \cup {NoLabel}
      BY <1>1, <2>1
    <3>2. /\ Len(queue) \in Nat /\ Len(queue') = Len(queue) + 1 /\ queue'[Len(queue) + 1] = NoLabel
          /\ \A i \in 1 .. Len(queue) : queue'[i] = queue[i]
      BY <3>1, QueueTypes, AppendFacts
    <3>3. \A i \in 1 .. Len(queue') : i \in 1 .. Len(queue) \/ i = Len(queue) + 1
      BY <3>2
    <3>4. 1 .. Len(queue) \subseteq 1 .. Len(queue')
      BY <3>2
    <3>5. QED
      BY <3>2, <3>3, <3>4
  <2>2. CASE ~async
    BY <1>1, <2>2, QueueTypes
  <2>3. QED
    BY <2>1, <2>2
<1>5. QueueOnTop'
  BY <1>2, <1>4 DEF Directory, QueueOnTop
<1>6. QueueSorted'
  <2> SUFFICES ASSUME NEW i \in 1 .. Len(queue'), NEW j \in 1 .. Len(queue'), i < j, queue'[j] # NoLabel
               PROVE  queue'[i] <= queue'[j]
    BY DEF QueueSorted
  <2>1. j \in 1 .. Len(queue) /\ j <= Len(queue)
    BY <1>4
  <2>2. i \in 1 .. Len(queue)
    BY <1>4, <2>1
  <2>3. QED
    BY <1>4, <2>1, <2>2 DEF Directory, QueueSorted
<1>7. FinalOnWay'
  BY <1>1, <1>2, <1>4 DEF Directory, FinalOnWay
<1>8. QED
  BY <1>3, <1>5, <1>6, <1>7 DEF Directory

LEMMA WorkerOpensDirectory ==
  ASSUME Base, Base', Directory, WorkerOpens
  PROVE  Directory'
<1>1. /\ UNCHANGED <<async, keep, pc, globalStep, victims, worker>>
      /\ worker = "runs" /\ writing = NoLabel /\ queue # <<>> /\ Head(queue) # NoLabel
      /\ queue' = Tail(queue) /\ writing' = Head(queue) /\ disk' = Put(Head(queue), Torn)
  BY DEF WorkerOpens, settings
<1>2. pc \in Running /\ async /\ pc # "write"
  BY <1>1, WorkerInRun DEF Base, Threads
<1>3. /\ Len(queue') = Len(queue) - 1 /\ Len(queue) \in Nat
      /\ \A i \in 1 .. Len(queue') : queue'[i] = queue[i + 1] /\ i + 1 \in 1 .. Len(queue)
      /\ Head(queue) = queue[1] /\ 1 \in 1 .. Len(queue)
  BY <1>1, QueueTypes, TailFacts
<1>4. queue[1] \in Label /\ queue[1] <= globalStep /\ NoLabel \notin Label /\ OnDisk \subseteq Label
  BY <1>1, <1>3, QueueTypes, Types DEF Base
<1>5. \A l \in OnDisk : l <= queue[1] /\ (l # queue[1] => disk[l].whole)
  BY <1>1, <1>2, <1>3, <1>4 DEF Directory, QueueOnTop, OthersWhole
<1>6. /\ OlderWhole' /\ OnDisk' = OnDisk \cup {queue[1]}
      /\ \A l \in OnDisk' : l <= queue[1] /\ (l # queue[1] => disk'[l].whole)
  BY <1>1, <1>3, <1>4, <1>5, OpenedDirectory
<1>7. StepOnTop' /\ OthersWhole'
  BY <1>1, <1>2, <1>3, <1>4, <1>6 DEF Directory, StepOnTop, OthersWhole
<1>8. QueueOnTop'
  <2> SUFFICES ASSUME NEW l \in OnDisk', NEW i \in 1 .. Len(queue'), queue'[i] # NoLabel
               PROVE  l <= queue'[i]
    BY DEF QueueOnTop
  <2>1. queue'[i] = queue[i + 1] /\ i + 1 \in 1 .. Len(queue) /\ 1 < i + 1
    BY <1>3
  <2>2. CASE l = queue[1]
    BY <1>3, <2>1, <2>2 DEF Directory, QueueSorted
  <2>3. CASE l \in OnDisk
    BY <2>1, <2>3 DEF Directory, QueueOnTop
  <2>4. QED
    BY <1>6, <2>2, <2>3
<1>9. QueueSorted'
  <2> SUFFICES ASSUME NEW i \in 1 .. Len(queue'), NEW j \in 1 .. Len(queue'), i < j, queue'[j] # NoLabel
               PROVE  queue'[i] <= queue'[j]
    BY DEF QueueSorted
  <2>1. /\ queue'[i] = queue[i + 1] /\ i + 1 \in 1 .. Len(queue)
        /\ queue'[j] = queue[j + 1] /\ j + 1 \in 1 .. Len(queue) /\ i + 1 < j + 1
    BY <1>3
  <2>2. QED
    BY <2>1 DEF Directory, QueueSorted
<1>10. VictimsOldest'
  <2>1. \A v \in victims, l \in OnDisk' : l < v => l \in victims
    <3> SUFFICES ASSUME NEW v \in victims, NEW l \in OnDisk', l < v PROVE l \in victims
      OBVIOUS
    <3>1. v \in OnDisk /\ v \in Nat /\ v <= queue[1] /\ queue[1] \in Nat
      BY <1>4, <1>5, Constants, Types DEF Directory, VictimsOldest, Base, Label
    <3>2. CASE l = queue[1]
      BY <3>1, <3>2
    <3>3. CASE l \in OnDisk
      BY <3>3 DEF Directory, VictimsOldest
    <3>4. QED
      BY <1>6, <3>2, <3>3
  <2>2. QED
    BY <1>1, <1>6, <2>1 DEF Directory, VictimsOldest
<1>11. FinalOnWay'
  <2> SUFFICES ASSUME globalStep = MaxSteps, pc \in {"write", "list", "remove", "close", "join", "done"}
               PROVE  MaxSteps \in OnDisk' \/ \E i \in 1 .. Len(queue') : queue'[i] = MaxSteps
    BY <1>1 DEF FinalOnWay
  <2>1. MaxSteps \in OnDisk \/ \E i \in 1 .. Len(queue) : queue[i] = MaxSteps
    BY <1>1 DEF Directory, FinalOnWay
  <2>2. ASSUME NEW i \in 1 .. Len(queue), queue[i] = MaxSteps
        PROVE  MaxSteps \in OnDisk' \/ \E k \in 1 .. Len(queue') : queue'[k] = MaxSteps
    <3>1. CASE i = 1
      BY <1>6, <2>2, <3>1
    <3>2. CASE i # 1
      <4>1. i - 1 \in 1 .. Len(queue') /\ (i - 1) + 1 = i
        BY <1>3, <3>2
      <4>2. queue'[i - 1] = MaxSteps
        BY <1>3, <2>2, <4>1
      <4>3. QED
        BY <4>1, <4>2
    <3>3. QED
      BY <3>1, <3>2
  <2>3. QED
    BY <1>6, <2>1, <2>2
<1>12. FewKept'
  BY <1>1, <1>2 DEF FewKept
<1>13. QED
  BY <1>6, <1>7, <1>8, <1>9, <1>10, <1>11, <1>12 DEF Directory

LEMMA WorkerWritesDirectory ==
  ASSUME Base, Base', Directory, WorkerWrites
  PROVE  Directory'
<1>1. /\ UNCHANGED <<async, keep, pc, globalStep, victims, queue, worker>>
      /\ worker = "runs" /\ writing # NoLabel /\ Complete(writing) /\ writing' = NoLabel
  BY DEF WorkerWrites, settings
<1>2. OnDisk' = OnDisk /\ \A l \in OnDisk : disk[l].whole \/ l = writing => disk'[l].whole
  BY <1>1, CompletedDirectory
<1>3. pc # "write"
  BY <1>1, WorkerInRun DEF Base, Threads
<1>4. OlderWhole' /\ StepOnTop' /\ QueueOnTop' /\ QueueSorted' /\ OthersWhole'
  BY <1>1, <1>2, <1>3 DEF Directory, OlderWhole, StepOnTop, QueueOnTop, QueueSorted, OthersWhole
<1>5. VictimsOldest' /\ FinalOnWay' /\ FewKept'
  BY <1>1, <1>2 DEF Directory, VictimsOldest, FinalOnWay, FewKept
<1>6. QED
  BY <1>4, <1>5 DEF Directory

LEMMA WorkerDiesDirectory ==
  ASSUME Base, Base', Directory, WorkerDies
  PROVE  Directory'
<1>1. /\ UNCHANGED <<async, keep, pc, globalStep, victims, queue, disk>>
      /\ worker' = "died" /\ writing' = NoLabel
  BY DEF WorkerDies, settings
<1>2. OnDisk' = OnDisk
  BY <1>1 DEF OnDisk
<1>3. QED
  BY <1>1, <1>2 DEF Directory, OlderWhole, StepOnTop, QueueOnTop, QueueSorted, OthersWhole,
                    VictimsOldest, FinalOnWay, FewKept

LEMMA WorkerStopsDirectory ==
  ASSUME Base, Base', Directory, WorkerStops
  PROVE  Directory'
<1>1. /\ UNCHANGED <<async, keep, pc, globalStep, victims, writing, disk>>
      /\ worker = "runs" /\ worker' = "ended"
      /\ queue # <<>> /\ Head(queue) = NoLabel /\ queue' = Tail(queue)
  BY DEF WorkerStops, settings
<1>2. OnDisk' = OnDisk /\ queue' = <<>>
  BY <1>1 DEF OnDisk, Base, Threads
<1>3. /\ Len(queue) \in Nat /\ Head(queue) = queue[1] /\ 1 \in 1 .. Len(queue)
  BY <1>1, QueueTypes, TailFacts
<1>4. Len(queue) = 1
  BY <1>1, <1>3 DEF Base, Threads
<1>5. \A i \in 1 .. Len(queue) : queue[i] # MaxSteps
  <2>1. \A i \in 1 .. Len(queue) : i = 1
    BY <1>4
  <2>2. NoLabel # MaxSteps
    BY Constants DEF NoLabel
  <2>3. QED
    BY <1>1, <1>3, <2>1, <2>2
<1>6. FinalOnWay'
  BY <1>1, <1>2, <1>5 DEF Directory, FinalOnWay
<1>7. QED
  BY <1>1, <1>2, <1>6 DEF Directory, OlderWhole, StepOnTop, QueueOnTop, QueueSorted, OthersWhole,
                    VictimsOldest, FewKept

LEMMA CrashDirectory ==
  ASSUME Base, Base', Directory, Crash \/ LoadRaises \/ Start
  PROVE  Directory'
<1>1. UNCHANGED <<async, keep, disk>> /\ OnDisk' = OnDisk
  BY DEF Crash, LoadRaises, Start, settings, OnDisk
<1>2. pc' \in {"down", "raised", "load"} /\ queue' = <<>>
  BY DEF Crash, LoadRaises, Start, Go, Base, Threads
<1>3. victims' = {}
  BY DEF Crash, LoadRaises, Start, Go, Directory, VictimsOldest
<1>4. QED
  BY <1>1, <1>2, <1>3 DEF Directory, OlderWhole, StepOnTop, QueueOnTop, QueueSorted, OthersWhole,
                    VictimsOldest, FinalOnWay, FewKept, Running

LEMMA RemoveByHandDirectory ==
  ASSUME Base, Base', Directory, RemoveByHand
  PROVE  Directory'
<1>1. /\ UNCHANGED <<async, keep, queue>> /\ disk' = Without({Max(OnDisk)})
      /\ pc = "raised" /\ pc' = "down" /\ queue = <<>> /\ victims' = {} /\ victims = {}
  BY DEF RemoveByHand, Go, Directory, VictimsOldest, settings, saver, Base, Threads
<1>2. OnDisk' \subseteq OnDisk /\ \A m \in OnDisk' : disk'[m] = disk[m]
  BY <1>1, WithoutFacts
<1>3. QED
  BY <1>1, <1>2 DEF Directory, OlderWhole, StepOnTop, QueueOnTop, QueueSorted, OthersWhole,
                    VictimsOldest, FinalOnWay, FewKept, Running

(* Resuming from the newest file: it is complete, so all are. *)
LEMMA LoadDirectory ==
  ASSUME Resume, Base, Base', Directory, Load
  PROVE  Directory'
<1>1. /\ UNCHANGED <<async, keep, victims, queue, writing, worker, disk>>
      /\ pc = "load" /\ pc' = "train"
  BY DEF Load, Go, settings, saver
<1>2. OnDisk' = OnDisk /\ queue = <<>> /\ victims = {}
  BY <1>1 DEF OnDisk, Base, Threads, Directory, VictimsOldest
<1>3. \A l \in OnDisk : disk[l].whole /\ l <= globalStep'
  <2> SUFFICES ASSUME NEW l \in OnDisk PROVE disk[l].whole /\ l <= globalStep'
    OBVIOUS
  <2>1. /\ Max(OnDisk) \in OnDisk /\ l <= Max(OnDisk) /\ disk[Max(OnDisk)].whole
        /\ globalStep' = Max(OnDisk)
    BY MaxFacts, Types DEF Base, Load
  <2>2. l = Max(OnDisk) \/ l < Max(OnDisk)
    BY <2>1, Types DEF Base
  <2>3. QED
    BY <2>1, <2>2 DEF Directory, OlderWhole
<1>4. QED
  BY <1>1, <1>2, <1>3 DEF Directory, OlderWhole, StepOnTop, QueueOnTop, QueueSorted, OthersWhole,
                    VictimsOldest, FinalOnWay, FewKept, Running

LEMMA NextDirectory ==
  ASSUME Resume, Base, Base', Directory, [Next]_vars
  PROVE  Directory'
<1>1. CASE UNCHANGED vars
  BY <1>1 DEF vars, Directory, OlderWhole, StepOnTop, QueueOnTop, QueueSorted, OthersWhole,
              VictimsOldest, FinalOnWay, FewKept, OnDisk
<1>2. CASE Trainer
  BY <1>2, LoadDirectory, CrashDirectory, QuietDirectory, EnqueueDirectory, OpenDirectory,
     WriteDirectory, ListDirectory, RemoveDirectory, CloseDirectory DEF Trainer
<1>3. CASE Worker
  BY <1>3, WorkerOpensDirectory, WorkerWritesDirectory, WorkerDiesDirectory, WorkerStopsDirectory DEF Worker
<1>4. QED
  BY <1>1, <1>2, <1>3, CrashDirectory, RemoveByHandDirectory DEF Next

(* In a job that resumes, files are written in the order of their labels,   *)
(* each only when those before it are complete.                            *)
THEOREM DirectoryInvariance == Resume /\ Spec => [](Resume /\ Base /\ Directory)
<1>1. Resume /\ Init => Resume /\ Base /\ Directory
  BY InitBase, InitDirectory
<1>2. Resume /\ Base /\ Directory /\ [Next]_vars => (Resume /\ Base /\ Directory)'
  BY NextBase, NextDirectory
<1>3. QED
  BY <1>1, <1>2, PTL DEF Spec

LEMMA TornIsNewest == Base /\ Directory => OnlyNewestTorn
<1> SUFFICES ASSUME Base, Directory, NEW l \in OnDisk, l # Max(OnDisk) PROVE disk[l].whole
  BY DEF OnlyNewestTorn
<1>1. Max(OnDisk) \in OnDisk /\ l <= Max(OnDisk)
  BY MaxFacts, Types DEF Base
<1>2. l < Max(OnDisk)
  BY <1>1, Types DEF Base
<1>3. QED
  BY <1>1, <1>2 DEF Directory, OlderWhole

(* Whatever is killed, dies or is cleaned up meanwhile, only the newest file *)
(* can be unfinished: every older one can be resumed from.                 *)
THEOREM OnlyNewestIsTorn == Resume /\ Spec => []OnlyNewestTorn
BY TornIsNewest, DirectoryInvariance, PTL

LEMMA DoneSaved == Base /\ Directory => DoneIsSaved
<1> SUFFICES ASSUME Base, Directory, pc = "done", worker # "died"
             PROVE  /\ MaxSteps \in OnDisk
                    /\ \A l \in OnDisk : disk[l].whole
                    /\ queue = <<>> /\ writing = NoLabel
                    /\ ~async => Cardinality(OnDisk) <= keep
  BY DEF DoneIsSaved
<1>1. writing = NoLabel /\ queue = <<>> /\ globalStep = MaxSteps
  BY DEF Base, TypeOK, Threads, RunCounts
<1>2. \A l \in OnDisk : disk[l].whole
  BY <1>1, Types DEF Base, Directory, OthersWhole, Running
<1>3. MaxSteps \in OnDisk
  BY <1>1 DEF Directory, FinalOnWay
<1>4. ~async => Cardinality(OnDisk) <= keep
  <2>1. victims = {} /\ OnDisk \ {} = OnDisk
    BY DEF Directory, VictimsOldest
  <2>2. QED
    BY <2>1 DEF Directory, FewKept
<1>5. QED
  BY <1>1, <1>2, <1>3, <1>4

(* A run of train that returns has its final checkpoint, and all before it  *)
(* that are kept, complete on disk, unless the worker has died.            *)
THEOREM DoneMeansSaved == Resume /\ Spec => []DoneIsSaved
BY DoneSaved, DirectoryInvariance, PTL
-----------------------------------------------------------------------------
(* How far the newest complete file can be behind the best one ever saved. *)

(* The labels on disk and on their way to it. *)
Saved == OnDisk \cup {l \in Label : \E i \in 1 .. Len(queue) : queue[i] = l}

LabelsMultiple == \A l \in Saved : l % SaveInterval = 0 \/ l = MaxSteps

(* No label between two saved ones is left out. *)
Dense ==
  \A l \in Saved : (\E m \in Saved : m < l) => \E m \in Saved : m < l /\ l <= m + SaveInterval

FromZero == OnDisk = {} /\ Saved # {} => 0 \in Saved

(* The trainer is at most an interval ahead of what it has saved. *)
StepNear ==
  /\ pc = "save" => globalStep % SaveInterval = 0 \/ globalStep = MaxSteps
  /\ pc \in {"train", "save"} => \/ Saved = {} /\ globalStep = 0
                                 \/ \E l \in Saved : globalStep <= l + SaveInterval
  /\ pc \in {"write", "list", "remove"} => globalStep \in Saved
  /\ pc = "next" => \E l \in Saved : globalStep < l + SaveInterval

(* The first run saves no label twice. *)
FirstRun ==
  starts = 1 =>
    /\ pc \in {"train", "save"} => \A l \in Saved : l < globalStep
    /\ \A i, j \in 1 .. Len(queue) : i < j /\ queue[j] # NoLabel => queue[i] < queue[j]
    /\ \A l \in OnDisk, i \in 1 .. Len(queue) : queue[i] # NoLabel => l < queue[i]

Fresh ==
  /\ starts = 0 \/ (starts = 1 /\ pc = "load") => OnDisk = {} /\ best = NoLabel
  /\ pc = "raised" => starts >= 2

VictimsLeave == victims # {} => Cardinality(OnDisk \ victims) >= keep

WritingOld ==
  /\ writing # NoLabel => \E m \in OnDisk : writing <= m
  /\ pc = "write" => globalStep \in OnDisk

Spaced ==
  /\ LabelsMultiple /\ Dense /\ FromZero /\ StepNear /\ FirstRun /\ Fresh
  /\ VictimsLeave /\ WritingOld
-----------------------------------------------------------------------------
(* The files of the best labels that may have been lost so far: one by each *)
(* start but the first, and the last start's not before its run has ended.  *)
AllWhole == \A l \in OnDisk : disk[l].whole
Losses ==
  LET n == IF pc = "down" /\ AllWhole THEN starts - 1 ELSE starts - 2
  IN IF n > 0 THEN n ELSE 0

Times(n) == n * SaveInterval

FewLost ==
  keep > 1 /\ starts <= keep =>
    /\ OnDisk # {} => 0 \in OnDisk \/ Cardinality(OnDisk) >= keep - Losses
    /\ OnDisk # {} => \E l \in OnDisk : best <= l + Times(Losses)
    /\ OnDisk = {} => best = NoLabel \/ best + SaveInterval <= Times(Losses)

FirstTorn ==
  keep > 1 /\ starts = 1 =>
    \A l \in OnDisk : ~disk[l].whole => best = NoLabel \/ \E m \in OnDisk : m < l /\ best <= m

Deep == FewLost /\ FirstTorn
-----------------------------------------------------------------------------
LEMMA DivisionFacts ==
  ASSUME NEW a \in Nat, NEW b \in Nat, b > 0
  PROVE  a \div b \in Int /\ a % b \in Nat /\ a % b < b /\ a = b * (a \div b) + (a % b)
OBVIOUS

LEMMA NextMultiple ==
  ASSUME NEW a \in Nat, NEW b \in Nat, b > 0, a % b = 0
  PROVE  (a + b) % b = 0
<1> DEFINE c == (a + b) % b
           d == (a \div b) + 1 - ((a + b) \div b)
<1>1. /\ a \div b \in Int /\ (a + b) \div b \in Int /\ c \in Nat /\ c < b
      /\ a = b * (a \div b) /\ a + b = b * ((a + b) \div b) + c
  BY DivisionFacts
<1>2. d \in Int
  BY <1>1
<1>3. c = b * d
  BY <1>1
<1> HIDE DEF c, d
<1>4. d = 0
  <2>1. d >= 1 => b * d >= b
    BY <1>2
  <2>2. d <= -1 => b * d < 0
    BY <1>2
  <2>3. QED
    BY <1>1, <1>2, <1>3, <2>1, <2>2
<1>5. c = 0
  BY <1>3, <1>4
<1>6. QED
  BY <1>5 DEF c

LEMMA SavedFacts ==
  ASSUME Base, Directory
  PROVE  /\ Saved \subseteq Label /\ OnDisk \subseteq Saved
         /\ \A l \in Saved : l \in Nat /\ l <= MaxSteps
         /\ \A l \in Saved : l \in OnDisk \/ \E i \in 1 .. Len(queue) : queue[i] = l /\ queue[i] # NoLabel
         /\ \A i \in 1 .. Len(queue) : queue[i] # NoLabel => queue[i] \in Saved
         /\ pc \in Running => \A l \in Saved : l <= globalStep
<1>1. Saved \subseteq Label /\ OnDisk \subseteq Saved
  BY Types DEF Base, Saved
<1>2. \A l \in Saved : l \in Nat /\ l <= MaxSteps
  BY <1>1, Constants DEF Label
<1>3. \A l \in Saved : l \in OnDisk \/ \E i \in 1 .. Len(queue) : queue[i] = l /\ queue[i] # NoLabel
  BY Types DEF Base, Saved
<1>4. \A i \in 1 .. Len(queue) : queue[i] # NoLabel => queue[i] \in Saved
  BY QueueTypes DEF Saved
<1>5. pc \in Running => \A l \in Saved : l <= globalStep
  BY <1>3, QueueTypes DEF Directory, StepOnTop
<1>6. QED
  BY <1>1, <1>2, <1>3, <1>4, <1>5

LEMMA SavedEmptyQueue ==
  ASSUME queue = <<>>
  PROVE  Saved = OnDisk
BY DEF Saved

LEMMA InitSpaced == Init => Spaced
<1> SUFFICES ASSUME Init PROVE Spaced
  OBVIOUS
<1>1. OnDisk = {} /\ queue = <<>> /\ Saved = {} /\ pc = "down" /\ starts = 0 /\ victims = {} /\ writing = NoLabel /\ best = NoLabel
  BY SavedEmptyQueue DEF Init, OnDisk
<1>2. QED
  BY <1>1 DEF Spaced, LabelsMultiple, Dense, FromZero, StepNear, FirstRun, Fresh, VictimsLeave, WritingOld

(* Steps by which no label becomes saved, and no file disappears. *)
LEMMA SameSaved ==
  ASSUME Spaced, Saved' = Saved, OnDisk \subseteq OnDisk'
  PROVE  LabelsMultiple' /\ Dense' /\ FromZero'
BY DEF Spaced, LabelsMultiple, Dense, FromZero

(* The trainer's steps between saves. *)
LEMMA QuietSpaced ==
  ASSUME Resume, Base, Base', Directory, Directory', Spaced,
         OptimizerStep \/ NextStep \/ FinalSave \/ List \/ SaveReturns \/ Join
  PROVE  Spaced'
<1>1. /\ UNCHANGED <<async, keep, starts, best, disk, queue, writing, worker>>
      /\ pc \in Running /\ pc' \in Running /\ pc' # "write" /\ pc' # "load" /\ pc' # "raised"
  BY DEF OptimizerStep, NextStep, FinalSave, List, SaveReturns, Join, Go, settings, saver, Running
<1>2. OnDisk' = OnDisk /\ Saved' = Saved
  BY <1>1 DEF OnDisk, Saved
<1>3. LabelsMultiple' /\ Dense' /\ FromZero'
  BY <1>2, SameSaved
<1>4. /\ globalStep \in Nat /\ globalStep' \in Nat /\ globalStep <= MaxSteps /\ MaxSteps \in Nat
      /\ SaveInterval \in Nat /\ SaveInterval > 0
      /\ \A l \in Saved : l \in Nat /\ l <= MaxSteps /\ l <= globalStep
  <2>1. globalStep' \in Nat
    BY Constants DEF Base, TypeOK
  <2>2. QED
    BY <1>1, <2>1, Types, Constants, SavedFacts DEF Base
<1>5. StepNear'
  <2>1. CASE OptimizerStep
    <3>1. /\ globalStep' = globalStep /\ pc = "train" /\ globalStep < MaxSteps
          /\ \/ globalStep % SaveInterval = 0 /\ pc' = "save"
             \/ globalStep % SaveInterval # 0 /\ pc' = "next"
      BY <2>1 DEF OptimizerStep, Go
    <3>2. (Saved = {} /\ globalStep = 0) \/ \E l \in Saved : globalStep <= l + SaveInterval
      BY <3>1 DEF Spaced, StepNear
    <3>3. CASE pc' = "save"
      BY <1>2, <3>1, <3>2, <3>3 DEF StepNear
    <3>4. CASE pc' = "next"
      <4>1. globalStep # 0
        <5>1. 0 % SaveInterval = 0
          BY <1>4
        <5>2. QED
          BY <3>1, <3>4, <5>1
      <4>2. PICK l \in Saved : globalStep <= l + SaveInterval
        BY <3>2, <4>1
      <4>3. globalStep # l + SaveInterval
        <5>1. SUFFICES ASSUME globalStep = l + SaveInterval PROVE FALSE
          OBVIOUS
        <5>2. l # MaxSteps /\ l \in Nat
          BY <1>4, <3>1, <5>1
        <5>3. l % SaveInterval = 0
          BY <5>2 DEF Spaced, LabelsMultiple
        <5>4. (l + SaveInterval) % SaveInterval = 0
          BY <1>4, <5>2, <5>3, NextMultiple
        <5>5. QED
          BY <3>1, <3>4, <5>1, <5>4
      <4>4. globalStep < l + SaveInterval
        BY <1>4, <4>2, <4>3
      <4>5. QED
        BY <1>2, <3>1, <3>4, <4>4 DEF StepNear
    <3>5. QED
      BY <3>1, <3>3, <3>4
  <2>2. CASE NextStep
    <3>1. globalStep' = globalStep + 1 /\ pc = "next" /\ pc' = "train"
      BY <2>2 DEF NextStep, Go
    <3>2. PICK l \in Saved : globalStep < l + SaveInterval
      BY <3>1 DEF Spaced, StepNear
    <3>3. globalStep' <= l + SaveInterval
      BY <1>4, <3>1, <3>2
    <3>4. QED
      BY <1>2, <3>1, <3>3 DEF StepNear
  <2>3. CASE FinalSave
    <3>1. globalStep' = globalStep /\ pc = "train" /\ pc' = "save" /\ globalStep = MaxSteps
      BY <1>4, <2>3 DEF FinalSave, Go
    <3>2. QED
      BY <1>2, <3>1 DEF Spaced, StepNear
  <2>4. CASE List
    <3>1. globalStep' = globalStep /\ pc = "list" /\ pc' = "remove"
      BY <2>4 DEF List, Go
    <3>2. QED
      BY <1>2, <3>1 DEF Spaced, StepNear
  <2>5. CASE SaveReturns
    <3>1. globalStep' = globalStep /\ pc = "remove" /\ pc' \in {"next", "close"}
      BY <2>5 DEF SaveReturns, Go
    <3>2. globalStep \in Saved /\ globalStep < globalStep + SaveInterval
      BY <1>4, <3>1 DEF Spaced, StepNear
    <3>3. QED
      BY <1>2, <3>1, <3>2 DEF StepNear
  <2>6. CASE Join
    <3>1. pc' = "done"
      BY <2>6 DEF Join, Go
    <3>2. QED
      BY <3>1 DEF StepNear
  <2>7. QED
    BY <2>1, <2>2, <2>3, <2>4, <2>5, <2>6
<1>6. FirstRun'
  <2>1. ASSUME starts = 1, pc' \in {"train", "save"} PROVE \A l \in Saved : l < globalStep'
    <3>1. CASE NextStep
      <4>1. globalStep' = globalStep + 1
        BY <3>1 DEF NextStep
      <4>2. QED
        BY <1>4, <4>1
    <3>2. CASE OptimizerStep \/ FinalSave
      BY <2>1, <3>2 DEF OptimizerStep, FinalSave, Go, Spaced, FirstRun
    <3>3. QED
      BY <2>1, <3>1, <3>2 DEF List, SaveReturns, Join, Go
  <2>2. QED
    BY <1>1, <1>2, <2>1 DEF Spaced, FirstRun
<1>7. Fresh'
  <2>1. starts' >= 1 /\ starts' \in Nat
    BY <1>1, Types DEF Base, RunCounts, Running
  <2>2. QED
    BY <1>1, <2>1 DEF Fresh
<1>8. VictimsLeave'
  <2>1. CASE List
    BY <1>1, <1>2, <2>1, ExcessLeavesEnough DEF List, VictimsLeave, Base
  <2>2. CASE ~List
    <3>1. victims' = victims
      BY <2>2 DEF OptimizerStep, NextStep, FinalSave, SaveReturns, Join
    <3>2. QED
      BY <1>1, <1>2, <3>1 DEF Spaced, VictimsLeave
  <2>3. QED
    BY <2>1, <2>2
<1>9. WritingOld'
  BY <1>1, <1>2 DEF Spaced, WritingOld
<1>10. QED
  BY <1>3, <1>5, <1>6, <1>7, <1>8, <1>9 DEF Spaced

(* Completing a file, the death and the end of the worker. *)
LEMMA CompletingSpaced ==
  ASSUME Resume, Base, Base', Directory, Directory', Spaced, Write \/ WorkerWrites \/ WorkerDies
  PROVE  Spaced'
<1>1. /\ UNCHANGED <<async, keep, starts, globalStep, queue, victims>>
      /\ writing' \in {writing, NoLabel} /\ pc \in Running
      /\ pc' = pc \/ (pc = "write" /\ pc' = "list")
      /\ OnDisk' = OnDisk
  <2>1. Write => pc \in Running /\ OnDisk' = OnDisk
    BY CompletedDirectory DEF Write, Go, Running
  <2>2. WorkerWrites => pc \in Running /\ OnDisk' = OnDisk
    BY CompletedDirectory, WorkerInRun DEF WorkerWrites
  <2>3. WorkerDies => pc \in Running /\ OnDisk' = OnDisk
    BY WorkerInRun DEF WorkerDies, OnDisk
  <2>4. QED
    BY <2>1, <2>2, <2>3 DEF Write, WorkerWrites, WorkerDies, Go, settings, saver
<1>2. Saved' = Saved
  BY <1>1 DEF Saved
<1>3. LabelsMultiple' /\ Dense' /\ FromZero'
  BY <1>1, <1>2, SameSaved
<1>4. StepNear' /\ FirstRun'
  BY <1>1, <1>2 DEF Spaced, StepNear, FirstRun
<1>5. Fresh'
  <2>1. starts' >= 1 /\ starts' \in Nat /\ pc' # "load" /\ pc' # "raised"
    BY <1>1, Types DEF Base, RunCounts, Running
  <2>2. QED
    BY <2>1 DEF Fresh
<1>6. VictimsLeave' /\ WritingOld'
  BY <1>1 DEF Spaced, VictimsLeave, WritingOld
<1>7. QED
  BY <1>3, <1>4, <1>5, <1>6 DEF Spaced

(* None is queued, or taken from the queue. *)
LEMMA NoneSpaced ==
  ASSUME Resume, Base, Base', Directory, Directory', Spaced, Close \/ WorkerStops
  PROVE  Spaced'
<1>1. /\ UNCHANGED <<async, keep, starts, globalStep, victims, writing, disk, best>>
      /\ pc \in Running /\ pc' \in {"join", "done"}
  BY WorkerInRun DEF Close, WorkerStops, Go, settings, Running, Base, Threads
<1>2. /\ \A i \in 1 .. Len(queue') : queue'[i] # NoLabel => i \in 1 .. Len(queue) /\ queue'[i] = queue[i]
      /\ \A i \in 1 .. Len(queue) : queue[i] # NoLabel => i \in 1 .. Len(queue') /\ queue'[i] = queue[i]
      /\ Len(queue') \in Nat /\ Len(queue) \in Nat
      /\ Len(queue') = 0 \/ \A i \in 1 .. Len(queue) : i \in 1 .. Len(queue') /\ queue'[i] = queue[i]
  <2> Len(queue) \in Nat
    BY QueueTypes
  <2>1. CASE Close /\ async
    <3>1. queue' = Append(queue, NoLabel) /\ NoLabel \in Label \cup {NoLabel}
      BY <2>1 DEF Close
    <3>2. /\ Len(queue) \in Nat /\ Len(queue') = Len(queue) + 1 /\ queue'[Len(queue) + 1] = NoLabel
          /\ \A i \in 1 .. Len(queue) : queue'[i] = queue[i]
      BY <3>1, QueueTypes, AppendFacts
    <3>3. \A i \in 1 .. Len(queue') : i \in 1 .. Len(queue) \/ i = Len(queue) + 1
      BY <3>2
    <3>4. \A i \in 1 .. Len(queue) : i \in 1 .. Len(queue')
      BY <3>2
    <3>5. QED
      BY <3>2, <3>3, <3>4
  <2>2. CASE Close /\ ~async
    BY <2>2 DEF Close
  <2>3. CASE WorkerStops
    <3>1. queue # <<>> /\ Head(queue) = NoLabel /\ queue' = <<>>
      BY <2>3 DEF WorkerStops, Base, Threads
    <3>2. Head(queue) = queue[1] /\ 1 \in 1 .. Len(queue)
      BY <3>1, QueueTypes, TailFacts
    <3>3. Len(queue) = 1
      BY <3>1, <3>2 DEF Base, Threads
    <3>4. \A i \in 1 .. Len(queue) : i = 1
      BY <3>3
    <3>5. QED
      BY <3>1, <3>2, <3>4
  <2>4. QED
    BY <2>1, <2>2, <2>3
<1>3. OnDisk' = OnDisk /\ Saved' = Saved
  <2>1. OnDisk' = OnDisk
    BY <1>1 DEF OnDisk
  <2>2. \A l \in Label : (\E i \in 1 .. Len(queue) : queue[i] = l) <=> (\E i \in 1 .. Len(queue') : queue'[i] = l)
    BY <1>2, Types DEF Base
  <2>3. QED
    BY <2>1, <2>2 DEF Saved
<1>4. LabelsMultiple' /\ Dense' /\ FromZero'
  BY <1>3, SameSaved
<1>5. StepNear'
  BY <1>1 DEF StepNear
<1>6. FirstRun'
  <2>1. ASSUME starts = 1, NEW i \in 1 .. Len(queue'), NEW j \in 1 .. Len(queue'), i < j, queue'[j] # NoLabel
        PROVE  queue'[i] < queue'[j]
    <3>1. j \in 1 .. Len(queue) /\ queue'[j] = queue[j] /\ i \in 1 .. Len(queue)
      BY <1>2, <2>1
    <3>2. queue'[i] = queue[i]
      BY <1>2, <2>1, <3>1
    <3>3. QED
      BY <2>1, <3>1, <3>2 DEF Spaced, FirstRun
  <2>2. ASSUME starts = 1, NEW l \in OnDisk, NEW i \in 1 .. Len(queue'), queue'[i] # NoLabel
        PROVE  l < queue'[i]
    BY <1>2, <2>2 DEF Spaced, FirstRun
  <2>3. QED
    BY <1>1, <1>3, <2>1, <2>2 DEF FirstRun
<1>7. Fresh'
  <2>1. starts' >= 1 /\ starts' \in Nat
    BY <1>1, Types DEF Base, RunCounts, Running
  <2>2. QED
    BY <1>1, <2>1 DEF Fresh
<1>8. VictimsLeave' /\ WritingOld'
  BY <1>1, <1>3 DEF Spaced, VictimsLeave, WritingOld
<1>9. QED
  BY <1>4, <1>5, <1>6, <1>7, <1>8 DEF Spaced

(* A label is saved, on disk or in the queue. *)
LEMMA OneMoreSaved ==
  ASSUME Base, Directory, Spaced, pc = "save", Saved' = Saved \cup {globalStep}, OnDisk \subseteq OnDisk'
  PROVE  LabelsMultiple' /\ Dense' /\ FromZero'
<1>1. /\ globalStep \in Nat /\ SaveInterval \in Nat
      /\ \A l \in Saved : l \in Nat /\ l <= globalStep
  BY Types, Constants, SavedFacts DEF Base, Spaced, StepNear, Running
<1>2. (Saved = {} /\ globalStep = 0) \/ \E l \in Saved : globalStep <= l + SaveInterval
  BY DEF Spaced, StepNear
<1>3. globalStep % SaveInterval = 0 \/ globalStep = MaxSteps
  BY DEF Spaced, StepNear
<1>4. LabelsMultiple'
  BY <1>3 DEF Spaced, LabelsMultiple
<1>5. Dense'
  <2> SUFFICES ASSUME NEW l \in Saved', NEW m \in Saved', m < l
               PROVE  \E k \in Saved' : k < l /\ l <= k + SaveInterval
    BY DEF Dense
  <2>1. CASE l \in Saved
    <3>1. m \in Saved
      BY <1>1, <2>1
    <3>2. QED
      BY <2>1, <3>1 DEF Spaced, Dense
  <2>2. CASE l \notin Saved
    <3>1. l = globalStep /\ m \in Saved
      BY <1>1, <2>2
    <3>2. PICK k \in Saved : globalStep <= k + SaveInterval
      BY <1>2, <3>1
    <3>3. k \in Nat /\ k <= globalStep /\ k # globalStep
      BY <1>1, <2>2, <3>1, <3>2
    <3>4. k < globalStep
      BY <1>1, <3>3
    <3>5. QED
      BY <3>1, <3>2, <3>4
  <2>3. QED
    BY <2>1, <2>2
<1>6. FromZero'
  BY <1>2 DEF Spaced, FromZero
<1>7. QED
  BY <1>4, <1>5, <1>6

LEMMA EnqueueSpaced ==
  ASSUME Resume, Base, Base', Directory, Directory', Spaced, Enqueue
  PROVE  Spaced'
<1>1. /\ UNCHANGED <<async, keep, globalStep, victims, writing, worker, disk, starts, best>>
      /\ pc = "save" /\ pc' = "list" /\ queue' = Append(queue, globalStep)
  BY DEF Enqueue, Go, settings, saver
<1>2. globalStep \in Label /\ globalStep \in Nat /\ OnDisk' = OnDisk /\ globalStep # NoLabel
  BY <1>1, Types DEF Base, OnDisk
<1>3. /\ Len(queue) \in Nat /\ Len(queue') = Len(queue) + 1 /\ queue'[Len(queue) + 1] = globalStep
      /\ \A i \in 1 .. Len(queue) : queue'[i] = queue[i]
  BY <1>1, <1>2, QueueTypes, AppendFacts
<1>4. /\ \A i \in 1 .. Len(queue') : i \in 1 .. Len(queue) \/ i = Len(queue) + 1
      /\ \A i \in 1 .. Len(queue) : i \in 1 .. Len(queue')
      /\ Len(queue) + 1 \in 1 .. Len(queue')
  BY <1>3
<1>5. Saved' = Saved \cup {globalStep}
  <2>1. \A l \in Label : (\E i \in 1 .. Len(queue') : queue'[i] = l)
                          <=> ((\E i \in 1 .. Len(queue) : queue[i] = l) \/ l = globalStep)
    BY <1>3, <1>4
  <2>2. QED
    BY <1>2, <2>1 DEF Saved
<1>6. LabelsMultiple' /\ Dense' /\ FromZero'
  BY <1>1, <1>2, <1>5, OneMoreSaved
<1>7. StepNear'
  BY <1>1, <1>5 DEF StepNear
<1>8. FirstRun'
  <2>1. ASSUME starts = 1 PROVE \A l \in Saved : l < globalStep
    BY <1>1, <2>1 DEF Spaced, FirstRun
  <2>2. ASSUME starts = 1, NEW i \in 1 .. Len(queue'), NEW j \in 1 .. Len(queue'), i < j, queue'[j] # NoLabel
        PROVE  queue'[i] < queue'[j]
    <3>1. i \in 1 .. Len(queue)
      BY <1>3, <2>2
    <3>2. CASE j \in 1 .. Len(queue)
      BY <1>3, <2>2, <3>1, <3>2 DEF Spaced, FirstRun
    <3>3. CASE j = Len(queue) + 1
      <4>1. queue[i] # NoLabel
        BY <1>1, <3>1 DEF Base, Threads
      <4>2. queue[i] < globalStep
        BY <2>1, <2>2, <3>1, <4>1, SavedFacts
      <4>3. QED
        BY <1>3, <3>1, <3>3, <4>2
    <3>4. QED
      BY <1>4, <3>2, <3>3
  <2>3. ASSUME starts = 1, NEW l \in OnDisk, NEW i \in 1 .. Len(queue'), queue'[i] # NoLabel
        PROVE  l < queue'[i]
    <3>1. CASE i \in 1 .. Len(queue)
      BY <1>3, <2>3, <3>1 DEF Spaced, FirstRun
    <3>2. CASE i = Len(queue) + 1
      BY <1>3, <2>1, <2>3, <3>2, SavedFacts
    <3>3. QED
      BY <1>4, <3>1, <3>2
  <2>4. QED
    BY <1>1, <1>2, <2>2, <2>3 DEF FirstRun
<1>9. Fresh'
  <2>1. starts' >= 1 /\ starts' \in Nat
    BY <1>1, Types DEF Base, RunCounts
  <2>2. QED
    BY <1>1, <2>1 DEF Fresh
<1>10. VictimsLeave' /\ WritingOld'
  BY <1>1, <1>2 DEF Spaced, VictimsLeave, WritingOld
<1>11. QED
  BY <1>6, <1>7, <1>8, <1>9, <1>10 DEF Spaced

LEMMA OpenSpaced ==
  ASSUME Resume, Base, Base', Directory, Directory', Spaced, Open
  PROVE  Spaced'
<1>1. /\ UNCHANGED <<async, keep, globalStep, victims, queue, writing, worker, starts, best>>
      /\ pc = "save" /\ pc' = "write" /\ disk' = Put(globalStep, Torn) /\ ~async
  BY DEF Open, Go, settings, saver
<1>2. OnDisk' = OnDisk \cup {globalStep} /\ queue = <<>> /\ writing = NoLabel /\ victims = {}
  BY <1>1, PutFacts DEF Base, Threads, Directory, VictimsOldest
<1>3. Saved' = Saved \cup {globalStep}
  BY <1>1, <1>2, SavedEmptyQueue DEF Saved
<1>4. LabelsMultiple' /\ Dense' /\ FromZero'
  BY <1>1, <1>2, <1>3, OneMoreSaved
<1>5. StepNear'
  BY <1>1, <1>3 DEF StepNear
<1>6. FirstRun' /\ VictimsLeave' /\ WritingOld'
  BY <1>1, <1>2 DEF FirstRun, VictimsLeave, WritingOld
<1>7. Fresh'
  <2>1. starts' >= 1 /\ starts' \in Nat
    BY <1>1, Types DEF Base, RunCounts
  <2>2. QED
    BY <1>1, <2>1 DEF Fresh
<1>8. QED
  BY <1>4, <1>5, <1>6, <1>7 DEF Spaced

LEMMA WorkerOpensSpaced ==
  ASSUME Resume, Base, Base', Directory, Directory', Spaced, WorkerOpens
  PROVE  Spaced'
<1>1. /\ UNCHANGED <<async, keep, pc, globalStep, victims, worker, starts, best>>
      /\ worker = "runs" /\ writing = NoLabel /\ queue # <<>> /\ Head(queue) # NoLabel
      /\ queue' = Tail(queue) /\ writing' = Head(queue) /\ disk' = Put(Head(queue), Torn)
  BY DEF WorkerOpens, settings
<1>2. pc \in Running /\ async /\ pc # "write"
  BY <1>1, WorkerInRun DEF Base, Threads
<1>3. /\ Len(queue') = Len(queue) - 1 /\ Len(queue) \in Nat
      /\ \A i \in 1 .. Len(queue') : queue'[i] = queue[i + 1] /\ i + 1 \in 1 .. Len(queue)
      /\ Head(queue) = queue[1] /\ 1 \in 1 .. Len(queue)
  BY <1>1, QueueTypes, TailFacts
<1>4. queue[1] \in Label /\ queue[1] \in Nat /\ OnDisk' = OnDisk \cup {queue[1]}
  BY <1>1, <1>3, QueueTypes, PutFacts
<1>5. Saved' = Saved
  <2>1. \A l \in Label : (\E i \in 1 .. Len(queue) : queue[i] = l)
                          <=> (l = queue[1] \/ \E i \in 1 .. Len(queue') : queue'[i] = l)
    <3>1. ASSUME NEW i \in 1 .. Len(queue), i # 1
          PROVE  i - 1 \in 1 .. Len(queue') /\ queue'[i - 1] = queue[i]
      <4>1. i - 1 \in 1 .. Len(queue') /\ (i - 1) + 1 = i
        BY <1>3, <3>1
      <4>2. QED
        BY <1>3, <4>1
    <3>2. QED
      BY <1>3, <3>1
  <2>2. QED
    BY <1>4, <2>1 DEF Saved
<1>6. LabelsMultiple' /\ Dense' /\ FromZero'
  BY <1>4, <1>5, SameSaved
<1>7. StepNear'
  BY <1>1, <1>5 DEF Spaced, StepNear
<1>8. FirstRun'
  <2>1. ASSUME starts = 1, NEW i \in 1 .. Len(queue'), NEW j \in 1 .. Len(queue'), i < j, queue'[j] # NoLabel
        PROVE  queue'[i] < queue'[j]
    <3>1. /\ queue'[i] = queue[i + 1] /\ i + 1 \in 1 .. Len(queue)
          /\ queue'[j] = queue[j + 1] /\ j + 1 \in 1 .. Len(queue) /\ i + 1 < j + 1
      BY <1>3, <2>1
    <3>2. QED
      BY <2>1, <3>1 DEF Spaced, FirstRun
  <2>2. ASSUME starts = 1, NEW l \in OnDisk', NEW i \in 1 .. Len(queue'), queue'[i] # NoLabel
        PROVE  l < queue'[i]
    <3>1. queue'[i] = queue[i + 1] /\ i + 1 \in 1 .. Len(queue) /\ 1 < i + 1
      BY <1>3
    <3>2. CASE l = queue[1]
      BY <1>3, <2>2, <3>1, <3>2 DEF Spaced, FirstRun
    <3>3. CASE l \in OnDisk
      BY <2>2, <3>1, <3>3 DEF Spaced, FirstRun
    <3>4. QED
      BY <1>4, <2>2, <3>2, <3>3
  <2>3. QED
    BY <1>1, <1>5, <2>1, <2>2 DEF Spaced, FirstRun
<1>9. Fresh'
  <2>1. starts' >= 1 /\ starts' \in Nat
    BY <1>1, <1>2, Types DEF Base, RunCounts, Running
  <2>2. QED
    BY <1>1, <1>2, <2>1 DEF Fresh, Running
<1>10. VictimsLeave'
  <2>1. OnDisk \ victims \subseteq OnDisk' \ victims
    BY <1>4
  <2>2. /\ IsFiniteSet(OnDisk' \ victims) /\ Cardinality(OnDisk' \ victims) \in Nat
        /\ Cardinality(OnDisk \ victims) \in Nat /\ keep \in Nat
    <3>1. OnDisk' \ victims \in SUBSET OnDisk'
      OBVIOUS
    <3>2. IsFiniteSet(OnDisk')
      BY <1>4, DiskFinite, FS_AddElement DEF Base
    <3>3. QED
      BY <3>1, <3>2, FS_Subset, FS_CardinalityType, DiskFinite, Types DEF Base
  <2>3. Cardinality(OnDisk \ victims) <= Cardinality(OnDisk' \ victims)
    BY <2>1, <2>2, FS_Subset
  <2>4. victims # {} => Cardinality(OnDisk \ victims) >= keep
    BY DEF Spaced, VictimsLeave
  <2>5. victims # {} => Cardinality(OnDisk' \ victims) >= keep
    BY <2>2, <2>3, <2>4
  <2>6. QED
    BY <1>1, <2>5 DEF VictimsLeave
<1>11. WritingOld'
  <2>1. queue[1] \in OnDisk' /\ queue[1] <= queue[1] /\ writing' = queue[1] /\ pc' # "write"
    BY <1>1, <1>2, <1>3, <1>4
  <2>2. QED
    BY <2>1 DEF WritingOld
<1>12. QED
  BY <1>6, <1>7, <1>8, <1>9, <1>10, <1>11 DEF Spaced

(* The file to be removed is the oldest of all, and a newer one stays. *)
LEMMA OldestVictim ==
  ASSUME Base, Directory, Spaced, victims # {}
  PROVE  /\ Min(victims) \in victims /\ Min(victims) \in OnDisk /\ Min(victims) \in Nat
         /\ \A l \in Saved : Min(victims) <= l
         /\ \E n \in OnDisk \ victims : Min(victims) < n
         /\ \A i \in 1 .. Len(queue) : queue[i] # NoLabel => Min(victims) < queue[i]
<1> DEFINE v == Min(victims)
<1>1. v \in victims /\ \A w \in victims : v <= w
  <2>1. victims \in SUBSET Nat
    BY Constants DEF Base, TypeOK, Label
  <2>2. QED
    BY <2>1, MinFacts
<1> HIDE DEF v
<1>2. v \in OnDisk /\ v \in Nat /\ \A l \in OnDisk : l \in Nat
  BY <1>1, Types DEF Base, Directory, VictimsOldest
<1>3. \A l \in OnDisk : v <= l
  <2> SUFFICES ASSUME NEW l \in OnDisk, ~(v <= l) PROVE FALSE
    OBVIOUS
  <2>1. l < v /\ l \in Nat
    BY <1>2
  <2>2. l \in victims
    BY <1>1, <2>1 DEF Directory, VictimsOldest
  <2>3. QED
    BY <1>1, <2>2
<1>4. PICK n \in OnDisk \ victims : TRUE
  <2>1. Cardinality(OnDisk \ victims) >= keep /\ keep \in Nat /\ keep >= 1
    BY Types DEF Spaced, VictimsLeave, Base
  <2>2. OnDisk \ victims # {}
    BY <2>1, FS_EmptySet
  <2>3. QED
    BY <2>2
<1>5. v < n
  BY <1>1, <1>2, <1>3
<1>6. \A i \in 1 .. Len(queue) : queue[i] # NoLabel => v < queue[i]
  <2> SUFFICES ASSUME NEW i \in 1 .. Len(queue), queue[i] # NoLabel PROVE v < queue[i]
    OBVIOUS
  <2>1. queue[i] \in Nat /\ n <= queue[i] /\ n \in Nat
    BY <1>2, QueueTypes DEF Directory, QueueOnTop
  <2>2. QED
    BY <1>2, <1>5, <2>1
<1>7. \A l \in Saved : v <= l
  <2> SUFFICES ASSUME NEW l \in Saved PROVE v <= l
    OBVIOUS
  <2>1. CASE l \in OnDisk
    BY <1>3, <2>1
  <2>2. CASE \E i \in 1 .. Len(queue) : queue[i] = l /\ queue[i] # NoLabel
    BY <1>2, <1>6, <2>2, SavedFacts
  <2>3. QED
    BY <2>1, <2>2, SavedFacts
<1>8. QED
  BY <1>1, <1>2, <1>4, <1>5, <1>6, <1>7 DEF v

LEMMA RemoveSpaced ==
  ASSUME Resume, Base, Base', Directory, Directory', Spaced, Remove
  PROVE  Spaced'
<1> DEFINE v == Min(victims)
<1>1. /\ UNCHANGED <<async, keep, pc, globalStep, queue, writing, worker, starts, best>>
      /\ pc = "remove" /\ victims # {} /\ disk' = Without({v}) /\ victims' = victims \ {v}
  BY DEF Remove, settings, saver
<1>2. /\ v \in victims /\ v \in OnDisk /\ v \in Nat /\ \A l \in Saved : v <= l
      /\ \A i \in 1 .. Len(queue) : queue[i] # NoLabel => v < queue[i]
  BY <1>1, OldestVictim
<1>3. PICK n \in OnDisk \ victims : v < n
  BY <1>1, OldestVictim
<1>4. OnDisk' = OnDisk \ {v}
  BY <1>1, WithoutFacts
<1> HIDE DEF v
<1>5. Saved' = Saved \ {v}
  <2>1. \A l \in Label : (\E i \in 1 .. Len(queue) : queue[i] = l) => l # v
    BY <1>2, Types DEF Base
  <2>2. QED
    BY <1>1, <1>4, <2>1 DEF Saved
<1>6. n \in OnDisk' /\ n \in Saved' /\ v # n
  <2>1. n # v
    BY <1>2, <1>3
  <2>2. QED
    BY <1>3, <1>4, <1>5, <2>1 DEF Saved
<1>7. LabelsMultiple' /\ FromZero'
  BY <1>5, <1>6 DEF Spaced, LabelsMultiple, FromZero
<1>8. Dense'
  <2> SUFFICES ASSUME NEW l \in Saved', NEW m \in Saved', m < l
               PROVE  \E k \in Saved' : k < l /\ l <= k + SaveInterval
    BY DEF Dense
  <2>1. PICK k \in Saved : k < l /\ l <= k + SaveInterval
    BY <1>5 DEF Spaced, Dense
  <2>2. CASE k = v
    <3>1. m \in Nat /\ v <= m /\ l \in Nat /\ v \in Nat /\ SaveInterval \in Nat
      BY <1>2, <1>5, SavedFacts, Constants
    <3>2. l <= m + SaveInterval
      BY <2>1, <2>2, <3>1
    <3>3. QED
      BY <3>2
  <2>3. QED
    BY <1>5, <2>1, <2>2
<1>9. StepNear'
  <2>1. globalStep \in Saved
    BY <1>1 DEF Spaced, StepNear
  <2>2. n <= globalStep /\ n \in Nat /\ globalStep \in Nat
    BY <1>1, <1>3, Types, SavedFacts DEF Base, Running
  <2>3. globalStep # v
    BY <1>2, <1>3, <2>2
  <2>4. QED
    BY <1>1, <1>5, <2>1, <2>3 DEF StepNear
<1>10. FirstRun' /\ Fresh'
  BY <1>1, <1>4, <1>5 DEF Spaced, FirstRun, Fresh
<1>11. VictimsLeave'
  <2>1. OnDisk' \ victims' = OnDisk \ victims
    BY <1>1, <1>2, <1>4
  <2>2. QED
    BY <1>1, <2>1 DEF Spaced, VictimsLeave
<1>12. WritingOld'
  <2>1. ASSUME writing # NoLabel
        PROVE  \E m \in OnDisk' : writing <= m
    <3>1. PICK m \in OnDisk : writing <= m
      BY <2>1 DEF Spaced, WritingOld
    <3>2. CASE m = v
      <4>1. writing \in Nat /\ n \in Nat
        BY <1>3, <2>1, Types, Constants DEF Base, TypeOK, Label
      <4>2. writing <= n
        BY <1>2, <1>3, <3>1, <3>2, <4>1
      <4>3. QED
        BY <1>6, <4>2
    <3>3. CASE m # v
      BY <1>4, <3>1, <3>3
    <3>4. QED
      BY <3>2, <3>3
  <2>2. QED
    BY <1>1, <2>1 DEF WritingOld
<1>13. QED
  BY <1>7, <1>8, <1>9, <1>10, <1>11, <1>12 DEF Spaced

(* When the process ends, what was only queued is forgotten: the files are   *)
(* the older part of what was saved, so there is no gap between them.       *)
LEMMA DenseFiles ==
  ASSUME Base, Directory, Spaced
  PROVE  \A l \in OnDisk : (\E m \in OnDisk : m < l) => \E m \in OnDisk : m < l /\ l <= m + SaveInterval
<1> SUFFICES ASSUME NEW l \in OnDisk, NEW k \in OnDisk, k < l
             PROVE  \E m \in OnDisk : m < l /\ l <= m + SaveInterval
  OBVIOUS
<1>1. PICK m \in Saved : m < l /\ l <= m + SaveInterval
  BY SavedFacts DEF Spaced, Dense
<1>2. CASE m \in OnDisk
  BY <1>1, <1>2
<1>3. ASSUME NEW i \in 1 .. Len(queue), queue[i] = m, queue[i] # NoLabel
      PROVE  FALSE
  <2>1. l <= m /\ l \in Nat /\ m \in Nat
    BY <1>3, SavedFacts DEF Directory, QueueOnTop
  <2>2. QED
    BY <1>1, <2>1
<1>4. QED
  BY <1>2, <1>3, SavedFacts

LEMMA ForgetSpaced ==
  ASSUME Resume, Base, Base', Directory, Directory', Spaced, Crash \/ LoadRaises \/ Start
  PROVE  Spaced'
<1>1. UNCHANGED <<async, keep, disk, best>> /\ OnDisk' = OnDisk
  BY DEF Crash, LoadRaises, Start, settings, OnDisk
<1>2. /\ pc' \in {"down", "raised", "load"} /\ queue' = <<>> /\ writing' = NoLabel
      /\ victims' = {}
  <2>1. pc = "done" => writing = NoLabel
    BY DEF Base, Threads
  <2>2. QED
    BY <2>1 DEF Crash, LoadRaises, Start, Go, Base, Threads, Directory, VictimsOldest
<1>3. Saved' = OnDisk
  BY <1>1, <1>2 DEF Saved
<1>4. Dense'
  BY <1>3, DenseFiles DEF Dense
<1>5. LabelsMultiple' /\ FromZero'
  BY <1>1, <1>3, SavedFacts DEF Spaced, LabelsMultiple, FromZero
<1>6. StepNear' /\ FirstRun' /\ VictimsLeave' /\ WritingOld'
  BY <1>2 DEF StepNear, FirstRun, VictimsLeave, WritingOld
<1>7. starts \in Nat
  BY Types DEF Base
<1>8. Fresh'
  <2>1. CASE Crash
    <3>1. pc' = "down" /\ starts' = starts /\ starts >= 1
      BY <1>7, <2>1 DEF Crash, Base, RunCounts
    <3>2. QED
      BY <1>7, <3>1 DEF Fresh
  <2>2. CASE LoadRaises
    <3>1. pc = "load" /\ pc' = "raised" /\ starts' = starts /\ starts >= 1 /\ OnDisk # {}
      BY <2>2 DEF LoadRaises, Go, Base, RunCounts
    <3>2. starts >= 2
      BY <1>7, <3>1 DEF Spaced, Fresh
    <3>3. QED
      BY <1>7, <3>1, <3>2 DEF Fresh
  <2>3. CASE Start
    <3>1. pc' = "load" /\ starts' = starts + 1
      BY <2>3 DEF Start
    <3>2. starts' = 1 => starts = 0
      BY <1>7, <3>1
    <3>3. starts' # 0
      BY <1>7, <3>1
    <3>4. QED
      BY <1>1, <3>1, <3>2, <3>3 DEF Spaced, Fresh
  <2>4. QED
    BY <2>1, <2>2, <2>3
<1>9. QED
  BY <1>4, <1>5, <1>6, <1>8 DEF Spaced

LEMMA RemoveByHandSpaced ==
  ASSUME Resume, Base, Base', Directory, Directory', Spaced, RemoveByHand
  PROVE  Spaced'
<1> DEFINE x == Max(OnDisk)
<1>1. /\ UNCHANGED <<async, keep, queue, best, starts>> /\ disk' = Without({x})
      /\ pc = "raised" /\ pc' = "down" /\ queue = <<>> /\ victims' = {} /\ writing' = NoLabel
  BY DEF RemoveByHand, Go, Directory, VictimsOldest, settings, saver, Base, Threads
<1>2. OnDisk' = OnDisk \ {x} /\ Saved = OnDisk /\ Saved' = OnDisk'
  BY <1>1, WithoutFacts, SavedEmptyQueue DEF Saved
<1>3. \A l \in OnDisk : l <= x /\ x \in Nat /\ l \in Nat
  BY MaxFacts, Types DEF Base
<1> HIDE DEF x
<1>4. Dense'
  <2> SUFFICES ASSUME NEW l \in OnDisk', NEW m \in OnDisk', m < l
               PROVE  \E k \in OnDisk' : k < l /\ l <= k + SaveInterval
    BY <1>2 DEF Dense
  <2>1. PICK k \in OnDisk : k < l /\ l <= k + SaveInterval
    BY <1>2, DenseFiles
  <2>2. k # x
    BY <1>2, <1>3, <2>1
  <2>3. QED
    BY <1>2, <2>1, <2>2
<1>5. LabelsMultiple' /\ FromZero'
  BY <1>2 DEF Spaced, LabelsMultiple, FromZero
<1>6. StepNear' /\ FirstRun' /\ VictimsLeave' /\ WritingOld'
  BY <1>1 DEF StepNear, FirstRun, VictimsLeave, WritingOld
<1>7. Fresh'
  <2>1. starts >= 2 /\ starts \in Nat
    BY <1>1, Types DEF Base, Spaced, Fresh
  <2>2. QED
    BY <1>1, <2>1 DEF Fresh
<1>8. QED
  BY <1>4, <1>5, <1>6, <1>7 DEF Spaced

LEMMA LoadSpaced ==
  ASSUME Resume, Base, Base', Directory, Directory', Spaced, Load
  PROVE  Spaced'
<1>1. /\ UNCHANGED <<async, keep, victims, queue, writing, worker, disk, starts, best>>
      /\ pc = "load" /\ pc' = "train" /\ queue = <<>>
  BY DEF Load, Go, settings, saver, Base, Threads
<1>2. OnDisk' = OnDisk /\ Saved = OnDisk /\ Saved' = OnDisk
  BY <1>1, SavedEmptyQueue DEF OnDisk, Saved
<1>3. LabelsMultiple' /\ Dense' /\ FromZero'
  BY <1>2, SameSaved
<1>4. StepNear'
  <2>1. CASE OnDisk = {}
    <3>1. globalStep' = globalStep /\ globalStep = 0
      BY <1>1, <2>1 DEF Load, Base, RunCounts
    <3>2. QED
      BY <1>1, <1>2, <2>1, <3>1 DEF StepNear
  <2>2. CASE OnDisk # {}
    <3>1. globalStep' = Max(OnDisk) /\ Max(OnDisk) \in OnDisk /\ Max(OnDisk) \in Nat
      BY <2>2, MaxFacts, Types DEF Base, Load
    <3>2. Max(OnDisk) <= Max(OnDisk) + SaveInterval
      BY <3>1, Constants
    <3>3. QED
      BY <1>1, <1>2, <3>1, <3>2 DEF StepNear
  <2>3. QED
    BY <2>1, <2>2
<1>5. FirstRun'
  <2>1. starts = 1 => OnDisk = {}
    BY <1>1 DEF Spaced, Fresh
  <2>2. QED
    BY <1>1, <1>2, <2>1 DEF FirstRun
<1>6. Fresh'
  <2>1. starts >= 1 /\ starts \in Nat
    BY <1>1, Types DEF Base, RunCounts
  <2>2. QED
    BY <1>1, <2>1 DEF Fresh
<1>7. VictimsLeave' /\ WritingOld'
  BY <1>1, <1>2 DEF Spaced, VictimsLeave, WritingOld
<1>8. QED
  BY <1>3, <1>4, <1>5, <1>6, <1>7 DEF Spaced

LEMMA NextSpaced ==
  ASSUME Resume, Base, Base', Directory, Directory', Spaced, [Next]_vars
  PROVE  Spaced'
<1>1. CASE UNCHANGED vars
  BY <1>1 DEF vars, Spaced, LabelsMultiple, Dense, FromZero, StepNear, FirstRun, Fresh, VictimsLeave,
              WritingOld, Saved, OnDisk
<1>2. CASE Trainer
  BY <1>2, LoadSpaced, ForgetSpaced, QuietSpaced, EnqueueSpaced, OpenSpaced, CompletingSpaced,
     RemoveSpaced, NoneSpaced DEF Trainer
<1>3. CASE Worker
  BY <1>3, WorkerOpensSpaced, CompletingSpaced, NoneSpaced DEF Worker
<1>4. QED
  BY <1>1, <1>2, <1>3, ForgetSpaced, RemoveByHandSpaced DEF Next
-----------------------------------------------------------------------------
LEMMA TimesFacts ==
  /\ \A n \in Nat : Times(n) \in Nat /\ Times(n + 1) = Times(n) + SaveInterval
  /\ \A n, m \in Nat : n <= m => Times(n) <= Times(m)
<1>1. SaveInterval \in Nat
  BY Constants
<1>2. \A n \in Nat : Times(n) \in Nat /\ Times(n + 1) = Times(n) + SaveInterval
  BY <1>1 DEF Times
<1>3. \A n, m \in Nat : n <= m => Times(n) <= Times(m)
  <2> SUFFICES ASSUME NEW n \in Nat, NEW m \in Nat, n <= m
               PROVE  n * SaveInterval <= m * SaveInterval
    BY DEF Times
  <2>1. m - n \in Nat /\ m = n + (m - n)
    OBVIOUS
  <2>2. m * SaveInterval = n * SaveInterval + (m - n) * SaveInterval /\ (m - n) * SaveInterval \in Nat
    BY <1>1, <2>1
  <2>3. QED
    BY <1>1, <2>2
<1>4. QED
  BY <1>2, <1>3

LEMMA LossFacts ==
  ASSUME Base
  PROVE  /\ Losses \in Nat /\ Times(Losses) \in Nat
         /\ starts >= 1 => Losses <= starts - 1
         /\ pc # "down" \/ ~AllWhole => (starts < 2 /\ Losses = 0) \/ (starts >= 2 /\ Losses = starts - 2)
         /\ starts < 2 => Losses = 0
<1>1. starts \in Nat
  BY Types DEF Base
<1>2. /\ Losses \in Nat
      /\ starts >= 1 => Losses <= starts - 1
      /\ pc # "down" \/ ~AllWhole => (starts < 2 /\ Losses = 0) \/ (starts >= 2 /\ Losses = starts - 2)
      /\ starts < 2 => Losses = 0
  BY <1>1 DEF Losses
<1>3. QED
  BY <1>2, TimesFacts

(* More may be lost as more starts are made. *)
LEMMA MoreLosses ==
  ASSUME Base, Base', FewLost, UNCHANGED <<keep, best, disk>>, starts <= starts', Losses <= Losses'
  PROVE  FewLost'
<1> SUFFICES ASSUME keep > 1, starts' <= keep
             PROVE  /\ OnDisk # {} => 0 \in OnDisk \/ Cardinality(OnDisk) >= keep - Losses'
                    /\ OnDisk # {} => \E l \in OnDisk : best <= l + Times(Losses)'
                    /\ OnDisk = {} => best = NoLabel \/ best + SaveInterval <= Times(Losses)'
  BY DEF FewLost, OnDisk
<1>1. /\ keep \in Nat /\ starts \in Nat /\ starts' \in Nat /\ SaveInterval \in Nat
      /\ \A l \in OnDisk : l \in Nat
      /\ Cardinality(OnDisk) \in Nat
  <2>1. starts' \in Nat
    BY Constants DEF Base, TypeOK
  <2>2. QED
    BY <2>1, Types, Constants, DiskFinite DEF Base
<1>2. /\ Losses \in Nat /\ Losses' \in Nat /\ Times(Losses) \in Nat
      /\ Times(Losses)' \in Nat /\ Times(Losses) <= Times(Losses)'
  <2>1. Losses \in Nat /\ Times(Losses) \in Nat
    BY LossFacts
  <2>2. Losses' \in Nat
    <3>1. starts' \in Nat
      BY <1>1
    <3>2. \A n \in Int : (IF n > 0 THEN n ELSE 0) \in Nat
      OBVIOUS
    <3>3. starts' - 1 \in Int /\ starts' - 2 \in Int
      BY <3>1
    <3>4. (IF (pc = "down" /\ AllWhole)' THEN starts' - 1 ELSE starts' - 2) \in Int
      BY <3>3
    <3>5. QED
      BY <3>2, <3>4 DEF Losses
  <2>3. Times(Losses') \in Nat /\ Times(Losses) <= Times(Losses')
    BY <2>1, <2>2, TimesFacts
  <2>4. Times(Losses)' = Times(Losses')
    BY DEF Times
  <2>5. QED
    BY <2>1, <2>2, <2>3, <2>4
<1>3. best \in Int /\ NoLabel \in Int
  BY Constants DEF Base, TypeOK, Label, NoLabel
<1>4. starts <= keep
  BY <1>1
<1>5. /\ OnDisk # {} => 0 \in OnDisk \/ Cardinality(OnDisk) >= keep - Losses
      /\ OnDisk # {} => \E l \in OnDisk : best <= l + Times(Losses)
      /\ OnDisk = {} => best = NoLabel \/ best + SaveInterval <= Times(Losses)
  BY <1>4 DEF FewLost
<1>6. OnDisk # {} => 0 \in OnDisk \/ Cardinality(OnDisk) >= keep - Losses'
  BY <1>1, <1>2, <1>5
<1>7. ASSUME OnDisk # {} PROVE \E l \in OnDisk : best <= l + Times(Losses)'
  <2>1. PICK l \in OnDisk : best <= l + Times(Losses)
    BY <1>5, <1>7
  <2>2. l \in Nat
    BY <1>1
  <2>3. best <= l + Times(Losses)'
    BY <1>2, <1>3, <2>1, <2>2
  <2>4. QED
    BY <2>3
<1>8. OnDisk = {} => best = NoLabel \/ best + SaveInterval <= Times(Losses)'
  BY <1>1, <1>2, <1>3, <1>5
<1>9. QED
  BY <1>6, <1>7, <1>8

LEMMA SameDiskDeep ==
  ASSUME Resume, Base, Base', Directory, Spaced, Deep,
         \/ OptimizerStep \/ NextStep \/ FinalSave \/ Enqueue \/ List \/ SaveReturns \/ Close \/ Join
         \/ WorkerDies \/ WorkerStops \/ Load \/ LoadRaises \/ Crash \/ Start
  PROVE  Deep'
<1>1. UNCHANGED <<keep, best, disk>> /\ OnDisk' = OnDisk
  BY DEF OptimizerStep, NextStep, FinalSave, Enqueue, List, SaveReturns, Close, Join, WorkerDies,
         WorkerStops, Load, LoadRaises, Crash, Start, settings, OnDisk
<1>2. /\ starts \in Nat
      /\ \/ starts' = starts /\ pc # "down"
         \/ Start /\ starts' = starts + 1 /\ pc' = "load"
  <2>1. WorkerDies \/ WorkerStops => pc # "down"
    BY WorkerInRun DEF WorkerDies, WorkerStops, Running
  <2>2. QED
    BY <2>1, Types DEF Base, OptimizerStep, NextStep, FinalSave, Enqueue, List, SaveReturns, Close, Join,
       WorkerDies, WorkerStops, Load, LoadRaises, Crash, Start, settings, Go
<1>3. starts <= starts' /\ Losses <= Losses'
  BY <1>2 DEF Losses
<1>4. FewLost'
  BY <1>1, <1>3, MoreLosses DEF Deep
<1>5. FirstTorn'
  <2>1. CASE starts' = starts
    BY <1>1, <2>1 DEF Deep, FirstTorn
  <2>2. CASE starts' = starts + 1
    <3>1. starts' = 1 => OnDisk = {}
      BY <1>2, <2>2 DEF Spaced, Fresh
    <3>2. QED
      BY <1>1, <3>1 DEF FirstTorn
  <2>3. QED
    BY <1>2, <2>1, <2>2
<1>6. QED
  BY <1>4, <1>5 DEF Deep

(* A file is opened for a new greatest label, or for the newest file again. *)
LEMMA OpenedDeep ==
  ASSUME Base, Base', Directory, Deep, NEW q \in Label, disk' = Put(q, Torn),
         UNCHANGED <<keep, starts, best>>, pc # "down", pc' # "down",
         \A l \in OnDisk : l <= q /\ (l # q => disk[l].whole),
         OnDisk = {} => q = 0,
         starts = 1 => \A l \in OnDisk : l < q
  PROVE  Deep'
<1>1. /\ OnDisk' = OnDisk \cup {q}
      /\ \A l \in OnDisk' : l # q => disk'[l].whole
  BY OpenedDirectory
<1>2. Losses' = Losses /\ Times(Losses)' = Times(Losses) /\ Losses \in Nat /\ Times(Losses) \in Nat
  BY LossFacts DEF Losses, Times
<1>3. keep \in Nat /\ best \in Int /\ SaveInterval \in Nat /\ SaveInterval > 0 /\ NoLabel = -1
  BY Types, Constants DEF Base, TypeOK, Label, NoLabel
<1>4. FewLost'
  <2> SUFFICES ASSUME keep > 1, starts <= keep
               PROVE  /\ 0 \in OnDisk' \/ Cardinality(OnDisk') >= keep - Losses
                      /\ \E l \in OnDisk' : best <= l + Times(Losses)
    BY <1>1, <1>2 DEF FewLost
  <2>1. /\ OnDisk # {} => 0 \in OnDisk \/ Cardinality(OnDisk) >= keep - Losses
        /\ OnDisk # {} => \E l \in OnDisk : best <= l + Times(Losses)
        /\ OnDisk = {} => best = NoLabel \/ best + SaveInterval <= Times(Losses)
    BY DEF Deep, FewLost
  <2>2. CASE OnDisk = {}
    <3>1. q = 0 /\ 0 \in OnDisk'
      BY <1>1, <2>2
    <3>2. best <= 0 + Times(Losses)
      BY <1>2, <1>3, <2>1, <2>2
    <3>3. QED
      BY <3>1, <3>2
  <2>3. CASE OnDisk # {}
    <3>1. Cardinality(OnDisk) \in Nat /\ Cardinality(OnDisk') \in Nat /\ Cardinality(OnDisk) <= Cardinality(OnDisk')
      <4>1. IsFiniteSet(OnDisk) /\ IsFiniteSet(OnDisk')
        BY <1>1, DiskFinite, FS_AddElement DEF Base
      <4>2. QED
        BY <1>1, <4>1, FS_Subset, FS_CardinalityType
    <3>2. 0 \in OnDisk' \/ Cardinality(OnDisk') >= keep - Losses
      BY <1>1, <1>2, <1>3, <2>1, <2>3, <3>1
    <3>3. QED
      BY <1>1, <2>1, <2>3, <3>2
  <2>4. QED
    BY <2>2, <2>3
<1>5. FirstTorn'
  <2> SUFFICES ASSUME keep > 1, starts = 1
               PROVE  best = NoLabel \/ \E m \in OnDisk' : m < q /\ best <= m
    BY <1>1 DEF FirstTorn
  <2>1. Losses = 0 /\ Times(Losses) = 0 /\ starts <= keep
    BY <1>3, LossFacts DEF Times
  <2>2. CASE OnDisk = {}
    <3>1. best = NoLabel \/ best + SaveInterval <= 0
      BY <2>1, <2>2 DEF Deep, FewLost
    <3>2. best \in Label \cup {NoLabel}
      BY DEF Base, TypeOK
    <3>3. best # NoLabel => best >= 0
      BY <3>2, Constants DEF Label
    <3>4. QED
      BY <1>3, <3>1, <3>3
  <2>3. CASE OnDisk # {}
    <3>1. PICK l \in OnDisk : best <= l + 0
      BY <2>1, <2>3 DEF Deep, FewLost
    <3>2. l < q /\ l \in Nat
      BY Types DEF Base
    <3>3. QED
      BY <1>1, <1>3, <3>1, <3>2
  <2>4. QED
    BY <2>2, <2>3
<1>6. QED
  BY <1>4, <1>5 DEF Deep

LEMMA OpenDeep ==
  ASSUME Resume, Base, Base', Directory, Spaced, Deep, Open
  PROVE  Deep'
<1>1. /\ UNCHANGED <<keep, starts, best>> /\ pc = "save" /\ pc' = "write" /\ ~async
      /\ disk' = Put(globalStep, Torn)
  BY DEF Open, Go, settings, saver
<1>2. /\ globalStep \in Label /\ queue = <<>> /\ writing = NoLabel /\ worker # "died" /\ NoLabel \notin Label
      /\ OnDisk \subseteq Label
  BY <1>1, Types DEF Base, Threads
<1>3. \A l \in OnDisk : l <= globalStep /\ (l # globalStep => disk[l].whole)
  BY <1>1, <1>2 DEF Directory, StepOnTop, OthersWhole, Running
<1>4. Saved = OnDisk
  BY <1>2, SavedEmptyQueue
<1>5. OnDisk = {} => globalStep = 0
  BY <1>1, <1>4 DEF Spaced, StepNear
<1>6. starts = 1 => \A l \in OnDisk : l < globalStep
  BY <1>1, <1>4 DEF Spaced, FirstRun
<1>7. QED
  BY <1>1, <1>2, <1>3, <1>5, <1>6, OpenedDeep

LEMMA WorkerOpensDeep ==
  ASSUME Resume, Base, Base', Directory, Spaced, Deep, WorkerOpens
  PROVE  Deep'
<1>1. /\ UNCHANGED <<keep, starts, best, pc>>
      /\ worker = "runs" /\ writing = NoLabel /\ queue # <<>> /\ Head(queue) # NoLabel
      /\ disk' = Put(Head(queue), Torn)
  BY DEF WorkerOpens, settings
<1>2. pc \in Running /\ pc # "write" /\ pc # "down"
  BY <1>1, WorkerInRun DEF Base, Threads, Running
<1>3. Head(queue) = queue[1] /\ 1 \in 1 .. Len(queue) /\ Len(queue) \in Nat
  BY <1>1, QueueTypes, TailFacts
<1>4. queue[1] \in Label /\ queue[1] \in Nat /\ NoLabel \notin Label /\ OnDisk \subseteq Label
  BY <1>1, <1>3, QueueTypes, Types DEF Base
<1>5. \A l \in OnDisk : l <= queue[1] /\ (l # queue[1] => disk[l].whole)
  BY <1>1, <1>2, <1>3, <1>4 DEF Directory, QueueOnTop, OthersWhole
<1>6. OnDisk = {} => queue[1] = 0
  <2> SUFFICES ASSUME OnDisk = {} PROVE queue[1] = 0
    OBVIOUS
  <2>1. 0 \in Saved
    BY <1>1, <1>3, SavedFacts DEF Spaced, FromZero
  <2>2. PICK i \in 1 .. Len(queue) : queue[i] = 0 /\ queue[i] # NoLabel
    BY <2>1, SavedFacts
  <2>3. CASE i = 1
    BY <2>2, <2>3
  <2>4. CASE i # 1
    <3>1. 1 < i
      BY <1>3, <2>4
    <3>2. queue[1] <= 0
      BY <1>3, <2>2, <3>1 DEF Directory, QueueSorted
    <3>3. QED
      BY <1>4, <3>2
  <2>5. QED
    BY <2>3, <2>4
<1>7. starts = 1 => \A l \in OnDisk : l < queue[1]
  BY <1>1, <1>3 DEF Spaced, FirstRun
<1>8. QED
  BY <1>1, <1>2, <1>3, <1>4, <1>5, <1>6, <1>7, OpenedDeep

LEMMA CompletedDeep ==
  ASSUME Resume, Base, Base', Directory, Spaced, Deep, Write \/ WorkerWrites
  PROVE  Deep'
<1> DEFINE q == IF pc = "write" THEN globalStep ELSE writing
<1>1. /\ UNCHANGED <<keep, starts>> /\ pc \in Running /\ pc # "down" /\ pc' # "down"
      /\ Complete(q) /\ q \in Label /\ worker # "died"
      /\ \A l \in OnDisk : disk[l].whole \/ l = q
      /\ \E m \in OnDisk : q <= m
  <2>1. CASE Write
    <3>1. /\ pc = "write" /\ pc' = "list" /\ Complete(globalStep) /\ globalStep \in Label
          /\ worker # "died" /\ writing = NoLabel /\ NoLabel \notin OnDisk /\ globalStep \in OnDisk
          /\ globalStep <= globalStep
      BY <2>1, Types DEF Write, Go, Base, Threads, Spaced, WritingOld
    <3>2. \A l \in OnDisk : disk[l].whole \/ l = globalStep
      BY <3>1 DEF Directory, OthersWhole, Running
    <3>3. UNCHANGED <<keep, starts>>
      BY <2>1 DEF Write, settings
    <3>4. QED
      BY <3>1, <3>2, <3>3 DEF Running
  <2>2. CASE WorkerWrites
    <3>1. /\ pc \in Running /\ pc # "write" /\ pc # "down" /\ worker = "runs"
          /\ writing \in Label /\ Complete(writing)
      BY <2>2, WorkerInRun DEF WorkerWrites, Base, Threads, TypeOK, Running
    <3>2. \A l \in OnDisk : disk[l].whole \/ l = writing
      BY <3>1 DEF Directory, OthersWhole
    <3>3. \E m \in OnDisk : writing <= m
      BY <2>2 DEF WorkerWrites, Spaced, WritingOld
    <3>4. UNCHANGED <<keep, starts, pc>>
      BY <2>2 DEF WorkerWrites, settings
    <3>5. QED
      BY <3>1, <3>2, <3>3, <3>4
  <2>3. QED
    BY <2>1, <2>2
<1>2. OnDisk' = OnDisk /\ \A l \in OnDisk : disk'[l].whole
  BY <1>1, CompletedDirectory
<1>3. best' = IF q > best THEN q ELSE best
  BY <1>1 DEF Complete
<1>4. PICK m \in OnDisk : q <= m
  BY <1>1
<1>5. q \in Nat /\ m \in Nat
  BY <1>1, Types, Constants DEF Base, Label
<1> HIDE DEF q
<1>6. Losses' = Losses /\ Times(Losses)' = Times(Losses) /\ Times(Losses) \in Nat
  BY <1>1, LossFacts DEF Losses, Times
<1>7. FewLost'
  <2> SUFFICES ASSUME keep > 1, starts <= keep
               PROVE  /\ 0 \in OnDisk \/ Cardinality(OnDisk) >= keep - Losses
                      /\ \E l \in OnDisk : best' <= l + Times(Losses)
    BY <1>1, <1>2, <1>4, <1>6 DEF FewLost
  <2>1. /\ 0 \in OnDisk \/ Cardinality(OnDisk) >= keep - Losses
        /\ \E l \in OnDisk : best <= l + Times(Losses)
    BY <1>4 DEF Deep, FewLost
  <2>2. CASE best' = best
    BY <2>1, <2>2
  <2>3. CASE best' = q
    <3>1. q <= m + Times(Losses)
      BY <1>4, <1>5, <1>6
    <3>2. QED
      BY <2>1, <2>3, <3>1
  <2>4. QED
    BY <1>3, <2>2, <2>3
<1>8. FirstTorn'
  BY <1>2 DEF FirstTorn
<1>9. QED
  BY <1>7, <1>8 DEF Deep

(* The cleanup removes the oldest files, and leaves keep_last_n of them. *)
LEMMA RemoveDeep ==
  ASSUME Resume, Base, Base', Directory, Spaced, Deep, Remove
  PROVE  Deep'
<1> DEFINE v == Min(victims)
           K == OnDisk \ victims
<1>1. /\ UNCHANGED <<keep, pc, starts, best>>
      /\ pc = "remove" /\ victims # {} /\ disk' = Without({v})
  BY DEF Remove, settings, saver
<1>2. v \in victims /\ v \in OnDisk /\ v \in Nat
  BY <1>1, OldestVictim
<1>3. \A l \in OnDisk : v <= l /\ l \in Nat
  BY <1>1, OldestVictim, SavedFacts, Types DEF Base, Saved
<1>4. PICK n \in K : v < n
  BY <1>1, OldestVictim
<1>5. OnDisk' = OnDisk \ {v} /\ \A m \in OnDisk' : disk'[m] = disk[m]
  BY <1>1, WithoutFacts
<1> HIDE DEF v
<1>6. \A x \in K : x \in OnDisk /\ x \in OnDisk' /\ x # v
  BY <1>2, <1>5
<1>7. Cardinality(K) >= keep /\ Cardinality(K) \in Nat /\ IsFiniteSet(K) /\ keep \in Nat
  BY <1>1, DiskFinite, Types DEF Spaced, VictimsLeave, Base
<1>8. Losses' = Losses /\ Times(Losses)' = Times(Losses) /\ Losses \in Nat /\ Times(Losses) \in Nat
  BY <1>1, LossFacts DEF Losses, Times
<1>9. best \in Int /\ n \in Nat /\ n \in OnDisk'
  BY <1>3, <1>4, <1>6, Constants DEF Base, TypeOK, Label, NoLabel
<1>10. FewLost'
  <2> SUFFICES ASSUME keep > 1, starts <= keep
               PROVE  /\ Cardinality(OnDisk') >= keep - Losses
                      /\ \E l \in OnDisk' : best <= l + Times(Losses)
    BY <1>1, <1>8, <1>9 DEF FewLost
  <2>1. Cardinality(OnDisk') >= keep - Losses
    <3>1. IsFiniteSet(OnDisk') /\ Cardinality(OnDisk') \in Nat
      BY <1>5, DiskFinite DEF Base
    <3>2. K \subseteq OnDisk'
      BY <1>6
    <3>3. Cardinality(K) <= Cardinality(OnDisk')
      BY <3>1, <3>2, FS_Subset
    <3>4. QED
      BY <1>7, <1>8, <3>1, <3>3
  <2>2. PICK l \in OnDisk : best <= l + Times(Losses)
    BY <1>2 DEF Deep, FewLost
  <2>3. CASE l = v
    <3>1. best <= n + Times(Losses)
      BY <1>2, <1>4, <1>8, <1>9, <2>2, <2>3
    <3>2. QED
      BY <1>9, <2>1, <3>1
  <2>4. CASE l # v
    BY <1>5, <2>1, <2>2, <2>4
  <2>5. QED
    BY <2>3, <2>4
<1>11. FirstTorn'
  <2> SUFFICES ASSUME keep > 1, starts = 1, NEW l \in OnDisk', ~disk[l].whole, best # NoLabel
               PROVE  \E m \in OnDisk' : m < l /\ best <= m
    BY <1>1, <1>5 DEF FirstTorn
  <2>1. l \in OnDisk /\ l \in Nat
    BY <1>3, <1>5
  <2>2. PICK m \in OnDisk : m < l /\ best <= m
    BY <2>1 DEF Deep, FirstTorn
  <2>3. PICK x \in K : x # l
    <3> SUFFICES ASSUME \A x \in K : x = l PROVE FALSE
      OBVIOUS
    <3>1. IsFiniteSet({l}) /\ Cardinality({l}) = 1
      BY FS_Singleton
    <3>2. K \subseteq {l}
      OBVIOUS
    <3>3. Cardinality(K) <= 1
      BY <3>1, <3>2, FS_Subset
    <3>4. QED
      BY <1>7, <3>3
  <2>4. x < l
    <3>1. x \in Nat /\ ~(l < x)
      BY <1>3, <1>6, <2>1 DEF Directory, OlderWhole
    <3>2. QED
      BY <2>1, <2>3, <3>1
  <2>5. v <= x /\ x \in Nat /\ x \in OnDisk'
    BY <1>3, <1>6
  <2>6. CASE m = v
    <3>1. best <= x
      BY <1>2, <1>9, <2>2, <2>5, <2>6
    <3>2. QED
      BY <2>4, <2>5, <3>1
  <2>7. CASE m # v
    BY <1>5, <2>2, <2>7
  <2>8. QED
    BY <2>6, <2>7
<1>12. QED
  BY <1>10, <1>11 DEF Deep

LEMMA InitDeep == Init => Deep
<1> SUFFICES ASSUME Init PROVE Deep
  OBVIOUS
<1>1. OnDisk = {} /\ starts = 0 /\ best = NoLabel
  BY DEF Init, OnDisk
<1>2. QED
  BY <1>1 DEF Deep, FewLost, FirstTorn

(* Among the files of which one is the only one, keep - Losses is at most 1. *)
LEMMA OnlyFile ==
  ASSUME Base, NEW x, OnDisk = {x}, FewLost, keep > 1, starts <= keep, starts >= 2, Losses = starts - 2
  PROVE  x = 0
<1>1. keep \in Nat /\ starts \in Nat
  BY Types DEF Base
<1>2. Cardinality(OnDisk) = 1
  BY FS_Singleton
<1>3. 0 \in OnDisk \/ Cardinality(OnDisk) >= keep - Losses
  BY DEF FewLost
<1>4. ~(1 >= keep - Losses)
  BY <1>1
<1>5. QED
  BY <1>2, <1>3, <1>4

(* The file that could not be loaded is the last start's loss. *)
LEMMA RemoveByHandDeep ==
  ASSUME Resume, Base, Base', Directory, Spaced, Deep, RemoveByHand
  PROVE  Deep'
<1> DEFINE x == Max(OnDisk)
<1>1. /\ UNCHANGED <<keep, best, starts>> /\ disk' = Without({x}) /\ pc = "raised" /\ pc' = "down"
  BY DEF RemoveByHand, Go, settings
<1>2. OnDisk' = OnDisk \ {x} /\ \A m \in OnDisk' : disk'[m] = disk[m]
  BY <1>1, WithoutFacts
<1>3. \A l \in OnDisk : x \in OnDisk /\ l <= x /\ x \in Nat /\ l \in Nat
  BY MaxFacts, Types DEF Base
<1> HIDE DEF x
<1>4. starts >= 2 /\ starts \in Nat /\ keep \in Nat /\ SaveInterval \in Nat /\ best \in Int /\ NoLabel \in Int
  BY <1>1, Types, Constants DEF Base, Spaced, Fresh, TypeOK, Label, NoLabel
<1>5. \A l \in OnDisk' : l < x /\ l \in OnDisk
  BY <1>2, <1>3
<1>6. AllWhole'
  <2>1. \A l \in OnDisk' : disk[l].whole
    BY <1>3, <1>5 DEF Directory, OlderWhole
  <2>2. QED
    BY <1>2, <2>1 DEF AllWhole
<1>7. Losses = starts - 2 /\ Losses' = starts - 1
  <2>1. Losses = starts - 2
    BY <1>1, <1>4, LossFacts
  <2>2. starts - 1 > 0
    BY <1>4
  <2>3. Losses' = starts' - 1
    BY <1>1, <1>6, <2>2 DEF Losses
  <2>4. QED
    BY <1>1, <2>1, <2>3
<1>8. Times(Losses)' = Times(Losses) + SaveInterval /\ Times(Losses) \in Nat /\ Losses \in Nat
  <2>1. Losses \in Nat /\ Losses' = Losses + 1
    BY <1>4, <1>7
  <2>2. Times(Losses)' = Times(Losses + 1)
    BY <2>1 DEF Times
  <2>3. QED
    BY <2>1, <2>2, TimesFacts
<1>9. ASSUME keep > 1, starts <= keep, OnDisk' # {}
      PROVE  0 \in OnDisk' \/ Cardinality(OnDisk') >= keep - Losses'
  <2>1. PICK k \in OnDisk' : k < x /\ k \in OnDisk
    BY <1>5, <1>9
  <2>2. CASE 0 \in OnDisk
    <3>1. 0 # x
      BY <1>3, <2>1
    <3>2. QED
      BY <1>2, <2>2, <3>1
  <2>3. CASE Cardinality(OnDisk) >= keep - Losses
    <3>1. IsFiniteSet(OnDisk) /\ Cardinality(OnDisk) \in Nat /\ x \in OnDisk
      BY <1>3, <2>1, DiskFinite DEF Base
    <3>2. Cardinality(OnDisk') = Cardinality(OnDisk) - 1
      BY <1>2, <3>1, FS_RemoveElement
    <3>3. QED
      BY <1>4, <1>7, <2>3, <3>1, <3>2
  <2>4. QED
    BY <1>9, <2>1, <2>2, <2>3 DEF Deep, FewLost
<1>10. ASSUME keep > 1, starts <= keep, OnDisk' # {}
       PROVE  \E l \in OnDisk' : best <= l + Times(Losses)'
  <2>1. PICK k \in OnDisk' : k < x /\ k \in OnDisk
    BY <1>5, <1>10
  <2>2. PICK l \in OnDisk : best <= l + Times(Losses)
    BY <1>10, <2>1 DEF Deep, FewLost
  <2>3. CASE l # x
    <3>1. best <= l + Times(Losses)'
      BY <1>3, <1>4, <1>8, <2>2
    <3>2. QED
      BY <1>2, <2>3, <3>1
  <2>4. CASE l = x
    <3>1. PICK m \in OnDisk : m < x /\ x <= m + SaveInterval
      BY <2>1, <2>4, DenseFiles
    <3>2. m \in Nat /\ x \in Nat
      BY <1>3
    <3>3. best <= m + Times(Losses)'
      BY <1>4, <1>8, <2>2, <2>4, <3>1, <3>2
    <3>4. m \in OnDisk'
      BY <1>2, <3>1, <3>2
    <3>5. QED
      BY <3>3, <3>4
  <2>5. QED
    BY <2>3, <2>4
<1>11. ASSUME keep > 1, starts <= keep, OnDisk' = {}
       PROVE  best = NoLabel \/ best + SaveInterval <= Times(Losses)'
  <2>1. CASE OnDisk = {}
    <3>1. best = NoLabel \/ best + SaveInterval <= Times(Losses)
      BY <1>11, <2>1 DEF Deep, FewLost
    <3>2. QED
      BY <1>4, <1>8, <3>1
  <2>2. CASE OnDisk # {}
    <3>1. OnDisk = {x}
      BY <1>2, <1>3, <1>11, <2>2
    <3>2. x = 0
      BY <1>4, <1>7, <1>11, <3>1, OnlyFile DEF Deep
    <3>3. PICK l \in OnDisk : best <= l + Times(Losses)
      BY <1>11, <2>2 DEF Deep, FewLost
    <3>4. best <= 0 + Times(Losses)
      BY <3>1, <3>2, <3>3
    <3>5. QED
      BY <1>4, <1>8, <3>4
  <2>3. QED
    BY <2>1, <2>2
<1>12. FewLost'
  BY <1>1, <1>9, <1>10, <1>11 DEF FewLost
<1>13. FirstTorn'
  BY <1>1, <1>4 DEF FirstTorn
<1>14. QED
  BY <1>12, <1>13 DEF Deep

LEMMA NextDeep ==
  ASSUME Resume, Base, Base', Directory, Spaced, Deep, [Next]_vars
  PROVE  Deep'
<1>1. CASE UNCHANGED vars
  BY <1>1 DEF vars, Deep, FewLost, FirstTorn, Losses, Times, AllWhole, OnDisk
<1>2. CASE Trainer
  BY <1>2, SameDiskDeep, OpenDeep, CompletedDeep, RemoveDeep DEF Trainer
<1>3. CASE Worker
  BY <1>3, SameDiskDeep, WorkerOpensDeep, CompletedDeep DEF Worker
<1>4. QED
  BY <1>1, <1>2, <1>3, SameDiskDeep, RemoveByHandDeep DEF Next

(* With `resume` the labels saved stay a save_interval apart at most, and    *)
(* each start but the first costs the newest of them at most.               *)
THEOREM LossInvariance == Resume /\ Spec => [](Resume /\ Base /\ Directory /\ Spaced /\ Deep)
<1>1. Init => Spaced /\ Deep
  BY InitSpaced, InitDeep
<1>2. Resume /\ Base /\ Base' /\ Directory /\ Directory' /\ Spaced /\ Deep /\ [Next]_vars => Spaced' /\ Deep'
  BY NextSpaced, NextDeep
<1>3. QED
  BY <1>1, <1>2, DirectoryInvariance, PTL DEF Spec

LEMMA LossBounded ==
  ASSUME Base, Directory, Spaced, Deep
  PROVE  ResumeCostsOneInterval
<1> DEFINE lost == (starts - 1) * SaveInterval
<1> SUFFICES ASSUME best # NoLabel, keep > 1, starts <= keep, best >= lost
             PROVE  \E l \in OnDisk : disk[l].whole /\ l >= best - lost
  BY DEF ResumeCostsOneInterval
<1>1. /\ starts \in Nat /\ keep \in Nat /\ SaveInterval \in Nat /\ SaveInterval > 0 /\ best \in Nat
      /\ \A l \in OnDisk : l \in Nat
  BY Types, Constants DEF Base, TypeOK, Label
<1>2. starts >= 1
  BY <1>1 DEF Spaced, Fresh
<1>3. starts - 1 \in Nat /\ Losses \in Nat /\ Losses <= starts - 1 /\ Times(Losses) \in Nat
  BY <1>1, <1>2, LossFacts
<1>4. lost = Times(starts - 1)
  BY DEF Times
<1> HIDE DEF lost
<1>5. lost \in Nat /\ Times(Losses) <= lost
  BY <1>3, <1>4, TimesFacts
<1>6. OnDisk # {}
  <2>1. OnDisk = {} => best + SaveInterval <= Times(Losses)
    BY DEF Deep, FewLost
  <2>2. QED
    BY <1>1, <1>3, <1>5, <2>1
<1>7. PICK l \in OnDisk : best <= l + Times(Losses)
  BY <1>6 DEF Deep, FewLost
<1>8. CASE disk[l].whole
  <2>1. l >= best - lost
    BY <1>1, <1>3, <1>5, <1>7
  <2>2. QED
    BY <1>8, <2>1
<1>9. CASE ~disk[l].whole /\ starts = 1
  <2>1. PICK m \in OnDisk : m < l /\ best <= m
    BY <1>9 DEF Deep, FirstTorn
  <2>2. disk[m].whole
    BY <2>1 DEF Directory, OlderWhole
  <2>3. m >= best - lost
    BY <1>1, <1>5, <2>1
  <2>4. QED
    BY <2>2, <2>3
<1>10. CASE ~disk[l].whole /\ starts # 1
  <2>1. starts >= 2
    BY <1>1, <1>2, <1>10
  <2>2. Losses = starts - 2
    BY <1>1, <1>10, <2>1, LossFacts DEF AllWhole
  <2>3. lost = Times(Losses) + SaveInterval
    <3>1. starts - 1 = Losses + 1
      BY <1>1, <2>2
    <3>2. QED
      BY <1>3, <1>4, <3>1, TimesFacts
  <2>4. ASSUME NEW k \in OnDisk, k < l
        PROVE  \E m \in OnDisk : disk[m].whole /\ m >= best - lost
    <3>1. PICK m \in OnDisk : m < l /\ l <= m + SaveInterval
      BY <2>4, DenseFiles
    <3>2. disk[m].whole
      BY <3>1 DEF Directory, OlderWhole
    <3>3. m >= best - lost
      BY <1>1, <1>3, <1>7, <2>3, <3>1
    <3>4. QED
      BY <3>2, <3>3
  <2>5. CASE \A k \in OnDisk : ~(k < l)
    <3>1. \A k \in OnDisk : ~(l < k)
      BY <1>10 DEF Directory, OlderWhole
    <3>2. \A k \in OnDisk : k = l
      BY <1>1, <2>5, <3>1
    <3>3. OnDisk = {l}
      BY <3>2
    <3>4. l = 0
      BY <2>1, <2>2, <3>3, OnlyFile DEF Deep
    <3>5. FALSE
      BY <1>1, <1>3, <1>7, <2>3, <3>4
    <3>6. QED
      BY <3>5
  <2>6. QED
    BY <2>4, <2>5
<1>11. QED
  BY <1>8, <1>9, <1>10

(* With `resume` and keep_last_n > 1, however the cleanup, the worker, its   *)
(* death, crashes and resumes interleave: among the files there is always a *)
(* complete one that is behind the best ever saved by at most a             *)
(* save_interval for each start but the first, for up to keep_last_n starts. *)
THEOREM ResumeIsCheap == Resume /\ Spec => []ResumeCostsOneInterval
BY LossBounded, LossInvariance, PTL
=============================================================================
