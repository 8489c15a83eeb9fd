------------------------ MODULE RegistryCheckpoint_proofs ------------------------
(***************************************************************************)
(* Proofs about RegistryCheckpoint for any number of kept checkpoints, any  *)
(* number of steps and of crashes, with synchronous saves, with a save      *)
(* thread, or with either.                                                 *)
(*                                                                         *)
(* Base is the type invariant with what the two threads hold. Good says, of *)
(* jobs in which no save was cut short, what is in the directories: files   *)
(* are filled in the order of the writes, one that is missing was removed   *)
(* when a newer directory was there, and no directory is newer than the     *)
(* training state.                                                          *)
(***************************************************************************)
EXTENDS RegistryCheckpoint, FiniteSetTheorems, SequenceTheorems, WellFoundedInduction, TLAPS

(* The thread that writes checkpoints, and what it is writing.              *)
Writer == IF async THEN "saver" ELSE "main"
Active(s) == Writing(Writer) /\ job[Writer].step = s

(* The writes that open and that complete a file. *)
OpensAt == [f \in File |-> IF f = "meta" THEN 1 ELSE IF f = "weights" THEN 3 ELSE 6]
ClosesAt == [f \in File |-> IF f = "meta" THEN 2 ELSE IF f = "weights" THEN 5 ELSE 7]
OpenIn(s, f) == Active(s) /\ OpensAt[f] < at[Writer] /\ at[Writer] <= ClosesAt[f]
ToOpen(s, f) == Active(s) /\ 1 <= at[Writer] /\ at[Writer] <= OpensAt[f]

Saves == {x \in State : 1 <= x.step /\ x.step <= taken}

DiskTypes ==
  \A s \in Step :
    /\ disk[s].meta >= Empty /\ disk[s].state >= Empty /\ disk[s].state <= taken
    /\ disk[s].weights >= Cut
    /\ ~disk[s].dir => \A f \in File : disk[s][f] = Missing

Threads ==
  /\ live.step <= taken
  /\ pc \in {"SAVE", "REGISTER", "WRITE"} => live.step >= 1
  /\ pc = "WRITE" => ~async /\ job["main"] = live
  /\ pc # "WRITE" => at["main"] = 0 /\ job["main"] = NoJob
  /\ \A i \in 1 .. Len(pending) : pending[i] \in Saves
  /\ saver \in {"POPPED", "WRITE"} => job["saver"] \in Saves
  /\ saver # "WRITE" => at["saver"] = 0
  /\ ~async => saver = "NONE" /\ pending = <<>>

Base == TypeOK /\ DiskTypes /\ Threads
-----------------------------------------------------------------------------
Less == {p \in Nat \X Nat : p[1] < p[2]}

(* A set of steps that is not empty has a least and a greatest. *)
LEMMA OldestFacts ==
  ASSUME NEW S \in SUBSET Nat, S # {}
  PROVE  Oldest(S) \in S /\ \A n \in S : Oldest(S) <= n
<1>1. IsWellFoundedOn(Less, Nat)
  BY NatLessThanWellFounded, Zenon DEF OpToRel, Less
<1>2. PICK m \in S : \A n \in S : <<n, m>> \notin Less
  BY <1>1, WFMin
<1>3. \A n \in S : m <= n
  <2> SUFFICES ASSUME NEW n \in S PROVE m <= n
    OBVIOUS
  <2>1. n \in Nat /\ m \in Nat /\ <<n, m>> \notin Less
    BY <1>2
  <2>2. ~(n < m)
    BY <2>1 DEF Less
  <2>3. QED
    BY <2>1, <2>2
<1>4. QED
  BY <1>3 DEF Oldest

LEMMA NewestFacts ==
  ASSUME NEW S \in SUBSET Step, S # {}
  PROVE  Newest(S) \in S /\ \A n \in S : n <= Newest(S)
<1> DEFINE T == {k \in Nat : MaxStep - k \in S}
<1>0. MaxStep \in Nat /\ \A s \in S : s \in 1 .. MaxStep
  BY RegistryAssumption DEF Step
<1>1. PICK s \in S : s \in Nat /\ s <= MaxStep
  BY <1>0
<1>2. MaxStep - s \in T
  BY <1>0, <1>1
<1>3. T \in SUBSET Nat /\ T # {}
  BY <1>2
<1>4. Oldest(T) \in T /\ \A j \in T : Oldest(T) <= j
  <2> HIDE DEF T
  <2> QED
    BY <1>3, OldestFacts
<1>5. MaxStep - Oldest(T) \in S /\ Oldest(T) \in Nat
  BY <1>4
<1>6. ASSUME NEW n \in S PROVE n <= MaxStep - Oldest(T)
  <2>1. n \in Nat /\ n <= MaxStep /\ MaxStep - n \in T
    BY <1>0
  <2>2. Oldest(T) <= MaxStep - n
    BY <1>4, <2>1
  <2>3. QED
    BY <1>0, <1>5, <2>1, <2>2
<1>7. \E m \in S : \A n \in S : n <= m
  BY <1>5, <1>6
<1>8. QED
  BY <1>7 DEF Newest

LEMMA FrontFacts ==
  ASSUME NEW S, NEW q \in Seq(S), q # <<>>
  PROVE  /\ Front(q) \in Seq(S) /\ Len(Front(q)) = Len(q) - 1 /\ Len(q) \in Nat /\ Len(q) >= 1
         /\ \A i \in 1 .. Len(Front(q)) : Front(q)[i] = q[i] /\ i \in 1 .. Len(q)
         /\ Last(q) = q[Len(q)] /\ Len(q) \in 1 .. Len(q) /\ q[Len(q)] \in S
<1>1. Len(q) \in Nat /\ Len(q) >= 1 /\ Len(q) \in 1 .. Len(q)
  BY EmptySeq, LenProperties
<1>2. \A i \in 1 .. Len(q) : q[i] \in S
  BY ElementOfSeq
<1>3. \A i \in 1 .. (Len(q) - 1) : q[i] \in S
  BY <1>1, <1>2
<1>4. /\ SubSeq(q, 1, Len(q) - 1) \in Seq(S)
      /\ Len(SubSeq(q, 1, Len(q) - 1)) = IF 1 <= Len(q) - 1 THEN Len(q) - 1 - 1 + 1 ELSE 0
      /\ \A i \in 1 .. (Len(q) - 1) - 1 + 1 : SubSeq(q, 1, Len(q) - 1)[i] = q[1 + i - 1]
  BY <1>1, <1>3, SubSeqProperties
<1>5. Len(Front(q)) = Len(q) - 1
  <2>1. \A n \in Nat : n >= 1 => (IF 1 <= n - 1 THEN n - 1 - 1 + 1 ELSE 0) = n - 1
    OBVIOUS
  <2>2. (IF 1 <= Len(q) - 1 THEN Len(q) - 1 - 1 + 1 ELSE 0) = Len(q) - 1
    BY <1>1, <2>1
  <2>3. QED
    BY <1>4, <2>2 DEF Front
<1>6. \A i \in 1 .. Len(Front(q)) : Front(q)[i] = q[i] /\ i \in 1 .. Len(q)
  BY <1>1, <1>4, <1>5 DEF Front
<1>7. QED
  BY <1>1, <1>2, <1>4, <1>5, <1>6 DEF Front, Last

LEMMA AppendFacts ==
  ASSUME NEW S, NEW q \in Seq(S), NEW e \in S
  PROVE  /\ Append(q, e) \in Seq(S) /\ Len(Append(q, e)) = Len(q) + 1 /\ Len(q) \in Nat
         /\ \A i \in 1 .. Len(q) : Append(q, e)[i] = q[i]
         /\ Append(q, e)[Len(q) + 1] = e
BY AppendProperties, LenProperties
-----------------------------------------------------------------------------
Directory == [dir : BOOLEAN, meta : Int, weights : Int, state : Int]

LEMMA Types ==
  ASSUME Base
  PROVE  /\ taken \in Nat /\ MaxStep \in Nat /\ MaxCheckpoints \in Nat /\ MaxCheckpoints >= 1
         /\ disk \in [Step -> Directory]
         /\ registry \in SUBSET Step /\ registry \in SUBSET Nat /\ IsFiniteSet(registry)
         /\ live.step \in Nat /\ live.weights \in Nat /\ live = [step |-> live.step, weights |-> live.weights]
         /\ \A s \in Step : s \in Nat /\ s >= 1 /\ s <= MaxStep
         /\ \A t \in Thread : at[t] \in Nat /\ job[t] \in State /\ job[t].step \in Nat /\ job[t].weights \in Nat
         /\ \A x \in Saves : x \in State /\ x.step \in Step
         /\ crashes \in Nat /\ saved \in Nat
<1>1. /\ MaxStep \in Nat /\ MaxCheckpoints \in Nat /\ MaxCheckpoints >= 1 /\ MaxCrashes \in Nat
      /\ taken \in Nat /\ taken <= MaxStep /\ crashes \in Nat
  BY RegistryAssumption DEF Base, TypeOK
<1>2. \A s \in Step : s \in Nat /\ s >= 1 /\ s <= MaxStep
  BY <1>1 DEF Step
<1>3. disk \in [Step -> Directory] /\ registry \in SUBSET Step
  BY DEF Base, TypeOK, Directory
<1>4. registry \in SUBSET Nat /\ saved \in Nat
  BY <1>2, <1>3 DEF Base, TypeOK
<1>5. IsFiniteSet(registry)
  <2>1. IsFiniteSet(1 .. MaxStep)
    BY <1>1, FS_Interval
  <2>2. registry \in SUBSET (1 .. MaxStep)
    BY <1>3 DEF Step
  <2>3. QED
    BY <2>1, <2>2, FS_Subset
<1>6. \A x \in State : x.step \in Nat /\ x.weights \in Nat /\ x.step <= MaxStep /\ x = [step |-> x.step, weights |-> x.weights]
  BY <1>1 DEF State
<1>7. live \in State /\ \A t \in Thread : at[t] \in Nat /\ job[t] \in State
  <2>1. live \in State /\ job \in [Thread -> State] /\ at \in [Thread -> 0 .. NumWrites + 1]
    BY DEF Base, TypeOK
  <2>2. \A k \in 0 .. NumWrites + 1 : k \in Nat
    BY DEF NumWrites
  <2>3. QED
    BY <2>1, <2>2
<1>8. \A x \in Saves : x \in State /\ x.step \in Step
  BY <1>1, <1>6 DEF Saves, Step
<1>9. QED
  BY <1>1, <1>2, <1>3, <1>4, <1>5, <1>6, <1>7, <1>8

LEMMA InitBase == Init => Base
<1> SUFFICES ASSUME Init PROVE Base
  OBVIOUS
<1>1. MaxStep \in Nat /\ MaxCrashes \in Nat /\ AsyncModes \in SUBSET BOOLEAN
  BY RegistryAssumption
<1>2. NoJob \in State
  BY <1>1 DEF NoJob, State
<1>3. TypeOK
  <2>1. async \in BOOLEAN /\ running \in BOOLEAN /\ inProgress \in BOOLEAN
    BY <1>1 DEF Init
  <2>2. disk \in [Step -> Directory]
    BY DEF Init, Absent, Missing, Directory
  <2>3. job \in [Thread -> State] /\ live \in State /\ pending \in Seq(State)
    BY <1>2, EmptySeq DEF Init
  <2>4. at \in [Thread -> 0 .. NumWrites + 1]
    BY DEF Init, NumWrites
  <2>5. /\ pc = "TRAIN" /\ saver \in {"NONE", "LOOP"} /\ registry \subseteq Step
        /\ torn \subseteq Step /\ saved \in Step \cup {0}
        /\ taken \in 0 .. MaxStep /\ crashes \in 0 .. MaxCrashes
    BY <1>1 DEF Init
  <2>6. QED
    BY <2>1, <2>2, <2>3, <2>4, <2>5 DEF TypeOK, Directory
<1>4. DiskTypes
  BY DEF Init, DiskTypes, Absent, Missing, Empty, Cut, File
<1>5. Threads
  BY <1>1 DEF Init, Threads, NoJob, Thread
<1>6. QED
  BY <1>3, <1>4, <1>5 DEF Base

(* Who is writing, and how far it can be. *)
LEMMA WriterFacts ==
  ASSUME Base, NEW t \in Thread, Writing(t)
  PROVE  /\ t = Writer /\ job[t] \in Saves /\ job[t].step \in Step
         /\ (t = "main" <=> ~async)
<1>1. CASE t = "main"
  <2>1. pc = "WRITE" /\ ~async /\ job[t] = live
    BY <1>1 DEF Writing, Base, Threads
  <2>2. live \in Saves
    BY <2>1, Types DEF Base, Threads, Saves, TypeOK
  <2>3. QED
    BY <1>1, <2>1, <2>2, Types DEF Writer
<1>2. CASE t = "saver"
  <2>1. saver = "WRITE" /\ async /\ job[t] \in Saves
    BY <1>2 DEF Writing, Base, Threads, TypeOK
  <2>2. QED
    BY <1>2, <2>1, Types DEF Writer
<1>3. QED
  BY <1>1, <1>2 DEF Thread

(* The write of v to the file f of step_s by thread t. *)
Puts(t, f, v) ==
  LET s == job[t].step IN
  /\ \/ at[t] = OpensAt[f] /\ v = Empty /\ disk[s].dir
     \/ OpensAt[f] < at[t] /\ at[t] < ClosesAt[f] /\ f = "weights" /\ v = Cut
     \/ at[t] = ClosesAt[f] /\ v = IF f = "weights" THEN job[t].weights ELSE s
  /\ \A u \in Step, g \in File :
       disk'[u][g] = IF u = s /\ g = f /\ (at[t] = OpensAt[f] \/ disk[s][f] # Missing)
                     THEN v ELSE disk[u][g]
  /\ \A u \in Step : disk'[u].dir = disk[u].dir

MakesDir(s) ==
  /\ \A u \in Step, g \in File : disk'[u][g] = disk[u][g]
  /\ \A u \in Step : disk'[u].dir = IF u = s THEN TRUE ELSE disk[u].dir

LEMMA UpdateFacts ==
  ASSUME NEW d \in [Step -> Directory], NEW s \in Step, NEW f \in File, NEW v \in Int
  PROVE  /\ [d EXCEPT ![s][f] = v] \in [Step -> Directory]
         /\ \A u \in Step, g \in File : [d EXCEPT ![s][f] = v][u][g] = IF u = s /\ g = f THEN v ELSE d[u][g]
         /\ \A u \in Step : [d EXCEPT ![s][f] = v][u].dir = d[u].dir
BY DEF Directory, File

LEMMA OrderFacts ==
  /\ OpensAt["meta"] = 1 /\ OpensAt["weights"] = 3 /\ OpensAt["state"] = 6
  /\ ClosesAt["meta"] = 2 /\ ClosesAt["weights"] = 5 /\ ClosesAt["state"] = 7
  /\ File = {"meta", "weights", "state"}
BY DEF OpensAt, ClosesAt, File

LEMMA WriteFacts ==
  ASSUME Base, NEW t \in Thread, WriteNext(t)
  PROVE  /\ disk' \in [Step -> Directory]
         /\ at[t] = 0 => MakesDir(job[t].step)
         /\ at[t] # 0 => \E f \in File, v \in Int : Puts(t, f, v)
<1> DEFINE s == job[t].step
           w == Writes(job[t])[at[t]]
<1>1. s \in Step /\ s \in Int /\ job[t].weights \in Int /\ disk \in [Step -> Directory] /\ at[t] \in Nat /\ at[t] <= 7
  BY WriterFacts, Types DEF WriteNext, NumWrites
<1>2. CASE at[t] = 0
  <2>1. disk' = [disk EXCEPT ![s].dir = TRUE]
    BY <1>2 DEF WriteNext
  <2>2. disk' \in [Step -> Directory]
    BY <1>1, <2>1 DEF Directory
  <2>3. MakesDir(s)
    BY <1>1, <2>1 DEF MakesDir, Directory, File
  <2>4. QED
    BY <1>2, <2>2, <2>3
<1>3. ASSUME NEW f \in File, NEW v \in Int, at[t] # 0, w = [file |-> f, to |-> v],
             \/ at[t] = OpensAt[f] /\ v = Empty /\ Opens(at[t])
             \/ OpensAt[f] < at[t] /\ at[t] < ClosesAt[f] /\ f = "weights" /\ v = Cut /\ ~Opens(at[t])
             \/ at[t] = ClosesAt[f] /\ v = (IF f = "weights" THEN job[t].weights ELSE s) /\ ~Opens(at[t])
      PROVE  disk' \in [Step -> Directory] /\ Puts(t, f, v)
  <2>1. /\ Opens(at[t]) => disk[s].dir
        /\ disk' = IF Opens(at[t]) \/ disk[s][f] # Missing THEN [disk EXCEPT ![s][f] = v] ELSE disk
    BY <1>3 DEF WriteNext
  <2>2. at[t] = OpensAt[f] <=> Opens(at[t])
    BY <1>1, <1>3, OrderFacts
  <2>3. disk' \in [Step -> Directory]
    BY <1>1, <2>1, UpdateFacts
  <2>4. \A u \in Step, g \in File :
          disk'[u][g] = IF u = s /\ g = f /\ (at[t] = OpensAt[f] \/ disk[s][f] # Missing)
                        THEN v ELSE disk[u][g]
    BY <1>1, <2>1, <2>2, UpdateFacts
  <2>5. \A u \in Step : disk'[u].dir = disk[u].dir
    BY <1>1, <2>1, UpdateFacts
  <2>6. QED
    BY <1>3, <2>1, <2>2, <2>3, <2>4, <2>5 DEF Puts
<1>4. ASSUME at[t] # 0
      PROVE  \E f \in File, v \in Int : disk' \in [Step -> Directory] /\ Puts(t, f, v)
  <2>1. CASE at[t] = 1
    <3>1. w = [file |-> "meta", to |-> Empty] /\ Opens(at[t])
      BY <2>1 DEF Writes, Opens
    <3>2. QED
      BY <1>3, <2>1, <3>1, OrderFacts DEF Empty
  <2>2. CASE at[t] = 2
    <3>1. w = [file |-> "meta", to |-> s] /\ ~Opens(at[t])
      BY <2>2 DEF Writes, Opens
    <3>2. QED
      BY <1>1, <1>3, <2>2, <3>1, OrderFacts
  <2>3. CASE at[t] = 3
    <3>1. w = [file |-> "weights", to |-> Empty] /\ Opens(at[t])
      BY <2>3 DEF Writes, Opens
    <3>2. QED
      BY <1>3, <2>3, <3>1, OrderFacts DEF Empty
  <2>4. CASE at[t] = 4
    <3>1. w = [file |-> "weights", to |-> Cut] /\ ~Opens(at[t])
      BY <2>4 DEF Writes, Opens
    <3>2. QED
      BY <1>3, <2>4, <3>1, OrderFacts DEF Cut
  <2>5. CASE at[t] = 5
    <3>1. w = [file |-> "weights", to |-> job[t].weights] /\ ~Opens(at[t])
      BY <2>5 DEF Writes, Opens
    <3>2. QED
      BY <1>1, <1>3, <2>5, <3>1, OrderFacts
  <2>6. CASE at[t] = 6
    <3>1. w = [file |-> "state", to |-> Empty] /\ Opens(at[t])
      BY <2>6 DEF Writes, Opens
    <3>2. QED
      BY <1>3, <2>6, <3>1, OrderFacts DEF Empty
  <2>7. CASE at[t] = 7
    <3>1. w = [file |-> "state", to |-> s] /\ ~Opens(at[t])
      BY <2>7 DEF Writes, Opens
    <3>2. QED
      BY <1>1, <1>3, <2>7, <3>1, OrderFacts
  <2>8. at[t] \in 1 .. 7
    BY <1>1, <1>4
  <2>9. QED
    BY <2>1, <2>2, <2>3, <2>4, <2>5, <2>6, <2>7, <2>8
<1>5. QED
  BY <1>2, <1>4
-----------------------------------------------------------------------------
LEMMA QuietBase ==
  ASSUME Base, WaitBegin \/ WaitFlag \/ WaitCount \/ Stop \/ Joined
         \/ SaverFlag \/ SaverTest \/ SaverSleep \/ SaverExit \/ GCTest
  PROVE  Base'
<1>1. UNCHANGED <<async, disk, registry, live, pending, job, at, torn, saved, taken, crashes>>
  BY DEF WaitBegin, WaitFlag, WaitCount, Stop, Joined, SaverFlag, SaverTest, SaverSleep, SaverExit, GCTest, queueing, writers
<1>2. /\ pc' \in {"TRAIN", "GC_REMOVE", "WAIT", "WAIT_COUNT", "JOIN", "STOPPED"} \/ pc' = pc
      /\ pc' # pc => pc # "WRITE"
      /\ saver' = saver \/ (saver = "POPPED" /\ saver' = "WRITE") \/ (saver \in {"LOOP", "POP"} /\ saver' \in {"LOOP", "POP", "EXITED"})
      /\ running' \in BOOLEAN /\ inProgress' \in BOOLEAN
  BY DEF WaitBegin, WaitFlag, WaitCount, Stop, Joined, SaverFlag, SaverTest, SaverSleep, SaverExit, GCTest, queueing, Base, TypeOK
<1>3. TypeOK'
  BY <1>1, <1>2 DEF Base, TypeOK
<1>4. DiskTypes'
  BY <1>1 DEF Base, DiskTypes
<1>5. Threads'
  BY <1>1, <1>2 DEF Base, Threads, Saves
<1>6. QED
  BY <1>3, <1>4, <1>5 DEF Base

LEMMA TrainBase ==
  ASSUME Base, Train
  PROVE  Base'
<1>1. /\ UNCHANGED <<async, disk, registry, queueing, writers, torn, saved, crashes>>
      /\ taken' = taken + 1 /\ live'.step = live.step + 1 /\ live'.weights = live.weights + 1
      /\ live' = [step |-> live.step + 1, weights |-> live.weights + 1]
      /\ pc = "TRAIN" /\ pc' \in {"TRAIN", "SAVE"} /\ taken < MaxStep
  BY DEF Train
<1>2. taken \in Nat /\ MaxStep \in Nat /\ live.step \in Nat /\ live.weights \in Nat /\ live.step <= taken
  BY Types DEF Base, Threads
<1>3. taken' \in 0 .. MaxStep /\ live' \in State
  BY <1>1, <1>2 DEF State
<1>4. TypeOK'
  BY <1>1, <1>3 DEF Base, TypeOK, queueing, writers
<1>5. DiskTypes'
  BY <1>1, <1>2, Types DEF Base, DiskTypes, Directory
<1>6. \A x \in Saves : x \in Saves'
  BY <1>1, <1>2, Types DEF Saves, State
<1>7. Threads'
  BY <1>1, <1>2, <1>6 DEF Base, Threads, queueing, writers
<1>8. QED
  BY <1>4, <1>5, <1>7 DEF Base

LEMMA LiveSaved ==
  ASSUME Base, live.step >= 1
  PROVE  live \in Saves /\ live \in State
BY DEF Base, TypeOK, Threads, Saves

LEMMA SaveBeginBase ==
  ASSUME Base, SaveBegin
  PROVE  Base'
<1>1. UNCHANGED <<async, disk, registry, live, running, inProgress, saver, torn, saved, taken, crashes>>
  BY DEF SaveBegin
<1>2. live \in Saves /\ live \in State /\ pc = "SAVE" /\ live.step >= 1
  BY LiveSaved DEF SaveBegin, Base, Threads
<1>3. DiskTypes'
  BY <1>1 DEF Base, DiskTypes
<1>4. CASE async
  <2>1. pending' = Append(pending, live) /\ pc' = "REGISTER" /\ UNCHANGED <<job, at>>
    BY <1>4 DEF SaveBegin, writers
  <2>2. pending \in Seq(State)
    BY DEF Base, TypeOK
  <2>3. /\ pending' \in Seq(State) /\ Len(pending') = Len(pending) + 1 /\ Len(pending) \in Nat
        /\ \A i \in 1 .. Len(pending) : pending'[i] = pending[i]
        /\ pending'[Len(pending) + 1] = live
    BY <1>2, <2>1, <2>2, AppendFacts
  <2>4. TypeOK'
    BY <1>1, <2>1, <2>3 DEF Base, TypeOK
  <2>5. ASSUME NEW i \in 1 .. Len(pending') PROVE pending'[i] \in Saves'
    <3>1. i \in 1 .. Len(pending) \/ i = Len(pending) + 1
      BY <2>3
    <3>2. pending'[i] \in Saves
      BY <1>2, <2>3, <3>1 DEF Base, Threads
    <3>3. QED
      BY <1>1, <3>2 DEF Saves
  <2>6. Threads'
    BY <1>1, <1>2, <1>4, <2>1, <2>5 DEF Base, Threads, Saves
  <2>7. QED
    BY <1>3, <2>4, <2>6 DEF Base
<1>5. CASE ~async
  <2>1. /\ pending' = pending /\ pc' = "WRITE"
        /\ job' = [job EXCEPT !["main"] = live] /\ at' = [at EXCEPT !["main"] = 0]
    BY <1>5 DEF SaveBegin
  <2>2. job \in [Thread -> State] /\ at \in [Thread -> 0 .. NumWrites + 1] /\ 0 \in 0 .. NumWrites + 1
    BY DEF Base, TypeOK, NumWrites
  <2>3. job' \in [Thread -> State] /\ at' \in [Thread -> 0 .. NumWrites + 1]
    BY <1>2, <2>1, <2>2
  <2>4. job'["main"] = live /\ job'["saver"] = job["saver"] /\ at'["saver"] = at["saver"]
    BY <2>1, <2>2 DEF Thread
  <2>5. TypeOK'
    BY <1>1, <2>1, <2>3 DEF Base, TypeOK
  <2>6. Threads'
    BY <1>1, <1>2, <1>5, <2>1, <2>4 DEF Base, Threads, Saves
  <2>7. QED
    BY <1>3, <2>5, <2>6 DEF Base
<1>6. QED
  BY <1>4, <1>5

LEMMA TookBackFacts ==
  ASSUME Base, NEW t \in Thread, job' = [job EXCEPT ![t] = NoJob], at' = [at EXCEPT ![t] = 0]
  PROVE  /\ job' \in [Thread -> State] /\ at' \in [Thread -> 0 .. NumWrites + 1]
         /\ job'[t] = NoJob /\ at'[t] = 0
         /\ \A u \in Thread : u # t => job'[u] = job[u] /\ at'[u] = at[u]
<1>1. NoJob \in State
  BY RegistryAssumption DEF NoJob, State
<1>2. job \in [Thread -> State] /\ at \in [Thread -> 0 .. NumWrites + 1] /\ 0 \in 0 .. NumWrites + 1
  BY DEF Base, TypeOK, NumWrites
<1>3. QED
  BY <1>1, <1>2

LEMMA SaveEndsBase ==
  ASSUME Base, SaveWritten \/ SaveFails
  PROVE  Base'
<1>1. /\ UNCHANGED <<async, disk, registry, live, pending, running, inProgress, saver, saved, taken, crashes>>
      /\ pc = "WRITE" /\ pc' \in {"REGISTER", "TRAIN"}
      /\ job' = [job EXCEPT !["main"] = NoJob] /\ at' = [at EXCEPT !["main"] = 0]
      /\ torn' = torn \/ torn' = torn \cup {job["main"].step}
  BY DEF SaveWritten, SaveFails, queueing
<1>2. /\ job' \in [Thread -> State] /\ at' \in [Thread -> 0 .. NumWrites + 1]
      /\ job'["main"] = NoJob /\ at'["main"] = 0 /\ job'["saver"] = job["saver"] /\ at'["saver"] = at["saver"]
  BY <1>1, TookBackFacts DEF Thread
<1>3. job["main"].step \in Step
  BY <1>1, WriterFacts DEF Writing, Thread
<1>4. torn' \subseteq Step
  BY <1>1, <1>3 DEF Base, TypeOK
<1>5. TypeOK'
  BY <1>1, <1>2, <1>4 DEF Base, TypeOK
<1>6. DiskTypes'
  BY <1>1 DEF Base, DiskTypes
<1>7. Threads'
  BY <1>1, <1>2 DEF Base, Threads, Saves
<1>8. QED
  BY <1>5, <1>6, <1>7 DEF Base

LEMMA SaverDoneBase ==
  ASSUME Base, SaverDone
  PROVE  Base'
<1>1. /\ UNCHANGED <<async, disk, registry, live, pc, pending, running, saved, taken, crashes>>
      /\ saver = "WRITE" /\ saver' = "LOOP" /\ inProgress' = FALSE
      /\ job' = [job EXCEPT !["saver"] = NoJob] /\ at' = [at EXCEPT !["saver"] = 0]
      /\ torn' = torn \/ torn' = torn \cup {job["saver"].step}
  BY DEF SaverDone
<1>2. /\ job' \in [Thread -> State] /\ at' \in [Thread -> 0 .. NumWrites + 1]
      /\ job'["saver"] = NoJob /\ at'["saver"] = 0 /\ job'["main"] = job["main"] /\ at'["main"] = at["main"]
  BY <1>1, TookBackFacts DEF Thread
<1>3. job["saver"].step \in Step
  BY <1>1, WriterFacts DEF Writing, Thread
<1>4. torn' \subseteq Step
  BY <1>1, <1>3 DEF Base, TypeOK
<1>5. TypeOK'
  BY <1>1, <1>2, <1>4 DEF Base, TypeOK
<1>6. DiskTypes'
  BY <1>1 DEF Base, DiskTypes
<1>7. Threads'
  BY <1>1, <1>2 DEF Base, Threads, Saves
<1>8. QED
  BY <1>5, <1>6, <1>7 DEF Base

LEMMA RegisterBase ==
  ASSUME Base, Register
  PROVE  Base'
<1>1. /\ UNCHANGED <<async, disk, live, queueing, writers, torn, saved, taken, crashes>>
      /\ registry' = registry \cup {live.step} /\ pc = "REGISTER" /\ pc' = "GC"
  BY DEF Register
<1>2. live.step \in Step
  BY <1>1, LiveSaved, Types DEF Base, Threads
<1>3. TypeOK'
  BY <1>1, <1>2 DEF Base, TypeOK, queueing, writers
<1>4. DiskTypes'
  BY <1>1 DEF Base, DiskTypes
<1>5. Threads'
  BY <1>1 DEF Base, Threads, Saves, queueing, writers
<1>6. QED
  BY <1>3, <1>4, <1>5 DEF Base

(* What is popped is one of the queue; the rest stays. *)
LEMMA PopFacts ==
  ASSUME Base, SaverPop
  PROVE  /\ UNCHANGED <<async, disk, registry, live, pc, running, inProgress, torn, saved, taken, crashes>>
         /\ saver = "POP" /\ saver' = "POPPED"
         /\ pending' \in Seq(State) /\ Len(pending') = Len(pending) - 1
         /\ Len(pending) \in Nat /\ Len(pending) \in 1 .. Len(pending)
         /\ \A i \in 1 .. Len(pending') : pending'[i] = pending[i] /\ i \in 1 .. Len(pending)
         /\ job' \in [Thread -> State] /\ at' \in [Thread -> 0 .. NumWrites + 1]
         /\ job'["saver"] = pending[Len(pending)] /\ at'["saver"] = 0
         /\ job'["main"] = job["main"] /\ at'["main"] = at["main"]
<1>1. /\ UNCHANGED <<async, disk, registry, live, pc, running, inProgress, torn, saved, taken, crashes>>
      /\ saver = "POP" /\ saver' = "POPPED" /\ pending # <<>>
      /\ job' = [job EXCEPT !["saver"] = Last(pending)] /\ at' = [at EXCEPT !["saver"] = 0]
      /\ pending' = Front(pending)
  BY DEF SaverPop
<1>2. pending \in Seq(State)
  BY DEF Base, TypeOK
<1>3. /\ pending' \in Seq(State) /\ Len(pending') = Len(pending) - 1
      /\ Len(pending) \in Nat /\ Len(pending) \in 1 .. Len(pending)
      /\ \A i \in 1 .. Len(pending') : pending'[i] = pending[i] /\ i \in 1 .. Len(pending)
      /\ Last(pending) = pending[Len(pending)] /\ Last(pending) \in State
  BY <1>1, <1>2, FrontFacts
<1>4. job \in [Thread -> State] /\ at \in [Thread -> 0 .. NumWrites + 1] /\ 0 \in 0 .. NumWrites + 1
  BY DEF Base, TypeOK, NumWrites
<1>5. job' \in [Thread -> State] /\ at' \in [Thread -> 0 .. NumWrites + 1]
  BY <1>1, <1>3, <1>4
<1>6. /\ job'["saver"] = pending[Len(pending)] /\ at'["saver"] = 0
      /\ job'["main"] = job["main"] /\ at'["main"] = at["main"]
  BY <1>1, <1>3, <1>4 DEF Thread
<1>7. QED
  BY <1>1, <1>3, <1>5, <1>6

LEMMA SaverPopBase ==
  ASSUME Base, SaverPop
  PROVE  Base'
<1>1. TypeOK'
  BY PopFacts DEF Base, TypeOK
<1>2. DiskTypes'
  BY PopFacts DEF Base, DiskTypes
<1>3. Threads'
  <2>1. job'["saver"] \in Saves /\ \A i \in 1 .. Len(pending') : pending'[i] \in Saves
    BY PopFacts DEF Base, Threads
  <2>2. \A x \in Saves : x \in Saves'
    BY PopFacts DEF Saves
  <2>3. async
    BY PopFacts DEF Base, Threads
  <2>4. QED
    BY PopFacts, <2>1, <2>2, <2>3 DEF Base, Threads
<1>4. QED
  BY <1>1, <1>2, <1>3 DEF Base

LEMMA WriteNextBase ==
  ASSUME Base, NEW t \in Thread, WriteNext(t)
  PROVE  Base'
<1> DEFINE s == job[t].step
<1>1. /\ UNCHANGED <<async, registry, live, pc, queueing, job, torn, taken, crashes>>
      /\ Writing(t) /\ at[t] <= NumWrites
      /\ at' = [at EXCEPT ![t] = @ + 1]
      /\ saved' = s \/ saved' = saved
  BY DEF WriteNext
<1>2. /\ job[t] \in Saves /\ s \in Step /\ s \in Nat /\ s >= 1 /\ s <= taken
      /\ job[t].weights \in Nat /\ taken \in Nat /\ disk \in [Step -> Directory]
      /\ at \in [Thread -> 0 .. NumWrites + 1] /\ at[t] \in Nat
  BY <1>1, WriterFacts, Types DEF Saves, Base, TypeOK
<1>3. disk' \in [Step -> Directory]
  BY WriteFacts
<1>4. at[t] + 1 \in 0 .. NumWrites + 1
  BY <1>1, <1>2 DEF NumWrites
<1>5. at' \in [Thread -> 0 .. NumWrites + 1] /\ at'[t] = at[t] + 1 /\ \A u \in Thread : u # t => at'[u] = at[u]
  BY <1>1, <1>2, <1>4
<1>6. TypeOK'
  BY <1>1, <1>2, <1>3, <1>5 DEF Base, TypeOK, Directory, queueing
<1>7. DiskTypes'
  <2> SUFFICES ASSUME NEW u \in Step
               PROVE  /\ disk'[u]["meta"] >= Empty /\ disk'[u]["state"] >= Empty /\ disk'[u]["state"] <= taken
                      /\ disk'[u]["weights"] >= Cut
                      /\ ~disk'[u].dir => \A g \in File : disk'[u][g] = Missing
    BY <1>1, <1>3 DEF DiskTypes, Directory
  <2>1. /\ disk[u]["meta"] >= Empty /\ disk[u]["state"] >= Empty /\ disk[u]["state"] <= taken
        /\ disk[u]["weights"] >= Cut
        /\ ~disk[u].dir => \A g \in File : disk[u][g] = Missing
    BY <1>2 DEF Base, DiskTypes, Directory
  <2>2. CASE at[t] = 0
    <3>1. MakesDir(s)
      BY <2>2, WriteFacts
    <3>2. QED
      BY <2>1, <3>1, OrderFacts DEF MakesDir
  <2>3. CASE at[t] # 0
    <3>1. PICK f \in File, v \in Int : Puts(t, f, v)
      BY <2>3, WriteFacts
    <3>2. /\ \A g \in File : disk'[u][g] = IF u = s /\ g = f /\ (at[t] = OpensAt[f] \/ disk[s][f] # Missing)
                                           THEN v ELSE disk[u][g]
          /\ disk'[u].dir = disk[u].dir
          /\ at[t] = OpensAt[f] => disk[s].dir
      BY <1>2, <3>1, OrderFacts DEF Puts
    <3>3. v >= Cut /\ (v >= Empty \/ f = "weights") /\ (v <= taken \/ f = "weights")
      BY <1>2, <3>1 DEF Puts, Empty, Cut
    <3>4. disk'[u]["meta"] >= Empty /\ disk'[u]["state"] >= Empty /\ disk'[u]["state"] <= taken /\ disk'[u]["weights"] >= Cut
      BY <2>1, <3>2, <3>3, OrderFacts
    <3>5. ASSUME ~disk'[u].dir, NEW g \in File PROVE disk'[u][g] = Missing
      BY <2>1, <3>2, <3>5
    <3>6. QED
      BY <3>4, <3>5
  <2>4. QED
    BY <2>2, <2>3
<1>8. Threads'
  <2>1. t = "main" <=> pc = "WRITE"
    BY <1>1 DEF Writing, Base, Threads, Thread
  <2>2. t = "saver" => saver = "WRITE"
    BY <1>1 DEF Writing
  <2>3. (pc # "WRITE" => at'["main"] = at["main"]) /\ (saver # "WRITE" => at'["saver"] = at["saver"])
    BY <1>5, <2>1, <2>2 DEF Thread
  <2>4. QED
    BY <1>1, <2>3 DEF Base, Threads, Saves, queueing
<1>9. QED
  BY <1>6, <1>7, <1>8 DEF Base

LEMMA UnlinkFacts ==
  ASSUME Base, GCUnlink, registry # {}
  PROVE  /\ UNCHANGED <<async, registry, live, pc, queueing, writers, torn, saved, taken, crashes>>
         /\ pc = "GC_REMOVE" /\ disk' \in [Step -> Directory]
         /\ \E f \in File : \A u \in Step, g \in File :
              disk'[u][g] = IF u = Doomed /\ g = f THEN Missing ELSE disk[u][g]
         /\ \A u \in Step : disk'[u].dir = disk[u].dir
<1>1. /\ UNCHANGED <<async, registry, live, pc, queueing, writers, torn, saved, taken, crashes>>
      /\ pc = "GC_REMOVE"
  BY DEF GCUnlink
<1>2. PICK f \in File : disk' = [disk EXCEPT ![Doomed][f] = Missing]
  BY DEF GCUnlink
<1>3. Doomed \in Step /\ disk \in [Step -> Directory] /\ Missing \in Int
  BY Types, OldestFacts DEF Doomed, Missing
<1> DEFINE d == Doomed
<1> HIDE DEF d
<1>4. d \in Step /\ d = Doomed
  BY <1>3 DEF d
<1>5. disk' = [disk EXCEPT ![d][f] = Missing]
  BY <1>2 DEF d
<1>6. /\ disk' \in [Step -> Directory]
      /\ \A u \in Step, g \in File : disk'[u][g] = IF u = d /\ g = f THEN Missing ELSE disk[u][g]
      /\ \A u \in Step : disk'[u].dir = disk[u].dir
  BY <1>3, <1>4, <1>5 DEF Directory, File
<1>7. QED
  BY <1>1, <1>4, <1>6

(* At GC_REMOVE there is something to remove. *)
LEMMA NothingToRemove ==
  ASSUME Base, NEW d, NEW f \in File, d \notin Step, disk' = [disk EXCEPT ![d][f] = Missing]
  PROVE  disk' = disk
BY Types

LEMMA GCUnlinkBase ==
  ASSUME Base, GCUnlink
  PROVE  Base'
<1>1. UNCHANGED <<async, registry, live, pc, queueing, writers, torn, saved, taken, crashes>>
  BY DEF GCUnlink
<1>2. disk \in [Step -> Directory]
  BY Types
<1>3. PICK f \in File : disk' = [disk EXCEPT ![Doomed][f] = Missing]
  BY DEF GCUnlink
<1>4. /\ disk' \in [Step -> Directory] /\ \A u \in Step : disk'[u].dir = disk[u].dir
      /\ \A u \in Step, g \in File : disk'[u][g] = disk[u][g] \/ disk'[u][g] = Missing
  <2>1. CASE Doomed \in Step
    <3> DEFINE d == Doomed
    <3>1. d \in Step /\ disk' = [disk EXCEPT ![d][f] = Missing]
      BY <1>3, <2>1
    <3> HIDE DEF d
    <3>2. Missing \in Int
      BY DEF Missing
    <3>3. /\ disk' \in [Step -> Directory]
          /\ \A u \in Step, g \in File : disk'[u][g] = IF u = d /\ g = f THEN Missing ELSE disk[u][g]
          /\ \A u \in Step : disk'[u].dir = disk[u].dir
      BY <1>2, <3>1, <3>2 DEF Directory, File
    <3>4. QED
      BY <3>3
  <2>2. CASE Doomed \notin Step
    BY <1>2, <1>3, <2>2, NothingToRemove
  <2>3. QED
    BY <2>1, <2>2
<1>5. TypeOK'
  BY <1>1, <1>4 DEF Base, TypeOK, Directory, queueing, writers
<1>6. DiskTypes'
  <2> SUFFICES ASSUME NEW u \in Step
               PROVE  /\ disk'[u]["meta"] >= Empty /\ disk'[u]["state"] >= Empty /\ disk'[u]["state"] <= taken
                      /\ disk'[u]["weights"] >= Cut
                      /\ ~disk'[u].dir => \A g \in File : disk'[u][g] = Missing
    BY <1>1, <1>4 DEF DiskTypes, Directory
  <2>1. /\ disk[u]["meta"] >= Empty /\ disk[u]["state"] >= Empty /\ disk[u]["state"] <= taken
        /\ disk[u]["weights"] >= Cut
        /\ ~disk[u].dir => \A g \in File : disk[u][g] = Missing
    BY <1>2 DEF Base, DiskTypes, Directory
  <2>2. taken \in Nat
    BY Types
  <2>3. QED
    BY <1>4, <2>1, <2>2, OrderFacts DEF Missing, Empty, Cut
<1>7. Threads'
  BY <1>1 DEF Base, Threads, Saves, queueing, writers
<1>8. QED
  BY <1>5, <1>6, <1>7 DEF Base

LEMMA GCRemovedBase ==
  ASSUME Base, GCRemoved
  PROVE  Base'
<1>1. /\ UNCHANGED <<async, live, queueing, writers, torn, saved, taken, crashes>>
      /\ pc = "GC_REMOVE" /\ pc' = "GC" /\ registry' = registry \ {Doomed}
      /\ \/ UNCHANGED disk
         \/ (\A f \in File : disk[Doomed][f] = Missing) /\ disk' = [disk EXCEPT ![Doomed].dir = FALSE]
  BY DEF GCRemoved
<1>2. disk \in [Step -> Directory]
  BY Types
<1>3. /\ disk' \in [Step -> Directory]
      /\ \A u \in Step, g \in File : disk'[u][g] = disk[u][g]
      /\ \A u \in Step : disk'[u].dir = disk[u].dir \/ (\A g \in File : disk[u][g] = Missing)
  <2>1. CASE UNCHANGED disk
    BY <1>2, <2>1
  <2>2. CASE Doomed \notin Step /\ disk' = [disk EXCEPT ![Doomed].dir = FALSE]
    BY <1>2, <2>2
  <2>3. CASE /\ Doomed \in Step /\ disk' = [disk EXCEPT ![Doomed].dir = FALSE]
             /\ \A f \in File : disk[Doomed][f] = Missing
    BY <1>2, <2>3 DEF Directory, File
  <2>4. QED
    BY <1>1, <2>1, <2>2, <2>3
<1>4. TypeOK'
  BY <1>1, <1>3 DEF Base, TypeOK, Directory, queueing, writers
<1>5. DiskTypes'
  <2> SUFFICES ASSUME NEW u \in Step
               PROVE  /\ disk'[u]["meta"] >= Empty /\ disk'[u]["state"] >= Empty /\ disk'[u]["state"] <= taken
                      /\ disk'[u]["weights"] >= Cut
                      /\ ~disk'[u].dir => \A g \in File : disk'[u][g] = Missing
    BY <1>1, <1>3 DEF DiskTypes, Directory
  <2>1. /\ disk[u]["meta"] >= Empty /\ disk[u]["state"] >= Empty /\ disk[u]["state"] <= taken
        /\ disk[u]["weights"] >= Cut
        /\ ~disk[u].dir => \A g \in File : disk[u][g] = Missing
    BY <1>2 DEF Base, DiskTypes, Directory
  <2>2. QED
    BY <1>3, <2>1, OrderFacts
<1>6. Threads'
  BY <1>1 DEF Base, Threads, Saves, queueing, writers
<1>7. QED
  BY <1>4, <1>5, <1>6 DEF Base

(* The directories a new process finds. *)
Found == {s \in Step : disk[s].dir}
Ok == Found = {} \/ Loadable(Newest(Found))
Interrupted == {job[t].step : t \in {u \in Thread : at[u] \in 1 .. NumWrites}} \ {0}

LEMMA RestartFacts ==
  ASSUME Base, Restart
  PROVE  /\ UNCHANGED <<async, disk, saved, taken>>
         /\ crashes' = crashes + 1 /\ crashes < MaxCrashes /\ pc # "LOAD_FAILED"
         /\ registry' = Found
         /\ Found = {} \/ ~Ok => live' = NoJob
         /\ Found # {} /\ Ok => live' = [step |-> disk[Newest(Found)].state, weights |-> disk[Newest(Found)].weights]
         /\ pc' = IF Ok THEN "TRAIN" ELSE "LOAD_FAILED"
         /\ pending' = <<>> /\ running' = async /\ inProgress' = FALSE
         /\ saver' = IF async THEN "LOOP" ELSE "NONE"
         /\ job' = [t \in Thread |-> NoJob] /\ at' = [t \in Thread |-> 0]
         /\ torn' = torn \cup Interrupted
BY DEF Restart, Found, Ok, Interrupted

LEMMA RestartBase ==
  ASSUME Base, Restart
  PROVE  Base'
<1>1. NoJob \in State /\ NoJob.step = 0 /\ MaxCrashes \in Nat
  BY RegistryAssumption DEF NoJob, State
<1>2. torn' \subseteq Step
  <2>1. \A t \in Thread : job[t].step # 0 => job[t].step \in Step
    <3>1. \A t \in Thread : job[t] \in State
      BY Types
    <3>2. QED
      BY <3>1, RegistryAssumption DEF State, Step
  <2>2. Interrupted \subseteq Step
    BY <2>1 DEF Interrupted
  <2>3. QED
    BY <2>2, RestartFacts DEF Base, TypeOK
<1>3. live' \in State /\ live'.step <= taken
  <2>1. CASE Found = {} \/ ~Ok
    BY <1>1, <2>1, RestartFacts, Types
  <2>2. CASE Found # {} /\ Ok
    <3> DEFINE n == Newest(Found)
    <3>1. n \in Step
      <4>1. Found \in SUBSET Step
        BY DEF Found
      <4>2. QED
        BY <2>2, <4>1, NewestFacts
    <3>2. Loadable(n) /\ live' = [step |-> disk[n].state, weights |-> disk[n].weights]
      BY <2>2, RestartFacts DEF Ok
    <3> HIDE DEF n
    <3>3. disk[n] \in Directory /\ taken \in Nat /\ taken <= MaxStep /\ MaxStep \in Nat
      BY <3>1, Types DEF Base, TypeOK
    <3>4. disk[n].state \in Int /\ disk[n].weights \in Int
      BY <3>3 DEF Directory
    <3>5. disk[n].state >= 0 /\ disk[n].state <= taken /\ disk[n].weights >= 0
      BY <3>1, <3>2, <3>4 DEF Loadable, Base, DiskTypes, Empty, Cut
    <3>6. QED
      BY <3>2, <3>3, <3>4, <3>5 DEF State
  <2>3. QED
    BY <2>1, <2>2
<1>4. registry' \subseteq Step /\ crashes' \in 0 .. MaxCrashes
  BY <1>1, RestartFacts, Types DEF Found
<1>5. job' \in [Thread -> State] /\ at' \in [Thread -> 0 .. NumWrites + 1]
  BY <1>1, RestartFacts DEF NumWrites
<1>6. pending' \in Seq(State)
  BY RestartFacts, EmptySeq
<1>7. TypeOK'
  BY <1>2, <1>3, <1>4, <1>5, <1>6, RestartFacts DEF Base, TypeOK
<1>8. DiskTypes'
  BY RestartFacts DEF Base, DiskTypes
<1>9. Threads'
  BY <1>3, RestartFacts DEF Threads, Thread
<1>10. QED
  BY <1>7, <1>8, <1>9 DEF Base

LEMMA NextBase == Base /\ [Next]_vars => Base'
<1> SUFFICES ASSUME Base, [Next]_vars PROVE Base'
  OBVIOUS
<1>1. CASE UNCHANGED vars
  BY <1>1 DEF vars, queueing, writers, Base, TypeOK, DiskTypes, Threads, Saves
<1>2. CASE MainNext
  BY <1>2, QuietBase, SaveBeginBase, WriteNextBase, SaveEndsBase, RegisterBase, GCUnlinkBase, GCRemovedBase
  DEF MainNext, Thread
<1>3. CASE SaverNext
  BY <1>3, QuietBase, SaverPopBase, WriteNextBase, SaverDoneBase DEF SaverNext, Thread
<1>4. QED
  BY <1>1, <1>2, <1>3, QuietBase, TrainBase, RestartBase DEF Next, Terminating

(* The type invariant, and what each thread holds at each step. *)
THEOREM BaseInvariance == Spec => []Base
<1>1. QED
  BY InitBase, NextBase, PTL DEF Spec

(* Every variable keeps its type; the numbers a resumed job takes from the   *)
(* files of a directory are those of a training state.                      *)
THEOREM TypeCorrect == Spec => []TypeOK
<1>1. Base => TypeOK
  BY DEF Base
<1>2. QED
  BY <1>1, BaseInvariance, PTL
-----------------------------------------------------------------------------
(* What holds as long as no save was cut short. *)
Waiting(s) == \E i \in 1 .. Len(pending) : pending[i].step = s
InHand(s) == saver \in {"POPPED", "WRITE"} /\ job["saver"].step = s

SameWeights ==
  /\ live.weights = live.step
  /\ \A i \in 1 .. Len(pending) : pending[i].weights = pending[i].step
  /\ \A t \in Thread : job[t].weights = job[t].step

FilesFilled == \A s \in Step, f \in File : disk[s][f] = s \/ disk[s][f] = Missing \/ OpenIn(s, f)

NewerThan(s) == \E u \in Step : u > s /\ disk[u].dir

FilesKept == \A s \in Step, f \in File : disk[s].dir /\ disk[s][f] = Missing => ToOpen(s, f) \/ NewerThan(s)

Ahead ==
  /\ \A s \in Step :
       disk[s].dir \/ s \in registry \/ Waiting(s) \/ InHand(s) =>
         s <= live.step /\ (pc = "SAVE" => s < live.step)
  /\ pc # "LOAD_FAILED"

Collecting ==
  /\ pc \in {"GC", "GC_REMOVE"} => live.step \in registry
  /\ pc = "GC_REMOVE" =>
       disk[live.step].dir /\ Cardinality(registry) > MaxCheckpoints /\ Newest(registry) = live.step

MainWrites ==
  pc = "WRITE" =>
    /\ at["main"] = 0 => ~disk[live.step].dir
    /\ at["main"] >= 1 => disk[live.step].dir
    /\ at["main"] <= NumWrites => disk[live.step]["state"] <= 0

SavedKept ==
  ~async => /\ saved <= live.step /\ (pc = "SAVE" => saved < live.step)
            /\ saved # 0 => \E s \in Step : s >= saved /\ Whole(s)

(* The registry, with what is about to be registered. *)
Registered == registry \cup (IF pc = "REGISTER" THEN {live.step} ELSE {})

RegisteredWritten ==
  \A s \in Registered : disk[s].dir \/ Waiting(s) \/ (InHand(s) /\ at["saver"] = 0)

AllRegistered ==
  \A s \in Step :
    disk[s].dir \/ Waiting(s) \/ InHand(s) =>
      \/ s \in Registered \/ (pc = "WRITE" /\ s = live.step)
      \/ async /\ \E u \in registry : u > s

Newer(s) == {u \in registry : u > s}

KeptWhole ==
  ~async \/ crashes = 0 =>
    \A s \in Registered, f \in File :
      disk[s].dir /\ disk[s][f] = Missing => ToOpen(s, f) \/ Cardinality(Newer(s)) >= MaxCheckpoints

Good ==
  /\ SameWeights /\ FilesFilled /\ FilesKept /\ Ahead /\ Collecting /\ MainWrites
  /\ SavedKept /\ RegisteredWritten /\ AllRegistered /\ KeptWhole
-----------------------------------------------------------------------------
LEMMA InitGood == Init => Good
<1> SUFFICES ASSUME Init PROVE Good
  OBVIOUS
<1>1. /\ \A s \in Step, f \in File : disk[s][f] = Missing
      /\ \A s \in Step : ~disk[s].dir
      /\ registry = {} /\ pc = "TRAIN" /\ pending = <<>> /\ Len(pending) = 0 /\ saver \in {"LOOP", "NONE"}
      /\ live = NoJob /\ saved = 0 /\ \A t \in Thread : job[t] = NoJob
  BY OrderFacts DEF Init, Absent
<1>2. \A s \in Step : ~Waiting(s) /\ ~InHand(s) /\ s \notin registry
  BY <1>1 DEF Waiting, InHand
<1>3. SameWeights
  BY <1>1 DEF SameWeights, NoJob
<1>4. Registered = {} /\ live.step = 0
  BY <1>1 DEF Registered, NoJob
<1>5. FilesFilled /\ FilesKept
  BY <1>1 DEF FilesFilled, FilesKept
<1>6. Ahead /\ Collecting /\ MainWrites
  BY <1>1, <1>2 DEF Ahead, Collecting, MainWrites
<1>7. SavedKept
  BY <1>1, <1>4 DEF SavedKept
<1>8. RegisteredWritten /\ AllRegistered /\ KeptWhole
  BY <1>1, <1>2, <1>4 DEF RegisteredWritten, AllRegistered, KeptWhole
<1>9. QED
  BY <1>3, <1>5, <1>6, <1>7, <1>8 DEF Good

(* Steps that change neither the disk nor what is saved or registered. *)
LEMMA QuietGood ==
  ASSUME Base, Good, WaitBegin \/ WaitFlag \/ WaitCount \/ Stop \/ Joined
         \/ SaverFlag \/ SaverTest \/ SaverSleep \/ SaverExit \/ GCTest
  PROVE  Good'
<1>1. UNCHANGED <<async, disk, registry, live, pending, job, at, saved, crashes>>
  BY DEF WaitBegin, WaitFlag, WaitCount, Stop, Joined, SaverFlag, SaverTest, SaverSleep, SaverExit, GCTest, queueing, writers
<1>2. /\ pc' \in {"TRAIN", "GC_REMOVE", "WAIT", "WAIT_COUNT", "JOIN", "STOPPED"} \/ pc' = pc
      /\ pc' # pc => pc \notin {"WRITE", "REGISTER"}
      /\ saver' = saver \/ (saver = "POPPED" /\ saver' = "WRITE") \/ (saver \in {"LOOP", "POP"} /\ saver' \in {"LOOP", "POP", "EXITED"})
  BY DEF WaitBegin, WaitFlag, WaitCount, Stop, Joined, SaverFlag, SaverTest, SaverSleep, SaverExit, GCTest, queueing, Base, TypeOK
<1>3. saver # "WRITE" => at["saver"] = 0
  BY DEF Base, Threads
<1>4. /\ Writer' = Writer /\ Registered' = Registered
      /\ \A s : (InHand(s)' <=> InHand(s)) /\ (Waiting(s)' <=> Waiting(s)) /\ (NewerThan(s)' <=> NewerThan(s))
      /\ \A s : Whole(s)' <=> Whole(s)
      /\ \A s : Newer(s)' = Newer(s)
  BY <1>1, <1>2 DEF Writer, Registered, InHand, Waiting, NewerThan, Whole, WholeIn, Newer
<1>5. \A s : Active(s)' <=> Active(s) \/ (at[Writer] = 0 /\ Active(s)')
  BY <1>1, <1>2, <1>3 DEF Active, Writing, Writer
<1>6. \A s, f : f \in File => (OpenIn(s, f)' <=> OpenIn(s, f)) /\ (ToOpen(s, f)' <=> ToOpen(s, f))
  BY <1>1, <1>4, <1>5, OrderFacts DEF OpenIn, ToOpen
<1>7. SameWeights' /\ MainWrites' /\ SavedKept'
  BY <1>1, <1>2, <1>4 DEF Good, SameWeights, MainWrites, SavedKept
<1>8. FilesFilled' /\ FilesKept' /\ KeptWhole'
  BY <1>1, <1>4, <1>6 DEF Good, FilesFilled, FilesKept, KeptWhole
<1>9. Ahead' /\ RegisteredWritten' /\ AllRegistered'
  BY <1>1, <1>2, <1>4 DEF Good, Ahead, RegisteredWritten, AllRegistered
<1>10. Collecting'
  <2>1. CASE pc' = pc
    BY <1>1, <2>1 DEF Good, Collecting
  <2>2. CASE pc' # "GC_REMOVE" /\ pc' # pc
    BY <1>2, <2>2 DEF Collecting
  <2>3. CASE pc' = "GC_REMOVE" /\ pc # pc'
    <3>1. pc = "GC" /\ TooMany /\ Valid(Newest(registry)) /\ live.step \in registry
      BY <2>3 DEF WaitBegin, WaitFlag, WaitCount, Stop, Joined, SaverFlag, SaverTest, SaverSleep, SaverExit, GCTest, queueing,
                  Good, Collecting
    <3>2. Newest(registry) \in registry /\ \A s \in registry : s <= Newest(registry) /\ s \in Step /\ s \in Nat
      BY <3>1, NewestFacts, Types
    <3>3. Newest(registry) = live.step
      BY <3>1, <3>2 DEF Good, Ahead
    <3>4. disk[live.step].dir
      <4>1. disk[live.step] \in Directory /\ disk[live.step]["meta"] > 0 /\ live.step \in Step
        BY <3>1, <3>2, <3>3, Types DEF Valid
      <4>2. QED
        BY <4>1, OrderFacts DEF Base, DiskTypes, Missing
    <3>5. QED
      BY <1>1, <2>3, <3>1, <3>3, <3>4 DEF Collecting, TooMany
  <2>4. QED
    BY <2>1, <2>2, <2>3
<1>11. QED
  BY <1>7, <1>8, <1>9, <1>10 DEF Good

(* The files of a step that nobody is writing. *)
LEMMA ActiveFacts ==
  ASSUME Base
  PROVE  /\ \A s : Active(s) <=> \/ async /\ saver = "WRITE" /\ job["saver"].step = s
                                 \/ ~async /\ pc = "WRITE" /\ live.step = s
         /\ async => Writer = "saver"
         /\ ~async => Writer = "main"
         /\ \A s \in Step, f \in File : OpenIn(s, f) => Active(s) /\ at[Writer] >= 1 /\ at[Writer] <= NumWrites
         /\ \A s \in Step, f \in File : ToOpen(s, f) => Active(s) /\ at[Writer] >= 1 /\ at[Writer] <= NumWrites
<1>1. /\ async => Writer = "saver"
      /\ ~async => Writer = "main"
      /\ async \in BOOLEAN
  BY DEF Writer, Base, TypeOK
<1>2. \A s : Active(s) <=> \/ async /\ saver = "WRITE" /\ job["saver"].step = s
                           \/ ~async /\ pc = "WRITE" /\ live.step = s
  BY <1>1 DEF Active, Writing, Base, Threads
<1>3. at[Writer] \in Nat
  BY <1>1, Types DEF Thread
<1>4. \A s \in Step, f \in File : OpenIn(s, f) => Active(s) /\ at[Writer] >= 1 /\ at[Writer] <= NumWrites
  BY <1>3, OrderFacts DEF OpenIn, NumWrites
<1>5. \A s \in Step, f \in File : ToOpen(s, f) => Active(s) /\ at[Writer] >= 1 /\ at[Writer] <= NumWrites
  BY <1>3, OrderFacts DEF ToOpen, NumWrites
<1>6. QED
  BY <1>1, <1>2, <1>4, <1>5

LEMMA TrainGood ==
  ASSUME Base, Base', Good, Train
  PROVE  Good'
<1>1. /\ UNCHANGED <<async, disk, registry, pending, job, at, saver, saved, crashes>>
      /\ live'.step = live.step + 1 /\ live'.weights = live.weights + 1
      /\ pc = "TRAIN" /\ pc' \in {"TRAIN", "SAVE"}
  BY DEF Train, queueing, writers
<1>2. live.step \in Nat /\ live.weights \in Nat /\ saved \in Nat /\ \A s \in Step : s \in Nat
  BY Types
<1>3. /\ Writer' = Writer /\ Registered' = registry /\ Registered = registry
      /\ \A s : (InHand(s)' <=> InHand(s)) /\ (Waiting(s)' <=> Waiting(s)) /\ (NewerThan(s)' <=> NewerThan(s))
      /\ \A s : Whole(s)' <=> Whole(s)
      /\ \A s : Newer(s)' = Newer(s)
  BY <1>1 DEF Writer, Registered, InHand, Waiting, NewerThan, Whole, WholeIn, Newer
<1>4. \A s : Active(s)' <=> Active(s)
  BY <1>1 DEF Active, Writing, Writer
<1>5. \A s, f : (OpenIn(s, f)' <=> OpenIn(s, f)) /\ (ToOpen(s, f)' <=> ToOpen(s, f))
  BY <1>1, <1>3, <1>4 DEF OpenIn, ToOpen
<1>6. SameWeights'
  BY <1>1, <1>2 DEF Good, SameWeights
<1>7. FilesFilled' /\ FilesKept' /\ KeptWhole'
  BY <1>1, <1>3, <1>5 DEF Good, FilesFilled, FilesKept, KeptWhole
<1>8. Ahead'
  BY <1>1, <1>2, <1>3 DEF Good, Ahead
<1>9. Collecting' /\ MainWrites' /\ RegisteredWritten' /\ AllRegistered'
  BY <1>1, <1>3 DEF Good, Collecting, MainWrites, RegisteredWritten, AllRegistered
<1>10. SavedKept'
  BY <1>1, <1>2, <1>3 DEF Good, SavedKept
<1>11. QED
  BY <1>6, <1>7, <1>8, <1>9, <1>10 DEF Good

LEMMA SaveBeginGood ==
  ASSUME Base, Base', Good, SaveBegin
  PROVE  Good'
<1>1. /\ UNCHANGED <<async, disk, registry, live, saver, saved, crashes>>
      /\ pc = "SAVE" /\ pc' \in {"REGISTER", "WRITE"} /\ (pc' = "WRITE" <=> ~async)
  BY DEF SaveBegin
<1>2. live.step \in Step /\ live.step \in Nat /\ saved \in Nat /\ \A s \in Step : s \in Nat
  BY <1>1, LiveSaved, Types DEF Base, Threads
<1>0. \A s \in registry : s \in Step
  BY Types
<1>3. /\ ~disk[live.step].dir /\ live.step \notin registry /\ ~Waiting(live.step) /\ ~InHand(live.step)
      /\ \A s \in Step : disk[s].dir \/ s \in registry \/ Waiting(s) \/ InHand(s) => s < live.step
  BY <1>1, <1>2 DEF Good, Ahead
<1>4. \A s \in Step, f \in File : (~OpenIn(s, f) /\ ~ToOpen(s, f)) \/ async
  BY <1>1, ActiveFacts
<1>5. /\ Writer' = Writer /\ Registered = registry
      /\ \A s : NewerThan(s)' <=> NewerThan(s)
      /\ \A s : Whole(s)' <=> Whole(s)
      /\ \A s : Newer(s)' = Newer(s)
  BY <1>1 DEF Writer, Registered, NewerThan, Whole, WholeIn, Newer
<1>6. CASE async
  <2>1. pending' = Append(pending, live) /\ pc' = "REGISTER" /\ UNCHANGED <<job, at>>
    BY <1>6 DEF SaveBegin, writers
  <2>2. /\ Len(pending') = Len(pending) + 1 /\ Len(pending) \in Nat
        /\ \A i \in 1 .. Len(pending) : pending'[i] = pending[i]
        /\ pending'[Len(pending) + 1] = live
    <3>1. pending \in Seq(State) /\ live \in State
      BY DEF Base, TypeOK
    <3>2. QED
      BY <2>1, <3>1, AppendFacts
  <2>3. \A i \in 1 .. Len(pending') : i \in 1 .. Len(pending) \/ i = Len(pending) + 1
    BY <2>2
  <2>4. \A s : InHand(s)' <=> InHand(s)
    BY <1>1, <2>1 DEF InHand
  <2>5. \A s : Waiting(s)' => Waiting(s) \/ s = live.step
    BY <2>2, <2>3 DEF Waiting
  <2>6. \A s : Waiting(s) \/ s = live.step => Waiting(s)'
    <3>1. \A i \in 1 .. Len(pending) : i \in 1 .. Len(pending')
      BY <2>2
    <3>2. Len(pending) + 1 \in 1 .. Len(pending')
      BY <2>2
    <3>3. QED
      BY <2>2, <3>1, <3>2 DEF Waiting
  <2>7. \A s : Active(s)' <=> Active(s)
    BY <1>1, <1>6, <2>1 DEF Active, Writing, Writer
  <2>8. \A s, f : (OpenIn(s, f)' <=> OpenIn(s, f)) /\ (ToOpen(s, f)' <=> ToOpen(s, f))
    BY <1>5, <2>1, <2>7 DEF OpenIn, ToOpen
  <2>9. Registered' = registry \cup {live.step}
    BY <1>1, <2>1 DEF Registered
  <2>10. SameWeights'
    <3>1. ASSUME NEW i \in 1 .. Len(pending') PROVE pending'[i].weights = pending'[i].step
      BY <2>2, <2>3 DEF Good, SameWeights
    <3>2. QED
      BY <1>1, <2>1, <3>1 DEF Good, SameWeights
  <2>11. FilesFilled' /\ FilesKept' /\ KeptWhole'
    BY <1>1, <1>3, <1>5, <2>8, <2>9 DEF Good, FilesFilled, FilesKept, KeptWhole
  <2>12. Ahead'
    <3>1. \A s \in Step : s < live.step \/ s = live.step => s <= live.step
      BY <1>2
    <3>2. QED
      BY <1>1, <1>3, <2>1, <2>4, <2>5, <3>1 DEF Ahead
  <2>13. Collecting' /\ MainWrites' /\ SavedKept'
    BY <1>1, <1>6, <2>1 DEF Collecting, MainWrites, SavedKept
  <2>14. RegisteredWritten' /\ AllRegistered'
    BY <1>1, <1>5, <2>1, <2>4, <2>5, <2>6, <2>9 DEF Good, RegisteredWritten, AllRegistered
  <2>15. QED
    BY <2>10, <2>11, <2>12, <2>13, <2>14 DEF Good
<1>7. CASE ~async
  <2>1. /\ pending' = pending /\ pc' = "WRITE"
        /\ job' = [job EXCEPT !["main"] = live] /\ at' = [at EXCEPT !["main"] = 0]
    BY <1>7 DEF SaveBegin
  <2>2. job \in [Thread -> State] /\ at \in [Thread -> 0 .. NumWrites + 1]
    BY DEF Base, TypeOK
  <2>3. job'["main"] = live /\ job'["saver"] = job["saver"] /\ at'["main"] = 0
    BY <2>1, <2>2 DEF Thread
  <2>4. \A s : (InHand(s)' <=> InHand(s)) /\ (Waiting(s)' <=> Waiting(s)) /\ ~InHand(s)
    BY <1>1, <1>7, <2>1, <2>3 DEF InHand, Waiting, Base, Threads
  <2>5. Writer = "main"
    BY <1>7 DEF Writer
  <2>6. \A s \in Step, f \in File : ~OpenIn(s, f)' /\ ~ToOpen(s, f)'
    BY <1>5, <2>3, <2>5, OrderFacts DEF OpenIn, ToOpen
  <2>7. Registered' = registry
    BY <1>1, <2>1 DEF Registered
  <2>8. SameWeights'
    <3>1. \A t \in Thread : job'[t] = job[t] \/ job'[t] = live
      BY <2>3 DEF Thread
    <3>2. QED
      BY <1>1, <2>1, <3>1 DEF Good, SameWeights
  <2>9. FilesFilled' /\ FilesKept' /\ KeptWhole'
    BY <1>0, <1>1, <1>4, <1>5, <1>7, <2>6, <2>7 DEF Good, FilesFilled, FilesKept, KeptWhole
  <2>10. Ahead'
    <3>1. \A s \in Step : s < live.step => s <= live.step
      BY <1>2
    <3>2. QED
      BY <1>1, <1>3, <2>1, <2>4, <3>1 DEF Ahead
  <2>11. MainWrites'
    <3>1. disk[live.step]["state"] = 0
      BY <1>2, <1>3, OrderFacts DEF Base, DiskTypes, Missing
    <3>2. QED
      BY <1>1, <1>3, <2>3, <3>1 DEF MainWrites
  <2>12. Collecting' /\ SavedKept'
    BY <1>1, <1>5, <2>1 DEF Good, Collecting, SavedKept
  <2>13. RegisteredWritten' /\ AllRegistered'
    BY <1>1, <1>5, <1>7, <2>1, <2>4, <2>7 DEF Good, RegisteredWritten, AllRegistered
  <2>14. QED
    BY <2>8, <2>9, <2>10, <2>11, <2>12, <2>13 DEF Good
<1>8. QED
  BY <1>6, <1>7

(* A save ends, without a file left open. *)
LEMMA SaveEndsGood ==
  ASSUME Base, Base', Good, torn' = {}, SaveWritten \/ SaveFails
  PROVE  Good'
<1>1. /\ UNCHANGED <<async, disk, registry, live, pending, saver, saved, crashes>>
      /\ pc = "WRITE" /\ ~async /\ job["main"] = live
      /\ job' = [job EXCEPT !["main"] = NoJob] /\ at' = [at EXCEPT !["main"] = 0]
      /\ \/ at["main"] > NumWrites /\ pc' = "REGISTER"
         \/ ~(at["main"] > 0) /\ pc' = "TRAIN"
  BY DEF SaveWritten, SaveFails, queueing, Base, Threads
<1>2. at["main"] \in Nat /\ live.step \in Step /\ live.step \in Nat /\ saved \in Nat
  BY <1>1, Types, LiveSaved DEF Base, Threads, Thread
<1>0. \A s \in registry : s \in Step
  BY Types
<1>3. job'["main"] = NoJob /\ job'["saver"] = job["saver"] /\ at'["main"] = 0
  BY <1>1, TookBackFacts DEF Thread
<1>4. \A s \in Step, f \in File : ~OpenIn(s, f) /\ ~ToOpen(s, f)
  BY <1>1, <1>2, ActiveFacts DEF NumWrites
<1>5. \A s \in Step, f \in File : ~OpenIn(s, f)' /\ ~ToOpen(s, f)'
  <2>1. Writer' = "main"
    BY <1>1 DEF Writer
  <2>2. QED
    BY <1>3, <2>1, OrderFacts DEF OpenIn, ToOpen
<1>6. /\ \A s : (InHand(s)' <=> InHand(s)) /\ (Waiting(s)' <=> Waiting(s)) /\ (NewerThan(s)' <=> NewerThan(s))
      /\ \A s : ~InHand(s) /\ ~Waiting(s)
      /\ \A s : Whole(s)' <=> Whole(s)
      /\ \A s : Newer(s)' = Newer(s)
      /\ Registered = registry
  BY <1>1, <1>3 DEF InHand, Waiting, NewerThan, Whole, WholeIn, Newer, Registered, Base, Threads
<1>7. SameWeights'
  <2>1. \A t \in Thread : job'[t] = job[t] \/ job'[t] = NoJob
    BY <1>3 DEF Thread
  <2>2. QED
    BY <1>1, <2>1 DEF Good, SameWeights, NoJob
<1>8. FilesFilled' /\ FilesKept'
  BY <1>1, <1>4, <1>5, <1>6 DEF Good, FilesFilled, FilesKept
<1>9. Ahead' /\ Collecting' /\ MainWrites'
  BY <1>1, <1>6 DEF Good, Ahead, Collecting, MainWrites
<1>10. SavedKept'
  BY <1>1, <1>6 DEF Good, SavedKept
<1>11. CASE pc' = "REGISTER"
  <2>1. at["main"] > NumWrites /\ at["main"] >= 1
    BY <1>1, <1>2, <1>11 DEF NumWrites
  <2>2. disk[live.step].dir
    BY <1>1, <2>1 DEF Good, MainWrites
  <2>3. Registered' = registry \cup {live.step}
    BY <1>1, <1>11 DEF Registered
  <2>4. RegisteredWritten' /\ AllRegistered'
    BY <1>1, <1>6, <1>11, <2>2, <2>3 DEF Good, RegisteredWritten, AllRegistered
  <2>5. ~NewerThan(live.step)
    <3> SUFFICES ASSUME NEW u \in Step, u > live.step, disk[u].dir PROVE FALSE
      BY DEF NewerThan
    <3>1. u <= live.step /\ u \in Nat
      BY Types DEF Good, Ahead
    <3>2. QED
      BY <1>2, <3>1
  <2>6. \A f \in File : disk[live.step][f] # Missing
    BY <1>2, <1>4, <2>2, <2>5 DEF Good, FilesKept
  <2>7. KeptWhole'
    BY <1>0, <1>1, <1>4, <1>6, <2>3, <2>6 DEF Good, KeptWhole
  <2>8. QED
    BY <1>7, <1>8, <1>9, <1>10, <2>4, <2>7 DEF Good
<1>12. CASE pc' = "TRAIN"
  <2>1. ~disk[live.step].dir
    BY <1>1, <1>2, <1>12 DEF Good, MainWrites, NumWrites
  <2>2. Registered' = registry
    BY <1>1, <1>12 DEF Registered
  <2>3. RegisteredWritten' /\ AllRegistered'
    BY <1>1, <1>6, <1>12, <2>1, <2>2 DEF Good, RegisteredWritten, AllRegistered
  <2>4. KeptWhole'
    BY <1>0, <1>1, <1>4, <1>6, <2>2 DEF Good, KeptWhole
  <2>5. QED
    BY <1>7, <1>8, <1>9, <1>10, <2>3, <2>4 DEF Good
<1>13. QED
  BY <1>1, <1>11, <1>12

(* The save thread has written everything: a save cut short is in torn. *)
LEMMA SaverDoneGood ==
  ASSUME Base, Base', Good, torn' = {}, SaverDone
  PROVE  Good'
<1>1. /\ UNCHANGED <<async, disk, registry, live, pc, pending, saved, crashes>>
      /\ saver = "WRITE" /\ saver' = "LOOP" /\ async
      /\ job' = [job EXCEPT !["saver"] = NoJob] /\ at' = [at EXCEPT !["saver"] = 0]
      /\ at["saver"] > NumWrites
  <2>1. at["saver"] <= NumWrites => job["saver"].step \in torn'
    BY DEF SaverDone
  <2>2. at["saver"] > NumWrites
    BY <2>1, Types DEF Thread, NumWrites
  <2>3. QED
    BY <2>2 DEF SaverDone, Base, Threads, TypeOK
<1>2. at["saver"] \in Nat /\ at["saver"] # 0 /\ \A s \in registry : s \in Step
  BY <1>1, Types DEF Thread, NumWrites
<1>3. job'["saver"] = NoJob /\ job'["main"] = job["main"] /\ at'["saver"] = 0
  BY <1>1, TookBackFacts DEF Thread
<1>4. Writer = "saver" /\ Writer' = "saver"
  BY <1>1 DEF Writer
<1>5. \A s \in Step, f \in File : ~OpenIn(s, f) /\ ~ToOpen(s, f)
  <2>1. ~(at["saver"] <= NumWrites)
    BY <1>1, <1>2 DEF NumWrites
  <2>2. QED
    BY <1>4, <2>1, ActiveFacts
<1>6. /\ \A s : ~InHand(s)' /\ (Waiting(s)' <=> Waiting(s)) /\ (NewerThan(s)' <=> NewerThan(s))
      /\ \A s : Whole(s)' <=> Whole(s)
      /\ \A s : Newer(s)' = Newer(s)
      /\ Registered' = Registered
  BY <1>1 DEF InHand, Waiting, NewerThan, Whole, WholeIn, Newer, Registered
<1>7. SameWeights'
  <2>1. \A t \in Thread : job'[t] = job[t] \/ job'[t] = NoJob
    BY <1>3 DEF Thread
  <2>2. QED
    BY <1>1, <2>1 DEF Good, SameWeights, NoJob
<1>8. FilesFilled' /\ FilesKept'
  BY <1>1, <1>5, <1>6 DEF Good, FilesFilled, FilesKept
<1>9. Ahead' /\ Collecting' /\ SavedKept'
  BY <1>1, <1>6 DEF Good, Ahead, Collecting, SavedKept
<1>10. MainWrites'
  BY <1>1 DEF MainWrites, Base, Threads
<1>11. RegisteredWritten' /\ AllRegistered'
  BY <1>1, <1>2, <1>6 DEF Good, RegisteredWritten, AllRegistered
<1>12. KeptWhole'
  <2>1. \A s \in Registered : s \in Step
    BY <1>1, <1>2, LiveSaved, Types DEF Registered, Base, Threads
  <2>2. QED
    BY <1>1, <1>5, <1>6, <2>1 DEF Good, KeptWhole
<1>13. QED
  BY <1>7, <1>8, <1>9, <1>10, <1>11, <1>12 DEF Good

(* The step that is popped was waiting, and is in hand. *)
LEMMA SaverPopGood ==
  ASSUME Base, Base', Good, SaverPop
  PROVE  Good'
<1>1. /\ UNCHANGED <<async, disk, registry, live, pc, saved, crashes>>
      /\ saver = "POP" /\ saver' = "POPPED" /\ async
      /\ Len(pending') = Len(pending) - 1 /\ Len(pending) \in Nat /\ Len(pending) \in 1 .. Len(pending)
      /\ \A i \in 1 .. Len(pending') : pending'[i] = pending[i] /\ i \in 1 .. Len(pending)
      /\ job'["saver"] = pending[Len(pending)] /\ at'["saver"] = 0
      /\ job'["main"] = job["main"]
  BY PopFacts DEF Base, Threads
<1>2. \A s \in Step, f \in File : ~OpenIn(s, f) /\ ~ToOpen(s, f)
  BY <1>1, ActiveFacts
<1>3. \A s \in Step, f \in File : ~OpenIn(s, f)' /\ ~ToOpen(s, f)'
  <2>1. Writer' = "saver"
    BY <1>1 DEF Writer
  <2>2. QED
    BY <1>1, <2>1, OrderFacts DEF OpenIn, ToOpen
<1>4. /\ \A s : (NewerThan(s)' <=> NewerThan(s))
      /\ \A s : Whole(s)' <=> Whole(s)
      /\ \A s : Newer(s)' = Newer(s)
      /\ Registered' = Registered
      /\ \A s : ~InHand(s)
  BY <1>1 DEF InHand, NewerThan, Whole, WholeIn, Newer, Registered
<1>5. \A i \in 1 .. Len(pending) : i \in 1 .. Len(pending') \/ i = Len(pending)
  BY <1>1
<1>6. \A s : Waiting(s) => Waiting(s)' \/ InHand(s)'
  BY <1>1, <1>5 DEF Waiting, InHand
<1>7. \A s : Waiting(s)' \/ InHand(s)' => Waiting(s)
  BY <1>1 DEF Waiting, InHand
<1>8. SameWeights'
  BY <1>1 DEF Good, SameWeights, Thread
<1>9. FilesFilled' /\ FilesKept'
  BY <1>1, <1>2, <1>4 DEF Good, FilesFilled, FilesKept
<1>10. Ahead' /\ Collecting' /\ SavedKept'
  BY <1>1, <1>4, <1>7 DEF Good, Ahead, Collecting, SavedKept
<1>11. MainWrites'
  BY <1>1 DEF MainWrites, Base, Threads
<1>12. RegisteredWritten' /\ AllRegistered'
  BY <1>1, <1>4, <1>6, <1>7 DEF Good, RegisteredWritten, AllRegistered
<1>13. KeptWhole'
  <2>1. \A s \in Registered : s \in Step
    BY <1>1, LiveSaved, Types DEF Registered, Base, Threads
  <2>2. QED
    BY <1>1, <1>2, <1>4, <2>1 DEF Good, KeptWhole
<1>14. QED
  BY <1>8, <1>9, <1>10, <1>11, <1>12, <1>13 DEF Good

(* More registered checkpoints are never fewer that are newer. *)
LEMMA NewerGrows ==
  ASSUME Base, Base', registry \subseteq registry', NEW s
  PROVE  /\ Newer(s) \subseteq Newer(s)'
         /\ Cardinality(Newer(s)) \in Nat /\ Cardinality(Newer(s)') \in Nat
         /\ Cardinality(Newer(s)) <= Cardinality(Newer(s)')
<1>1. IsFiniteSet(registry)
  BY Types
<1>2. IsFiniteSet(registry')
  <2>0. 1 \in Int /\ MaxStep \in Int
    BY Types
  <2>1. IsFiniteSet(1 .. MaxStep)
    BY <2>0, FS_Interval
  <2>2. registry' \in SUBSET (1 .. MaxStep)
    BY DEF Base, TypeOK, Step
  <2>3. QED
    BY <2>1, <2>2, FS_Subset
<1>3. Newer(s) \subseteq registry /\ Newer(s)' \subseteq registry' /\ Newer(s) \subseteq Newer(s)'
  BY DEF Newer
<1> DEFINE A == Newer(s)
           B == Newer(s)'
<1> HIDE DEF A, B
<1>4. IsFiniteSet(B) /\ A \in SUBSET B
  BY <1>2, <1>3, FS_Subset DEF A, B
<1>5. IsFiniteSet(A) /\ Cardinality(A) <= Cardinality(B)
  BY <1>4, FS_Subset
<1>6. Cardinality(A) \in Nat /\ Cardinality(B) \in Nat
  BY <1>4, <1>5, FS_CardinalityType
<1>7. QED
  BY <1>3, <1>5, <1>6 DEF A, B

LEMMA RegisterGood ==
  ASSUME Base, Base', Good, Register
  PROVE  Good'
<1>1. /\ UNCHANGED <<async, disk, live, pending, saver, job, at, saved, crashes>>
      /\ registry' = registry \cup {live.step} /\ pc = "REGISTER" /\ pc' = "GC"
  BY DEF Register, queueing, writers
<1>2. live.step \in Step /\ live.step \in Nat
  BY <1>1, LiveSaved, Types DEF Base, Threads
<1>3. /\ Writer' = Writer /\ Registered = registry' /\ Registered' = registry'
      /\ \A s : (InHand(s)' <=> InHand(s)) /\ (Waiting(s)' <=> Waiting(s)) /\ (NewerThan(s)' <=> NewerThan(s))
      /\ \A s : Whole(s)' <=> Whole(s)
  BY <1>1 DEF Writer, Registered, InHand, Waiting, NewerThan, Whole, WholeIn
<1>4. \A s : Active(s)' <=> Active(s)
  BY <1>1 DEF Active, Writing, Writer
<1>5. \A s, f : (OpenIn(s, f)' <=> OpenIn(s, f)) /\ (ToOpen(s, f)' <=> ToOpen(s, f))
  BY <1>1, <1>3, <1>4 DEF OpenIn, ToOpen
<1>6. SameWeights' /\ MainWrites' /\ Collecting' /\ SavedKept'
  BY <1>1, <1>3 DEF Good, SameWeights, MainWrites, Collecting, SavedKept
<1>7. FilesFilled' /\ FilesKept'
  BY <1>1, <1>3, <1>5 DEF Good, FilesFilled, FilesKept
<1>8. Ahead'
  BY <1>1, <1>2, <1>3 DEF Good, Ahead
<1>9. RegisteredWritten' /\ AllRegistered'
  BY <1>1, <1>3 DEF Good, RegisteredWritten, AllRegistered
<1>10. KeptWhole'
  <2>1. registry \subseteq registry'
    BY <1>1
  <2>2. ASSUME NEW s, Cardinality(Newer(s)) >= MaxCheckpoints
        PROVE  Cardinality(Newer(s)') >= MaxCheckpoints
    <3>1. /\ Cardinality(Newer(s)) \in Nat /\ Cardinality(Newer(s)') \in Nat
          /\ Cardinality(Newer(s)) <= Cardinality(Newer(s)')
      BY <2>1, NewerGrows
    <3>2. QED
      BY <2>2, <3>1, Types
  <2>3. QED
    BY <1>1, <1>3, <1>5, <2>2 DEF Good, KeptWhole
<1>11. QED
  BY <1>6, <1>7, <1>8, <1>9, <1>10 DEF Good

(* What a write changes: the directory is made at 0, a file is empty when it *)
(* is opened and whole, unless it was removed, when it is closed.           *)
WriteEffect(s, k) ==
  /\ \A u \in Step : disk[u].dir => disk'[u].dir
  /\ \A u \in Step : disk'[u].dir => disk[u].dir \/ (u = s /\ k = 0)
  /\ k = 0 => disk'[s].dir
  /\ \A u \in Step, g \in File :
       u # s \/ k < OpensAt[g] \/ ClosesAt[g] < k => disk'[u][g] = disk[u][g]
  /\ \A g \in File : k = OpensAt[g] => disk'[s][g] = Empty
  /\ \A g \in File : k = ClosesAt[g] => disk'[s][g] = s \/ disk'[s][g] = Missing
  /\ \A u \in Step, g \in File : disk'[u][g] = Missing => disk[u][g] = Missing

LEMMA WriteEffects ==
  ASSUME Base, SameWeights, NEW t \in Thread, WriteNext(t)
  PROVE  WriteEffect(job[t].step, at[t])
<1> DEFINE s == job[t].step
           k == at[t]
<1>1. s \in Step /\ s \in Nat /\ s >= 1 /\ job[t].weights = s /\ k \in Nat
  BY WriterFacts, Types DEF WriteNext, SameWeights
<1>2. CASE k = 0
  <2>1. MakesDir(s)
    BY <1>2, WriteFacts
  <2>2. /\ \A u \in Step, g \in File : disk'[u][g] = disk[u][g]
        /\ \A u \in Step : disk'[u].dir = IF u = s THEN TRUE ELSE disk[u].dir
    BY <2>1 DEF MakesDir
  <2>3. \A g \in File : k # OpensAt[g] /\ k # ClosesAt[g]
    BY <1>2, OrderFacts
  <2> HIDE DEF s, k
  <2>4. WriteEffect(s, k)
    BY <1>1, <1>2, <2>2, <2>3 DEF WriteEffect
  <2>5. QED
    BY <2>4 DEF s, k
<1>3. CASE k # 0
  <2>1. PICK f \in File, v \in Int : Puts(t, f, v)
    BY <1>3, WriteFacts
  <2>2. /\ \/ k = OpensAt[f] /\ v = Empty
           \/ OpensAt[f] < k /\ k < ClosesAt[f] /\ v = Cut
           \/ k = ClosesAt[f] /\ v = s
        /\ \A u \in Step, g \in File :
             disk'[u][g] = IF u = s /\ g = f /\ (k = OpensAt[f] \/ disk[s][f] # Missing)
                           THEN v ELSE disk[u][g]
        /\ \A u \in Step : disk'[u].dir = disk[u].dir
    BY <1>1, <2>1 DEF Puts
  <2> HIDE DEF s, k
  <2>3. OpensAt[f] <= k /\ k <= ClosesAt[f]
    BY <1>1, <2>2, OrderFacts
  <2>4. \A g \in File : (k = OpensAt[g] \/ k = ClosesAt[g]) => g = f
    BY <1>1, <2>3, OrderFacts
  <2>5. v # Missing
    BY <1>1, <2>2 DEF Missing, Empty, Cut
  <2>6. \A u \in Step, g \in File :
          u # s \/ k < OpensAt[g] \/ ClosesAt[g] < k => disk'[u][g] = disk[u][g]
    <3>1. \A g \in File : k < OpensAt[g] \/ ClosesAt[g] < k => g # f
      BY <1>1, <2>3, OrderFacts
    <3>2. QED
      BY <2>2, <3>1
  <2>7. \A g \in File : k = OpensAt[g] => disk'[s][g] = Empty
    <3>1. ASSUME k = OpensAt[f] PROVE v = Empty
      BY <1>1, <2>2, <3>1, OrderFacts
    <3>2. QED
      BY <1>1, <2>2, <2>4, <3>1
  <2>8. \A g \in File : k = ClosesAt[g] => disk'[s][g] = s \/ disk'[s][g] = Missing
    <3>1. ASSUME k = ClosesAt[f] PROVE v = s
      BY <1>1, <2>2, <3>1, OrderFacts
    <3>2. QED
      BY <1>1, <2>2, <2>4, <3>1
  <2>9. \A u \in Step, g \in File : disk'[u][g] = Missing => disk[u][g] = Missing
    BY <2>2, <2>5
  <2>10. WriteEffect(s, k)
    BY <1>1, <1>3, <2>2, <2>6, <2>7, <2>8, <2>9 DEF WriteEffect
  <2>11. QED
    BY <2>10 DEF s, k
<1>4. QED
  BY <1>2, <1>3

LEMMA WriteNextGood ==
  ASSUME Base, Base', Good, NEW t \in Thread, WriteNext(t)
  PROVE  Good'
<1> DEFINE s == job[t].step
           k == at[t]
<1>1. /\ UNCHANGED <<async, registry, live, pc, pending, saver, job, crashes>>
      /\ Writing(t) /\ k <= NumWrites
      /\ saved' = IF k = NumWrites /\ Whole(s)' THEN s ELSE saved
  BY DEF WriteNext, queueing, Whole, WholeIn
<1>2. t = Writer /\ t = Writer' /\ s \in Step /\ s \in Nat /\ s >= 1 /\ k \in Nat /\ (t = "main" <=> ~async)
  BY <1>1, WriterFacts, Types DEF Writer
<1>3. at'[t] = k + 1
  <2>1. at' = [at EXCEPT ![t] = at[t] + 1] /\ at \in [Thread -> 0 .. NumWrites + 1]
    BY DEF WriteNext, Base, TypeOK
  <2>2. QED
    BY <2>1
<1>4. \A u : (Active(u) <=> u = s) /\ (Active(u)' <=> u = s)
  BY <1>1, <1>2 DEF Active, Writing
<1>5. WriteEffect(s, k)
  BY WriteEffects DEF Good
<1>6. ~async => pc = "WRITE" /\ s = live.step
  BY <1>1, <1>2 DEF Writing, Base, Threads
<1>7. async => InHand(s) /\ t = "saver" /\ pc # "WRITE"
  BY <1>1, <1>2 DEF Writing, InHand, Base, Threads, Thread
<1>8. /\ \A u \in Step, g \in File : OpenIn(u, g) <=> u = s /\ OpensAt[g] < k /\ k <= ClosesAt[g]
      /\ \A u \in Step, g \in File : OpenIn(u, g)' <=> u = s /\ OpensAt[g] < k + 1 /\ k + 1 <= ClosesAt[g]
      /\ \A u \in Step, g \in File : ToOpen(u, g) <=> u = s /\ 1 <= k /\ k <= OpensAt[g]
      /\ \A u \in Step, g \in File : ToOpen(u, g)' <=> u = s /\ 1 <= k + 1 /\ k + 1 <= OpensAt[g]
  BY <1>2, <1>3, <1>4 DEF OpenIn, ToOpen
<1>9. /\ \A u : (InHand(u)' <=> InHand(u)) /\ (Waiting(u)' <=> Waiting(u))
      /\ \A u : Newer(u)' = Newer(u)
      /\ Registered' = Registered
      /\ \A u \in Registered : u \in Step
  <2>1. \A u \in Registered : u \in Step
    BY LiveSaved, Types DEF Registered, Base, Threads
  <2>2. QED
    BY <1>1, <2>1 DEF InHand, Waiting, Newer, Registered
<1>10. \A u : NewerThan(u) => NewerThan(u)'
  BY <1>5 DEF NewerThan, WriteEffect
<1>11. (k = at["saver"] \/ ~async) /\ s' = s
  BY <1>1, <1>7
<1> HIDE DEF s, k
<1>12. SameWeights'
  BY <1>1 DEF Good, SameWeights
<1>13. FilesFilled'
  <2> SUFFICES ASSUME NEW u \in Step, NEW g \in File, ~OpenIn(u, g)'
               PROVE  disk'[u][g] = u \/ disk'[u][g] = Missing
    BY DEF FilesFilled
  <2>1. CASE u = s /\ k = ClosesAt[g]
    BY <1>5, <2>1 DEF WriteEffect
  <2>2. CASE ~(u = s /\ k = ClosesAt[g])
    <3>1. u # s \/ k < OpensAt[g] \/ ClosesAt[g] < k
      BY <1>2, <1>8, <2>2, OrderFacts
    <3>2. disk'[u][g] = disk[u][g]
      BY <1>5, <3>1 DEF WriteEffect
    <3>3. ~OpenIn(u, g)
      BY <1>2, <1>8, <3>1, OrderFacts
    <3>4. QED
      BY <3>2, <3>3 DEF Good, FilesFilled
  <2>3. QED
    BY <2>1, <2>2
<1>14. ASSUME NEW u \in Step, NEW g \in File, disk'[u].dir, disk'[u][g] = Missing, ~ToOpen(u, g)'
       PROVE  disk[u].dir /\ disk[u][g] = Missing /\ ~ToOpen(u, g)
  <2>1. disk[u][g] = Missing
    BY <1>5, <1>14 DEF WriteEffect
  <2>2. ~(u = s /\ k = 0)
    BY <1>8, <1>14, OrderFacts
  <2>3. disk[u].dir
    BY <1>5, <1>14, <2>2 DEF WriteEffect
  <2>4. ~(u = s /\ k = OpensAt[g])
    <3>1. ASSUME u = s, k = OpensAt[g] PROVE FALSE
      BY <1>5, <1>14, <3>1 DEF WriteEffect, Missing, Empty
    <3>2. QED
      BY <3>1
  <2>5. ~ToOpen(u, g)
    BY <1>2, <1>8, <1>14, <2>4, OrderFacts
  <2>6. QED
    BY <2>1, <2>3, <2>5
<1>15. FilesKept'
  BY <1>10, <1>14 DEF Good, FilesKept
<1>16. KeptWhole'
  BY <1>1, <1>9, <1>14 DEF Good, KeptWhole
<1>17. Ahead'
  <2>1. \A u \in Step : disk'[u].dir => disk[u].dir \/ u = s
    BY <1>5 DEF WriteEffect
  <2>2. s <= live.step /\ (pc = "SAVE" => s < live.step)
    BY <1>2, <1>6, <1>7 DEF Good, Ahead
  <2>3. QED
    BY <1>1, <1>9, <2>1, <2>2 DEF Good, Ahead
<1>18. Collecting'
  <2>1. pc = "GC_REMOVE" => live.step \in Step
    BY Types DEF Good, Collecting
  <2>2. QED
    BY <1>1, <1>5, <2>1 DEF Good, Collecting, WriteEffect
<1>19. MainWrites'
  <2> SUFFICES ASSUME pc = "WRITE"
               PROVE  /\ disk'[s].dir /\ at'["main"] >= 1
                      /\ at'["main"] <= NumWrites => disk'[s]["state"] <= 0
    <3>1. pc' = pc /\ live' = live
      BY <1>1
    <3>2. pc = "WRITE" => s = live.step /\ at'["main"] \in Nat
      BY <1>6, <1>7, Types DEF Thread, Base, TypeOK
    <3>3. QED
      BY <3>1, <3>2 DEF MainWrites
  <2>1. ~async /\ s = live.step /\ t = "main" /\ k = at["main"] /\ at'["main"] = k + 1
    BY <1>2, <1>3, <1>6, <1>7 DEF k
  <2>2. disk'[s].dir
    <3>1. CASE k = 0
      BY <1>5, <3>1 DEF WriteEffect
    <3>2. CASE k # 0
      BY <1>2, <1>5, <2>1, <3>2 DEF WriteEffect, Good, MainWrites
    <3>3. QED
      BY <3>1, <3>2
  <2>3. ASSUME at'["main"] <= NumWrites PROVE disk'[s]["state"] <= 0
    <3>1. k <= 6 /\ k <= 7
      BY <1>2, <2>1, <2>3 DEF NumWrites
    <3>2. CASE k = 6
      <4>1. disk'[s]["state"] = Empty
        BY <1>5, <3>2, OrderFacts DEF WriteEffect
      <4>2. QED
        BY <4>1 DEF Empty
    <3>3. CASE k < 6
      <4>1. disk'[s]["state"] = disk[s]["state"]
        BY <1>2, <1>5, <3>3, OrderFacts DEF WriteEffect
      <4>2. QED
        BY <1>2, <2>1, <3>1, <4>1 DEF Good, MainWrites, NumWrites
    <3>4. QED
      BY <1>2, <3>1, <3>2, <3>3
  <2>4. QED
    BY <1>2, <2>1, <2>2, <2>3
<1>20. SavedKept'
  <2> SUFFICES ASSUME ~async
               PROVE  /\ saved' <= live.step /\ (pc = "SAVE" => saved' < live.step)
                      /\ saved' # 0 => \E u \in Step : u >= saved' /\ Whole(u)'
    BY <1>1 DEF SavedKept
  <2>1. pc = "WRITE" /\ s = live.step /\ saved <= live.step
    BY <1>6 DEF Good, SavedKept
  <2>2. CASE saved' = s /\ Whole(s)'
    <3>1. s >= saved' /\ saved' <= live.step
      BY <1>2, <2>1, <2>2
    <3>2. \E u \in Step : u >= saved' /\ Whole(u)'
      BY <1>2, <1>11, <2>2, <3>1 DEF Whole
    <3>3. QED
      BY <2>1, <3>1, <3>2
  <2>3. CASE saved' = saved
    <3>1. ASSUME saved # 0 PROVE \E u \in Step : u >= saved /\ Whole(u)'
      <4>1. PICK u \in Step : u >= saved /\ Whole(u)
        BY <3>1 DEF Good, SavedKept
      <4>2. disk[s]["state"] <= 0
        BY <1>1, <1>2, <2>1 DEF Good, MainWrites, k
      <4>3. disk[u]["state"] > 0 /\ disk[u] \in Directory /\ disk[s] \in Directory
        BY <1>2, <4>1, Types, OrderFacts DEF Whole, WholeIn
      <4>4. u # s
        BY <4>2, <4>3 DEF Directory
      <4>5. /\ \A g \in File : disk'[u][g] = disk[u][g]
            /\ disk[u].dir => disk'[u].dir
        BY <1>5, <4>1, <4>4 DEF WriteEffect
      <4>6. Whole(u)'
        BY <4>1, <4>5 DEF Whole, WholeIn
      <4>7. QED
        BY <4>1, <4>6
    <3>2. QED
      BY <2>1, <2>3, <3>1
  <2>4. QED
    BY <1>1, <2>2, <2>3
<1>21. RegisteredWritten'
  <2> SUFFICES ASSUME NEW u \in Registered
               PROVE  disk'[u].dir \/ Waiting(u)
    BY <1>9 DEF RegisteredWritten
  <2>1. disk[u].dir \/ Waiting(u) \/ (InHand(u) /\ at["saver"] = 0)
    BY DEF Good, RegisteredWritten
  <2>2. InHand(u) /\ at["saver"] = 0 => u = s /\ k = 0
    <3>1. InHand(u) => async
      BY DEF InHand, Base, Threads
    <3>2. InHand(u) /\ InHand(s) => u = s
      BY DEF InHand
    <3>3. QED
      BY <1>7, <1>11, <3>1, <3>2
  <2>3. QED
    BY <1>5, <1>9, <2>1, <2>2 DEF WriteEffect
<1>22. AllRegistered'
  <2> SUFFICES ASSUME NEW u \in Step, disk'[u].dir \/ Waiting(u) \/ InHand(u)
               PROVE  \/ u \in Registered \/ (pc = "WRITE" /\ u = live.step)
                      \/ async /\ \E w \in registry : w > u
    BY <1>1, <1>9 DEF AllRegistered
  <2>1. disk'[u].dir => disk[u].dir \/ u = s
    BY <1>5 DEF WriteEffect
  <2>2. disk[u].dir \/ Waiting(u) \/ InHand(u) \/ (~async /\ u = live.step /\ pc = "WRITE")
    BY <1>6, <1>7, <2>1
  <2>3. QED
    BY <2>2 DEF Good, AllRegistered
<1>23. QED
  BY <1>12, <1>13, <1>15, <1>16, <1>17, <1>18, <1>19, <1>20, <1>21, <1>22 DEF Good

(* The checkpoint to remove is older than the training state, whose own      *)
(* directory is there, and enough of the registered ones are newer.         *)
LEMMA DoomedFacts ==
  ASSUME Base, Good, pc = "GC_REMOVE"
  PROVE  /\ Doomed \in registry /\ Doomed \in Step /\ \A u \in registry : Doomed <= u
         /\ live.step \in registry /\ live.step \in Step /\ live.step \in Nat
         /\ Doomed < live.step /\ disk[live.step].dir
         /\ Cardinality(Newer(Doomed)) >= MaxCheckpoints
<1>1. /\ live.step \in registry /\ disk[live.step].dir /\ Cardinality(registry) > MaxCheckpoints
      /\ registry \in SUBSET Nat /\ registry \in SUBSET Step /\ IsFiniteSet(registry)
      /\ MaxCheckpoints \in Nat /\ MaxCheckpoints >= 1
  BY Types DEF Good, Collecting
<1>2. Doomed \in registry /\ \A u \in registry : Doomed <= u
  BY <1>1, OldestFacts DEF Doomed
<1> DEFINE d == Doomed
<1> HIDE DEF d
<1>3. d \in registry /\ d \in Nat /\ \A u \in registry : u \in Nat /\ u \in Step /\ d <= u
  BY <1>1, <1>2 DEF d
<1>4. Cardinality(registry \ {d}) = Cardinality(registry) - 1 /\ Cardinality(registry) \in Nat
  BY <1>1, <1>3, FS_RemoveElement, FS_CardinalityType
<1>5. Newer(d) = registry \ {d}
  <2>1. ASSUME NEW u \in registry PROVE u > d <=> u # d
    <3>1. u \in Nat /\ d \in Nat /\ d <= u
      BY <1>3
    <3>2. QED
      BY <3>1
  <2>2. QED
    BY <2>1, Zenon DEF Newer
<1>6. Cardinality(Newer(d)) >= MaxCheckpoints
  BY <1>1, <1>4, <1>5
<1>7. Newer(d) # {}
  BY <1>1, <1>6, FS_EmptySet
<1>8. PICK u \in registry : u > d
  BY <1>7 DEF Newer
<1>9. u <= live.step
  BY <1>3 DEF Good, Ahead
<1>10. d < live.step
  <2>1. u \in Nat /\ d \in Nat /\ live.step \in Nat
    BY <1>3, Types
  <2>2. QED
    BY <1>8, <1>9, <2>1
<1>11. QED
  BY <1>1, <1>3, <1>6, <1>10 DEF d

(* With synchronous saves the newest is whole when something is removed. *)
LEMMA LiveIsWhole ==
  ASSUME Base, Good, ~async, pc = "GC_REMOVE"
  PROVE  Whole(live.step)
<1>1. live.step \in Step /\ live.step \in Nat /\ disk[live.step].dir /\ live.step >= 1
  BY DoomedFacts, Types
<1>2. ASSUME NEW u \in Step, u > live.step, disk[u].dir PROVE FALSE
  <2>1. u <= live.step /\ u \in Nat
    BY <1>2, Types DEF Good, Ahead
  <2>2. QED
    BY <1>1, <1>2, <2>1
<1>3. ~NewerThan(live.step)
  BY <1>2 DEF NewerThan
<1>4. \A f \in File : ~OpenIn(live.step, f) /\ ~ToOpen(live.step, f)
  BY <1>1, ActiveFacts
<1>5. \A f \in File : disk[live.step][f] = live.step
  BY <1>1, <1>3, <1>4 DEF Good, FilesFilled, FilesKept
<1>6. QED
  BY <1>1, <1>5 DEF Whole, WholeIn

LEMMA GCUnlinkGood ==
  ASSUME Base, Base', Good, GCUnlink
  PROVE  Good'
<1> DEFINE d == Doomed
<1>1. pc = "GC_REMOVE"
  BY DEF GCUnlink
<1>2. /\ d \in registry /\ d \in Step /\ live.step \in registry /\ live.step \in Step
      /\ d < live.step /\ disk[live.step].dir /\ live.step \in Nat /\ d \in Nat
      /\ Cardinality(Newer(d)) >= MaxCheckpoints
  BY <1>1, DoomedFacts, Types
<1>3. /\ UNCHANGED <<async, registry, live, pc, pending, saver, job, at, saved, crashes>>
      /\ \A u \in Step : disk'[u].dir = disk[u].dir
      /\ \E f \in File : \A u \in Step, g \in File :
           disk'[u][g] = IF u = d /\ g = f THEN Missing ELSE disk[u][g]
  BY <1>2, UnlinkFacts DEF queueing, writers
<1> HIDE DEF d
<1>4. /\ \A u \in Step, g \in File : disk'[u][g] = disk[u][g] \/ disk'[u][g] = Missing
      /\ \A u \in Step, g \in File : u # d => disk'[u][g] = disk[u][g]
  BY <1>3
<1>5. /\ Writer' = Writer /\ Registered' = registry /\ Registered = registry
      /\ \A u : (InHand(u)' <=> InHand(u)) /\ (Waiting(u)' <=> Waiting(u))
      /\ \A u : Newer(u)' = Newer(u)
  BY <1>1, <1>3 DEF Writer, Registered, InHand, Waiting, Newer
<1>6. \A u : (NewerThan(u)' <=> NewerThan(u))
  BY <1>3 DEF NewerThan
<1>7. \A u : Active(u)' <=> Active(u)
  BY <1>3 DEF Active, Writing, Writer
<1>8. \A u, f : (OpenIn(u, f)' <=> OpenIn(u, f)) /\ (ToOpen(u, f)' <=> ToOpen(u, f))
  BY <1>3, <1>5, <1>7 DEF OpenIn, ToOpen
<1>9. \A u \in registry : u \in Step
  BY Types
<1>10. SameWeights' /\ Collecting' /\ MainWrites'
  BY <1>1, <1>2, <1>3 DEF Good, SameWeights, Collecting, MainWrites
<1>11. FilesFilled'
  BY <1>4, <1>8 DEF Good, FilesFilled
<1>12. FilesKept'
  <2>1. NewerThan(d)
    BY <1>2 DEF NewerThan
  <2>2. QED
    BY <1>3, <1>4, <1>6, <1>8, <2>1 DEF Good, FilesKept
<1>13. KeptWhole'
  BY <1>2, <1>3, <1>4, <1>5, <1>8, <1>9 DEF Good, KeptWhole
<1>14. Ahead' /\ RegisteredWritten' /\ AllRegistered'
  BY <1>1, <1>3, <1>5, <1>9 DEF Good, Ahead, RegisteredWritten, AllRegistered
<1>15. SavedKept'
  <2>1. \A u \in Step : u # d /\ Whole(u) => Whole(u)'
    BY <1>3, <1>4 DEF Whole, WholeIn
  <2>2. ASSUME ~async, saved # 0 PROVE \E u \in Step : u >= saved /\ Whole(u)'
    <3>1. saved <= live.step
      BY <2>2 DEF Good, SavedKept
    <3>2. Whole(live.step)'
      <4>1. Whole(live.step)
        BY <1>1, <2>2, LiveIsWhole
      <4>2. \A n \in Step : Whole(n) /\ n # d => WholeIn(disk', n)
        BY <2>1 DEF Whole
      <4>3. WholeIn(disk', live.step)
        BY <1>2, <4>1, <4>2
      <4>4. QED
        BY <1>3, <4>3 DEF Whole
    <3>3. saved \in Nat
      BY Types
    <3>4. live.step >= saved /\ Whole(live.step)' /\ live' = live
      BY <1>2, <1>3, <3>1, <3>2, <3>3
    <3>5. WholeIn(disk', live.step)
      BY <3>4 DEF Whole
    <3>6. QED
      BY <1>2, <3>4, <3>5 DEF Whole
  <2>3. QED
    BY <1>1, <1>3, <2>2 DEF Good, SavedKept
<1>16. QED
  BY <1>10, <1>11, <1>12, <1>13, <1>14, <1>15 DEF Good

LEMMA GCRemovedGood ==
  ASSUME Base, Base', Good, GCRemoved
  PROVE  Good'
<1> DEFINE d == Doomed
<1>1. pc = "GC_REMOVE"
  BY DEF GCRemoved
<1>2. /\ d \in registry /\ d \in Step /\ live.step \in registry /\ live.step \in Step
      /\ d < live.step /\ disk[live.step].dir /\ live.step \in Nat /\ d \in Nat
      /\ \A u \in registry : d <= u
  BY <1>1, DoomedFacts, Types
<1>3. /\ UNCHANGED <<async, live, pending, saver, job, at, saved, crashes>>
      /\ registry' = registry \ {d} /\ pc' = "GC"
      /\ \/ (\A f \in File : disk[d][f] = Missing) /\ disk' = [disk EXCEPT ![d].dir = FALSE]
         \/ async /\ disk' = disk
  BY DEF GCRemoved, queueing, writers, Base, Threads, TypeOK
<1>4. disk \in [Step -> Directory] /\ \A u \in registry : u \in Step /\ u \in Nat
  BY Types
<1> HIDE DEF d
<1>5. /\ \A u \in Step, g \in File : disk'[u][g] = disk[u][g]
      /\ \A u \in Step : disk'[u].dir => disk[u].dir
      /\ \A u \in Step : u # d => disk'[u].dir = disk[u].dir
      /\ ~async => ~disk'[d].dir /\ \A f \in File : disk[d][f] = Missing
  <2>1. CASE async /\ disk' = disk
    BY <2>1
  <2>2. CASE (\A f \in File : disk[d][f] = Missing) /\ disk' = [disk EXCEPT ![d].dir = FALSE]
    <3>1. /\ \A u \in Step, g \in File : disk'[u][g] = disk[u][g]
          /\ \A u \in Step : disk'[u].dir = IF u = d THEN FALSE ELSE disk[u].dir
      BY <1>2, <1>4, <2>2 DEF Directory, File
    <3>2. QED
      BY <1>2, <2>2, <3>1
  <2>3. QED
    BY <1>3, <2>1, <2>2
<1>6. /\ Writer' = Writer /\ Registered' = registry \ {d} /\ Registered = registry
      /\ \A u : (InHand(u)' <=> InHand(u)) /\ (Waiting(u)' <=> Waiting(u))
  BY <1>1, <1>3 DEF Writer, Registered, InHand, Waiting
<1>7. \A u : Active(u)' <=> Active(u)
  BY <1>1, <1>3 DEF Active, Writing, Writer
<1>8. \A u, f : (OpenIn(u, f)' <=> OpenIn(u, f)) /\ (ToOpen(u, f)' <=> ToOpen(u, f))
  BY <1>3, <1>6, <1>7 DEF OpenIn, ToOpen
<1>9. disk'[live.step].dir
  BY <1>2, <1>5
<1>10. SameWeights' /\ Collecting' /\ MainWrites'
  BY <1>2, <1>3 DEF Good, SameWeights, Collecting, MainWrites
<1>11. FilesFilled'
  BY <1>5, <1>8 DEF Good, FilesFilled
<1>12. FilesKept'
  <2>1. ASSUME NEW u \in Step, NewerThan(u) PROVE NewerThan(u)'
    <3>1. PICK w \in Step : w > u /\ disk[w].dir
      BY <2>1 DEF NewerThan
    <3>2. CASE w = d
      <4>1. live.step > u
        BY <1>2, <3>1, <3>2, Types
      <4>2. QED
        BY <1>2, <1>9, <4>1 DEF NewerThan
    <3>3. CASE w # d
      BY <1>5, <3>1, <3>3 DEF NewerThan
    <3>4. QED
      BY <3>2, <3>3
  <2>2. QED
    BY <1>5, <1>8, <2>1 DEF Good, FilesKept
<1>13. Ahead'
  BY <1>1, <1>3, <1>5, <1>6 DEF Good, Ahead
<1>14. SavedKept'
  <2>1. ASSUME ~async, NEW u \in Step, Whole(u) PROVE Whole(u)'
    <3>1. "meta" \in File /\ disk[u]["meta"] > 0
      BY <2>1 DEF Whole, WholeIn, File
    <3>2. u # d
      <4>1. ASSUME u = d PROVE FALSE
        <5>1. disk[u]["meta"] = 0
          BY <1>5, <2>1, <3>1, <4>1 DEF Missing
        <5>2. QED
          BY <3>1, <5>1
      <4>2. QED
        BY <4>1
    <3>3. QED
      BY <1>5, <2>1, <3>2 DEF Whole, WholeIn
  <2>2. QED
    BY <1>1, <1>3, <2>1 DEF Good, SavedKept
<1>15. RegisteredWritten'
  BY <1>3, <1>4, <1>5, <1>6 DEF Good, RegisteredWritten
<1>16. AllRegistered'
  <2> SUFFICES ASSUME NEW u \in Step, disk'[u].dir \/ Waiting(u) \/ InHand(u)
               PROVE  u \in registry \ {d} \/ (async /\ \E w \in registry \ {d} : w > u)
    BY <1>3, <1>6 DEF AllRegistered
  <2>1. u \in Nat
    BY Types
  <2>2. u \in registry \/ (async /\ \E w \in registry : w > u)
    BY <1>1, <1>5, <1>6 DEF Good, AllRegistered
  <2>3. CASE u = d
    <3>1. async
      BY <1>5, <2>3 DEF Waiting, InHand, Base, Threads
    <3>2. QED
      BY <1>2, <2>3, <3>1
  <2>4. CASE u # d /\ u \in registry
    BY <2>4
  <2>5. CASE async /\ \E w \in registry : w > u
    <3>1. PICK w \in registry : w > u
      BY <2>5
    <3>2. w = d => live.step > u
      BY <1>2, <2>1, <3>1
    <3>3. QED
      BY <1>2, <2>5, <3>1, <3>2
  <2>6. QED
    BY <2>2, <2>3, <2>4, <2>5
<1>17. KeptWhole'
  <2>1. \A u \in registry : Newer(u)' = Newer(u)
    BY <1>2, <1>3, <1>4 DEF Newer
  <2>2. QED
    BY <1>3, <1>4, <1>5, <1>6, <1>8, <2>1 DEF Good, KeptWhole
<1>18. QED
  BY <1>10, <1>11, <1>12, <1>13, <1>14, <1>15, <1>16, <1>17 DEF Good

(* A crash that cuts no save short: no file is open, and the newest           *)
(* directory is whole.                                                       *)
LEMMA RestartFinds ==
  ASSUME Base, Good, Restart, torn' = {}
  PROVE  /\ \A u \in Step, f \in File : ~OpenIn(u, f) /\ ~ToOpen(u, f)
         /\ Found = {} => live' = NoJob
         /\ Found # {} => /\ Newest(Found) \in Found /\ Newest(Found) \in Step
                          /\ \A u \in Found : u <= Newest(Found)
                          /\ live'.step = Newest(Found) /\ live'.weights = Newest(Found)
         /\ pc' = "TRAIN"
<1>1. ~(Writing(Writer) /\ at[Writer] \in 1 .. NumWrites)
  <2>1. ASSUME Writing(Writer), at[Writer] \in 1 .. NumWrites PROVE FALSE
    <3>1. Writer \in Thread
      BY DEF Writer, Thread
    <3>2. job[Writer].step \in Step /\ job[Writer].step # 0
      BY <2>1, <3>1, WriterFacts, Types
    <3>3. job[Writer].step \in Interrupted
      BY <2>1, <3>1, <3>2 DEF Interrupted
    <3>4. QED
      BY <3>3, RestartFacts
  <2>2. QED
    BY <2>1
<1>2. \A u \in Step, f \in File : ~OpenIn(u, f) /\ ~ToOpen(u, f)
  <2>1. at[Writer] \in Nat
    BY Types DEF Writer, Thread
  <2>2. \A u \in Step, f \in File : OpenIn(u, f) \/ ToOpen(u, f) =>
          Writing(Writer) /\ at[Writer] >= 1 /\ at[Writer] <= NumWrites
    BY ActiveFacts DEF Active
  <2>3. at[Writer] >= 1 /\ at[Writer] <= NumWrites => at[Writer] \in 1 .. NumWrites
    BY <2>1 DEF NumWrites
  <2>4. QED
    BY <1>1, <2>2, <2>3
<1>3. ASSUME Found # {}
      PROVE  /\ Newest(Found) \in Found /\ Newest(Found) \in Step
             /\ \A u \in Found : u <= Newest(Found)
             /\ \A f \in File : disk[Newest(Found)][f] = Newest(Found)
  <2>1. Found \in SUBSET Step
    BY DEF Found
  <2>2. Newest(Found) \in Found /\ \A u \in Found : u <= Newest(Found)
    BY <1>3, <2>1, NewestFacts
  <2> DEFINE n == Newest(Found)
  <2> HIDE DEF n
  <2>3. n \in Step /\ n \in Nat /\ disk[n].dir /\ \A u \in Step : disk[u].dir => u <= n /\ u \in Nat
    BY <2>1, <2>2, Types DEF n, Found
  <2>4. ~NewerThan(n)
    <3> SUFFICES ASSUME NEW u \in Step, u > n, disk[u].dir PROVE FALSE
      BY DEF NewerThan
    <3>1. u <= n /\ u \in Nat /\ n \in Nat
      BY <2>3
    <3>2. QED
      BY <3>1
  <2>5. \A f \in File : disk[n][f] = n
    BY <1>2, <2>3, <2>4 DEF Good, FilesFilled, FilesKept
  <2>6. QED
    BY <2>1, <2>2, <2>5 DEF n
<1>4. Found # {} => Loadable(Newest(Found))
  <2> DEFINE n == Newest(Found)
  <2> HIDE DEF n
  <2>1. Found # {} => n \in Step /\ n >= 1 /\ n \in Nat /\ disk[n]["weights"] = n /\ disk[n]["state"] = n
    BY <1>3, Types, OrderFacts DEF n
  <2>2. Found # {} => Loadable(n)
    BY <2>1 DEF Loadable, Empty, Cut
  <2>3. QED
    BY <2>2 DEF n
<1>5. Ok
  BY <1>4 DEF Ok
<1>6. Found # {} => live'.step = Newest(Found) /\ live'.weights = Newest(Found)
  BY <1>3, <1>5, RestartFacts, OrderFacts
<1>7. QED
  BY <1>2, <1>3, <1>5, <1>6, RestartFacts

LEMMA RestartGood ==
  ASSUME Base, Base', Good, torn' = {}, Restart
  PROVE  Good'
<1>1. /\ UNCHANGED <<async, disk, saved>> /\ crashes' = crashes + 1 /\ registry' = Found /\ pc' = "TRAIN"
      /\ pending' = <<>> /\ saver' = IF async THEN "LOOP" ELSE "NONE"
      /\ \A t \in Thread : job'[t] = NoJob
      /\ \A t \in Thread : at'[t] = 0
  BY RestartFacts, RestartFinds
<1>2. /\ \A u : ~Waiting(u)' /\ ~InHand(u)'
      /\ \A u : NewerThan(u)' <=> NewerThan(u)
      /\ \A u : Whole(u)' <=> Whole(u)
      /\ Registered' = Found
  <2>1. Len(pending') = 0
    BY <1>1, EmptySeq
  <2>2. QED
    BY <1>1, <2>1 DEF Waiting, InHand, NewerThan, Whole, WholeIn, Registered
<1>3. \A u \in Step, f \in File : ~OpenIn(u, f) /\ ~ToOpen(u, f)
  BY RestartFinds
<1>4. \A u : ~Active(u)'
  BY <1>1 DEF Active, Writing
<1>5. \A u, f : ~OpenIn(u, f)' /\ ~ToOpen(u, f)'
  BY <1>4 DEF OpenIn, ToOpen
<1>6. \A u \in Found : u \in Step /\ u \in Nat /\ disk[u].dir /\ u <= live'.step
  BY RestartFinds, Types DEF Found
<1>7. \A u \in Step : disk[u].dir => u \in Found
  BY DEF Found
<1>8. live'.step = live'.weights /\ live'.step \in Nat
  <2>1. CASE Found = {}
    BY <2>1, RestartFinds DEF NoJob
  <2>2. CASE Found # {}
    BY <2>2, RestartFinds, Types
  <2>3. QED
    BY <2>1, <2>2
<1>9. SameWeights'
  <2>1. \A i \in 1 .. Len(pending') : FALSE
    BY <1>1, EmptySeq
  <2>2. QED
    BY <1>1, <1>8, <2>1 DEF SameWeights, NoJob
<1>10. FilesFilled' /\ FilesKept'
  BY <1>1, <1>2, <1>3, <1>5 DEF Good, FilesFilled, FilesKept
<1>11. Ahead'
  BY <1>1, <1>2, <1>6, <1>7 DEF Ahead
<1>12. Collecting' /\ MainWrites'
  BY <1>1 DEF Collecting, MainWrites
<1>13. SavedKept'
  <2>1. ASSUME ~async, saved # 0 PROVE saved <= live'.step /\ \E u \in Step : u >= saved /\ Whole(u)
    <3>1. PICK u \in Step : u >= saved /\ Whole(u)
      BY <2>1 DEF Good, SavedKept
    <3>2. u \in Found /\ u <= live'.step /\ u \in Nat /\ saved \in Nat
      BY <1>6, <1>7, <3>1, Types DEF Whole, WholeIn
    <3>3. QED
      BY <1>8, <3>1, <3>2
  <2>2. QED
    BY <1>1, <1>2, <1>8, <2>1 DEF SavedKept
<1>14. RegisteredWritten' /\ AllRegistered'
  BY <1>1, <1>2, <1>6, <1>7 DEF RegisteredWritten, AllRegistered
<1>15. KeptWhole'
  <2>1. crashes' # 0
    BY <1>1, Types
  <2> SUFFICES ASSUME ~async, NEW s \in Found, NEW f \in File, disk[s][f] = Missing
               PROVE  Cardinality(Newer(s)') >= MaxCheckpoints
    BY <1>1, <1>2, <1>5, <2>1 DEF KeptWhole
  <2>2. \A u : ~Waiting(u) /\ ~InHand(u)
    BY DEF Waiting, InHand, Base, Threads
  <2>3. s \in Registered
    <3>1. NewerThan(s)
      BY <1>3, <1>6 DEF Good, FilesKept
    <3>2. ASSUME s = live.step PROVE FALSE
      <4>1. PICK u \in Step : u > live.step /\ disk[u].dir
        BY <3>1, <3>2 DEF NewerThan
      <4>2. u <= live.step /\ u \in Nat /\ live.step \in Nat
        BY <4>1, Types DEF Good, Ahead
      <4>3. QED
        BY <4>1, <4>2
    <3>3. QED
      BY <1>6, <3>2 DEF Good, AllRegistered
  <2>4. Cardinality(Newer(s)) >= MaxCheckpoints
    BY <1>3, <1>6, <2>3 DEF Good, KeptWhole
  <2>5. registry \subseteq registry'
    BY <1>1, <1>7, <2>2, Types DEF Good, RegisteredWritten, Registered
  <2>6. /\ Cardinality(Newer(s)) \in Nat /\ Cardinality(Newer(s)') \in Nat
        /\ Cardinality(Newer(s)) <= Cardinality(Newer(s)')
    BY <2>5, NewerGrows
  <2>7. QED
    BY <2>4, <2>6, Types
<1>16. QED
  BY <1>9, <1>10, <1>11, <1>12, <1>13, <1>14, <1>15 DEF Good

IInv == Base /\ (torn = {} => Good)

LEMMA NextGood == IInv /\ [Next]_vars => IInv'
<1> SUFFICES ASSUME IInv, [Next]_vars PROVE IInv'
  OBVIOUS
<1>1. Base /\ Base'
  BY NextBase DEF IInv
<1> SUFFICES ASSUME torn' = {} PROVE Good'
  BY <1>1 DEF IInv
<1>2. torn = {}
  BY DEF Next, MainNext, SaverNext, Train, WaitBegin, Stop, Restart, Terminating, vars, queueing, writers,
         SaveBegin, WriteNext, SaveWritten, SaveFails, Register, GCTest, GCUnlink, GCRemoved,
         WaitFlag, WaitCount, Joined, SaverTest, SaverSleep, SaverPop, SaverFlag, SaverDone, SaverExit
<1>3. Good
  BY <1>2 DEF IInv
<1>4. CASE UNCHANGED vars
  BY <1>3, <1>4 DEF vars, queueing, writers, Good, SameWeights, FilesFilled, FilesKept, Ahead, Collecting,
     MainWrites, SavedKept, RegisteredWritten, AllRegistered, KeptWhole, Registered, Newer, NewerThan,
     OpenIn, ToOpen, Active, Writing, Writer, Waiting, InHand, Whole, WholeIn
<1>5. CASE MainNext
  <2>1. CASE WriteNext("main")
    BY <1>1, <1>3, <2>1, WriteNextGood DEF Thread
  <2>2. CASE MainNext /\ ~WriteNext("main")
    BY <1>1, <1>3, <2>2, QuietGood, SaveBeginGood, SaveEndsGood, RegisterGood, GCUnlinkGood, GCRemovedGood
    DEF MainNext
  <2>3. QED
    BY <1>5, <2>1, <2>2
<1>6. CASE SaverNext
  <2>1. CASE WriteNext("saver")
    BY <1>1, <1>3, <2>1, WriteNextGood DEF Thread
  <2>2. CASE SaverNext /\ ~WriteNext("saver")
    BY <1>1, <1>3, <2>2, QuietGood, SaverPopGood, SaverDoneGood DEF SaverNext
  <2>3. QED
    BY <1>6, <2>1, <2>2
<1>7. QED
  BY <1>1, <1>3, <1>4, <1>5, <1>6, QuietGood, TrainGood, RestartGood DEF Next, Terminating

(* The inductive invariant: what the threads hold at every moment, and, as   *)
(* long as no save was cut short, what the directories hold.                *)
THEOREM Invariance == Spec => []IInv
<1>1. Init => IInv
  BY InitBase, InitGood DEF IInv
<1>2. QED
  BY <1>1, NextGood, PTL DEF Spec

(* However the threads interleave and however often the process is stopped   *)
(* between two saves, load_latest finds a checkpoint that loads, and a job   *)
(* that resumes has the weights of the step it counts.                      *)
THEOREM ResumesAreWhole == Spec => []ResumesWhole
<1>1. IInv => ResumesWhole
  BY DEF IInv, ResumesWhole, Good, SameWeights, Ahead
<1>2. QED
  BY <1>1, Invariance, PTL

-----------------------------------------------------------------------------
(* What holds of a process with synchronous saves that was not started      *)
(* again, also when saves fail half-way: what is registered is whole, the   *)
(* last checkpoint that was written among it.                               *)
MainFiles ==
  pc = "WRITE" =>
    /\ at["main"] >= 1 => disk[live.step].dir
    /\ \A f \in File : /\ at["main"] > OpensAt[f] => disk[live.step][f] # Missing
                       /\ at["main"] > ClosesAt[f] => disk[live.step][f] = live.step

Older ==
  \A s \in registry : s <= live.step /\ (pc \in {"SAVE", "WRITE", "REGISTER"} => s < live.step)

AllWhole == \A s \in registry : Whole(s) \/ (pc = "GC_REMOVE" /\ s = Doomed)

(* The save is written and not yet registered. *)
NotRegistered == pc = "REGISTER" \/ (pc = "WRITE" /\ at["main"] > NumWrites)

SavedRegistered ==
  /\ NotRegistered => saved = live.step
  /\ ~NotRegistered => (saved # 0 => saved \in registry) /\ \A s \in registry : s <= saved

FirstRun ==
  /\ SameWeights /\ MainFiles /\ Older /\ AllWhole /\ SavedRegistered
  /\ pc = "REGISTER" => Whole(live.step)
  /\ pc = "GC_REMOVE" => Cardinality(registry) > MaxCheckpoints

LEMMA InitFirstRun == Init => FirstRun
<1> SUFFICES ASSUME Init PROVE FirstRun
  OBVIOUS
<1>1. /\ pc = "TRAIN" /\ registry = {} /\ saved = 0 /\ live = NoJob
      /\ pending = <<>> /\ Len(pending) = 0 /\ \A t \in Thread : job[t] = NoJob
  BY EmptySeq DEF Init
<1>2. SameWeights
  BY <1>1 DEF SameWeights, NoJob
<1>3. QED
  BY <1>1, <1>2 DEF FirstRun, MainFiles, Older, AllWhole, SavedRegistered, NotRegistered

(* The last checkpoint that was written is not the one to remove. *)
LEMMA SavedNotDoomed ==
  ASSUME Base, FirstRun, pc = "GC_REMOVE"
  PROVE  /\ Doomed \in registry /\ Doomed \in Step /\ saved \in registry /\ saved # Doomed
         /\ registry # {} /\ Whole(saved)
<1>1. /\ Cardinality(registry) > MaxCheckpoints /\ ~NotRegistered
      /\ registry \in SUBSET Nat /\ registry \in SUBSET Step /\ IsFiniteSet(registry)
      /\ MaxCheckpoints \in Nat /\ MaxCheckpoints >= 1 /\ saved \in Nat
  BY Types DEF FirstRun, NotRegistered
<1>2. registry # {}
  BY <1>1, FS_EmptySet
<1>3. Doomed \in registry /\ \A u \in registry : Doomed <= u
  BY <1>1, <1>2, OldestFacts DEF Doomed
<1>4. \A s \in registry : s <= saved /\ s \in Nat /\ s >= 1
  BY <1>1, Types DEF FirstRun, SavedRegistered
<1>5. saved \in registry
  BY <1>1, <1>3, <1>4 DEF FirstRun, SavedRegistered
<1>6. saved # Doomed
  <2> SUFFICES ASSUME saved = Doomed PROVE FALSE
    OBVIOUS
  <2>1. \A s \in registry : s = saved
    BY <1>1, <1>3, <1>4
  <2>2. registry = {saved}
    BY <1>5, <2>1
  <2>3. Cardinality(registry) = 1
    BY <2>2, FS_Singleton
  <2>4. QED
    BY <1>1, <2>3
<1>7. QED
  BY <1>1, <1>2, <1>3, <1>5, <1>6 DEF FirstRun, AllWhole

(* Steps that leave the disk and the registry alone. *)
LEMMA QuietFirstRun ==
  ASSUME Base, FirstRun, ~async,
         \/ WaitBegin \/ WaitFlag \/ WaitCount \/ Stop \/ Joined \/ GCTest \/ UNCHANGED vars
  PROVE  FirstRun'
<1>1. UNCHANGED <<disk, registry, live, pending, job, at, saved>>
  BY DEF WaitBegin, WaitFlag, WaitCount, Stop, Joined, GCTest, vars, queueing, writers
<1>2. /\ \/ pc' = pc
         \/ pc' \in {"TRAIN", "WAIT", "WAIT_COUNT", "JOIN", "STOPPED"} /\ pc \notin {"WRITE", "REGISTER", "GC_REMOVE"}
         \/ pc' = "GC_REMOVE" /\ pc = "GC" /\ Cardinality(registry) > MaxCheckpoints
  BY DEF WaitBegin, WaitFlag, WaitCount, Stop, Joined, GCTest, TooMany, vars
<1>3. /\ \A s : Whole(s)' <=> Whole(s)
      /\ Doomed' = Doomed
      /\ NotRegistered' <=> NotRegistered
  BY <1>1, <1>2 DEF Whole, WholeIn, Doomed, NotRegistered
<1>4. SameWeights' /\ MainFiles' /\ Older' /\ AllWhole' /\ SavedRegistered'
  BY <1>1, <1>2, <1>3 DEF FirstRun, SameWeights, MainFiles, Older, AllWhole, SavedRegistered
<1>5. QED
  BY <1>1, <1>2, <1>3, <1>4 DEF FirstRun

LEMMA TrainFirstRun ==
  ASSUME Base, FirstRun, ~async, Train
  PROVE  FirstRun'
<1>1. /\ UNCHANGED <<disk, registry, pending, job, at, saved>>
      /\ pc = "TRAIN" /\ pc' \in {"TRAIN", "SAVE"}
      /\ live' = [step |-> live.step + 1, weights |-> live.weights + 1]
  BY DEF Train, queueing, writers
<1>2. live'.step = live.step + 1 /\ live'.weights = live.weights + 1 /\ live.step \in Nat
  BY <1>1, Types
<1>3. \A s : Whole(s)' <=> Whole(s)
  BY <1>1 DEF Whole, WholeIn
<1>4. Older'
  <2>1. \A s \in registry : s <= live.step /\ s \in Nat
    BY Types DEF FirstRun, Older
  <2>2. \A s \in registry : s <= live.step + 1 /\ s < live.step + 1
    BY <1>2, <2>1
  <2>3. QED
    BY <1>1, <1>2, <2>2 DEF Older
<1>5. SameWeights' /\ MainFiles' /\ AllWhole' /\ SavedRegistered'
  BY <1>1, <1>2, <1>3 DEF FirstRun, SameWeights, MainFiles, AllWhole, SavedRegistered, NotRegistered
<1>6. QED
  BY <1>1, <1>4, <1>5 DEF FirstRun

LEMMA SaveBeginFirstRun ==
  ASSUME Base, FirstRun, ~async, SaveBegin
  PROVE  FirstRun'
<1>1. /\ UNCHANGED <<disk, registry, live, pending, saved>>
      /\ pc = "SAVE" /\ pc' = "WRITE"
      /\ job' = [job EXCEPT !["main"] = live] /\ at' = [at EXCEPT !["main"] = 0]
  BY DEF SaveBegin
<1>2. job \in [Thread -> State] /\ at \in [Thread -> 0 .. NumWrites + 1]
  BY DEF Base, TypeOK
<1>3. at'["main"] = 0 /\ job'["main"] = live /\ job'["saver"] = job["saver"]
  BY <1>1, <1>2 DEF Thread
<1>4. \A s : Whole(s)' <=> Whole(s)
  BY <1>1 DEF Whole, WholeIn
<1>5. SameWeights'
  BY <1>1, <1>3 DEF FirstRun, SameWeights, Thread
<1>6. MainFiles'
  BY <1>3, OrderFacts DEF MainFiles
<1>7. Older' /\ AllWhole' /\ SavedRegistered'
  BY <1>1, <1>3, <1>4 DEF FirstRun, Older, AllWhole, SavedRegistered, NotRegistered, NumWrites
<1>8. QED
  BY <1>1, <1>5, <1>6, <1>7 DEF FirstRun

LEMMA WriteNextFirstRun ==
  ASSUME Base, FirstRun, ~async, WriteNext("main")
  PROVE  FirstRun'
<1> DEFINE s == live.step
           k == at["main"]
<1>1. /\ UNCHANGED <<registry, live, pc, pending, job>>
      /\ pc = "WRITE" /\ k <= NumWrites /\ job["main"] = live
      /\ at' = [at EXCEPT !["main"] = k + 1]
      /\ saved' = IF k = NumWrites /\ Whole(s)' THEN s ELSE saved
  BY DEF WriteNext, Writing, queueing, Whole, WholeIn, Base, Threads
<1>2. s \in Step /\ s \in Nat /\ s >= 1 /\ k \in Nat /\ "main" \in Thread
  BY <1>1, WriterFacts, Types DEF Thread, Writing
<1>3. at'["main"] = k + 1
  BY <1>1, <1>2 DEF Base, TypeOK
<1>4. WriteEffect(s, k)
  BY <1>1, <1>2, WriteEffects DEF FirstRun
<1> HIDE DEF s, k
<1>5. /\ k >= 1 => disk[s].dir
      /\ \A f \in File : /\ k > OpensAt[f] => disk[s][f] # Missing
                         /\ k > ClosesAt[f] => disk[s][f] = s
  BY <1>1 DEF FirstRun, MainFiles, s, k
<1>6. disk'[s].dir
  <2>1. k = 0 \/ k >= 1
    BY <1>2
  <2>2. QED
    BY <1>2, <1>4, <1>5, <2>1 DEF WriteEffect
<1>7. \A f \in File : k + 1 > OpensAt[f] => disk'[s][f] # Missing
  <2> SUFFICES ASSUME NEW f \in File, k + 1 > OpensAt[f] PROVE disk'[s][f] # Missing
    OBVIOUS
  <2>1. k = OpensAt[f] \/ k > OpensAt[f]
    BY <1>2, OrderFacts
  <2>2. QED
    BY <1>2, <1>4, <1>5, <2>1 DEF WriteEffect, Missing, Empty
<1>8. \A f \in File : k + 1 > ClosesAt[f] => disk'[s][f] = s
  <2> SUFFICES ASSUME NEW f \in File, k + 1 > ClosesAt[f] PROVE disk'[s][f] = s
    OBVIOUS
  <2>1. k = ClosesAt[f] \/ ClosesAt[f] < k
    BY <1>2, OrderFacts
  <2>2. CASE k = ClosesAt[f]
    <3>1. k + 1 > OpensAt[f]
      BY <1>2, <2>2, OrderFacts
    <3>2. QED
      BY <1>4, <1>7, <2>2, <3>1 DEF WriteEffect
  <2>3. CASE ClosesAt[f] < k
    <3>1. disk'[s][f] = disk[s][f]
      BY <1>2, <1>4, <2>3 DEF WriteEffect
    <3>2. disk[s][f] = s
      BY <1>2, <1>5, <2>3, OrderFacts
    <3>3. QED
      BY <3>1, <3>2
  <2>4. QED
    BY <2>1, <2>2, <2>3
<1>9. MainFiles'
  BY <1>1, <1>3, <1>6, <1>7, <1>8 DEF MainFiles, s
<1>10. k = NumWrites => Whole(s)'
  <2> SUFFICES ASSUME k = 7 PROVE Whole(s)'
    BY DEF NumWrites
  <2>1. \A f \in File : k + 1 > ClosesAt[f]
    BY OrderFacts
  <2>2. QED
    BY <1>1, <1>2, <1>6, <1>8, <2>1 DEF Whole, WholeIn, s
<1>11. SavedRegistered'
  <2>1. NotRegistered' <=> k = NumWrites
    BY <1>1, <1>2, <1>3 DEF NotRegistered, NumWrites
  <2>2. ~NotRegistered
    BY <1>1, <1>2 DEF NotRegistered, NumWrites, k
  <2>3. QED
    BY <1>1, <1>10, <2>1, <2>2 DEF FirstRun, SavedRegistered, s
<1>12. AllWhole'
  <2> SUFFICES ASSUME NEW u \in registry PROVE Whole(u)'
    BY <1>1 DEF AllWhole
  <2>1. u \in Step /\ u < s /\ u \in Nat
    BY <1>1, Types DEF FirstRun, Older, s
  <2>2. u # s
    BY <1>2, <2>1
  <2>3. Whole(u)
    BY <1>1 DEF FirstRun, AllWhole
  <2>4. QED
    BY <1>4, <2>1, <2>2, <2>3 DEF WriteEffect, Whole, WholeIn
<1>13. SameWeights' /\ Older'
  BY <1>1 DEF FirstRun, SameWeights, Older
<1>14. QED
  BY <1>1, <1>9, <1>11, <1>12, <1>13 DEF FirstRun

LEMMA SaveEndsFirstRun ==
  ASSUME Base, FirstRun, ~async, SaveWritten \/ SaveFails
  PROVE  FirstRun'
<1>1. /\ UNCHANGED <<disk, registry, live, pending, saved>>
      /\ pc = "WRITE"
      /\ \/ pc' = "REGISTER" /\ at["main"] > NumWrites
         \/ pc' = "TRAIN" /\ at["main"] <= NumWrites
      /\ job' = [job EXCEPT !["main"] = NoJob] /\ at' = [at EXCEPT !["main"] = 0]
  BY DEF SaveWritten, SaveFails, queueing
<1>2. /\ job'["main"] = NoJob /\ job'["saver"] = job["saver"] /\ at["main"] \in Nat
      /\ live.step \in Step /\ live.step \in Nat /\ live.step >= 1
  BY <1>1, TookBackFacts, LiveSaved, Types DEF Thread, Base, Threads
<1>3. \A s : Whole(s)' <=> Whole(s)
  BY <1>1 DEF Whole, WholeIn
<1>4. pc' = "REGISTER" => Whole(live.step)
  <2> SUFFICES ASSUME at["main"] > 7 PROVE Whole(live.step)
    BY <1>1 DEF NumWrites
  <2>1. at["main"] >= 1 /\ \A f \in File : at["main"] > ClosesAt[f]
    BY <1>2, OrderFacts
  <2>2. disk[live.step].dir /\ \A f \in File : disk[live.step][f] = live.step
    BY <1>1, <2>1 DEF FirstRun, MainFiles
  <2>3. QED
    BY <1>2, <2>2 DEF Whole, WholeIn
<1>5. SameWeights'
  BY <1>1, <1>2 DEF FirstRun, SameWeights, Thread, NoJob
<1>6. NotRegistered' <=> NotRegistered
  BY <1>1, <1>2 DEF NotRegistered, NumWrites
<1>7. MainFiles' /\ Older' /\ AllWhole' /\ SavedRegistered'
  BY <1>1, <1>3, <1>6 DEF FirstRun, MainFiles, Older, AllWhole, SavedRegistered
<1>8. QED
  BY <1>1, <1>3, <1>4, <1>5, <1>7 DEF FirstRun

LEMMA RegisterFirstRun ==
  ASSUME Base, FirstRun, ~async, Register
  PROVE  FirstRun'
<1>1. /\ UNCHANGED <<disk, live, pending, job, at, saved>>
      /\ registry' = registry \cup {live.step} /\ pc = "REGISTER" /\ pc' = "GC"
  BY DEF Register, queueing, writers
<1>2. /\ live.step \in Nat /\ saved = live.step /\ Whole(live.step)
      /\ \A s \in registry : s <= live.step /\ Whole(s)
  BY <1>1, Types DEF FirstRun, Older, AllWhole, SavedRegistered, NotRegistered
<1>3. \A s : Whole(s)' <=> Whole(s)
  BY <1>1 DEF Whole, WholeIn
<1>4. SavedRegistered'
  BY <1>1, <1>2 DEF SavedRegistered, NotRegistered
<1>5. SameWeights' /\ MainFiles' /\ Older' /\ AllWhole'
  BY <1>1, <1>2, <1>3 DEF FirstRun, SameWeights, MainFiles, Older, AllWhole
<1>6. QED
  BY <1>1, <1>4, <1>5 DEF FirstRun

LEMMA GCUnlinkFirstRun ==
  ASSUME Base, FirstRun, ~async, GCUnlink
  PROVE  FirstRun'
<1>1. pc = "GC_REMOVE"
  BY DEF GCUnlink
<1>2. registry # {}
  BY <1>1, SavedNotDoomed
<1>3. /\ UNCHANGED <<registry, live, pc, pending, job, at, saved>>
      /\ \A u \in Step : disk'[u].dir = disk[u].dir
      /\ \A u \in Step, g \in File : u # Doomed => disk'[u][g] = disk[u][g]
  BY <1>2, UnlinkFacts DEF queueing, writers
<1>4. \A u \in Step : u # Doomed => (Whole(u)' <=> Whole(u))
  BY <1>3 DEF Whole, WholeIn
<1>5. Doomed' = Doomed /\ \A u \in registry : u \in Step
  BY <1>3, Types DEF Doomed
<1>6. AllWhole'
  BY <1>1, <1>3, <1>4, <1>5 DEF FirstRun, AllWhole
<1>7. SameWeights' /\ MainFiles' /\ Older' /\ SavedRegistered'
  BY <1>1, <1>3 DEF FirstRun, SameWeights, MainFiles, Older, SavedRegistered, NotRegistered
<1>8. QED
  BY <1>1, <1>3, <1>6, <1>7 DEF FirstRun

LEMMA GCRemovedFirstRun ==
  ASSUME Base, FirstRun, ~async, GCRemoved
  PROVE  FirstRun'
<1>1. PICK d : d = Doomed
  OBVIOUS
<1>2. /\ UNCHANGED <<live, pending, job, at, saved>> /\ pc = "GC_REMOVE" /\ pc' = "GC"
      /\ registry' = registry \ {d}
      /\ disk' = disk \/ disk' = [disk EXCEPT ![d].dir = FALSE]
  BY <1>1 DEF GCRemoved, queueing, writers
<1>3. d \in Step /\ saved \in registry /\ saved # d
  BY <1>1, <1>2, SavedNotDoomed
<1>4. disk \in [Step -> Directory] /\ \A u \in registry : u \in Step
  BY Types
<1>5. \A u \in Step : u # d => disk'[u] = disk[u]
  BY <1>2, <1>3, <1>4
<1>6. AllWhole'
  <2> SUFFICES ASSUME NEW u \in registry, u # d PROVE Whole(u)'
    BY <1>2 DEF AllWhole
  <2>1. Whole(u)
    BY <1>1 DEF FirstRun, AllWhole
  <2>2. QED
    BY <1>4, <1>5, <2>1 DEF Whole, WholeIn
<1>7. SameWeights' /\ MainFiles' /\ Older'
  BY <1>2 DEF FirstRun, SameWeights, MainFiles, Older
<1>8. SavedRegistered'
  BY <1>2, <1>3 DEF FirstRun, SavedRegistered, NotRegistered
<1>9. QED
  BY <1>2, <1>6, <1>7, <1>8 DEF FirstRun

LEMMA NextFirstRun ==
  ASSUME Base, [Next]_vars, ~async, crashes = 0 => FirstRun, crashes' = 0
  PROVE  FirstRun'
<1>1. ~Restart
  BY Types DEF Restart
<1>2. crashes = 0
  BY <1>1 DEF Next, MainNext, SaverNext, Train, WaitBegin, Stop, Terminating, vars, queueing, writers,
         SaveBegin, WriteNext, SaveWritten, SaveFails, Register, GCTest, GCUnlink, GCRemoved,
         WaitFlag, WaitCount, Joined, SaverTest, SaverSleep, SaverPop, SaverFlag, SaverDone, SaverExit
<1>3. FirstRun
  BY <1>2
<1>4. ~SaverNext
  BY DEF Base, Threads, SaverNext, SaverTest, SaverSleep, SaverPop, SaverFlag, WriteNext, Writing,
         SaverDone, SaverExit
<1>5. ASSUME MainNext PROVE FirstRun'
  BY <1>3, <1>5, QuietFirstRun, SaveBeginFirstRun, WriteNextFirstRun, SaveEndsFirstRun,
     RegisterFirstRun, GCUnlinkFirstRun, GCRemovedFirstRun DEF MainNext
<1>6. QED
  BY <1>1, <1>3, <1>4, <1>5, QuietFirstRun, TrainFirstRun DEF Next, Terminating

(* A checkpoint as recent as the last one written is whole. *)
LEMMA FirstRunKeeps ==
  ASSUME Base, FirstRun, saved # 0
  PROVE  \E s \in Step : s >= saved /\ Whole(s)
<1>1. saved \in Step /\ saved >= saved
  BY Types DEF Base, TypeOK
<1>2. CASE pc = "REGISTER"
  BY <1>1, <1>2 DEF FirstRun, SavedRegistered, NotRegistered
<1>3. CASE pc = "WRITE" /\ at["main"] > NumWrites
  <2>1. saved = live.step /\ live.step \in Nat /\ live.step >= 1 /\ at["main"] \in Nat /\ at["main"] > 7
    BY <1>3, Types DEF FirstRun, SavedRegistered, NotRegistered, Base, Threads, NumWrites, Thread
  <2>2. at["main"] >= 1 /\ \A f \in File : at["main"] > ClosesAt[f]
    BY <2>1, OrderFacts
  <2>3. disk[live.step].dir /\ \A f \in File : disk[live.step][f] = live.step
    BY <1>3, <2>2 DEF FirstRun, MainFiles
  <2>4. Whole(saved)
    BY <2>1, <2>3 DEF Whole, WholeIn
  <2>5. QED
    BY <1>1, <2>4
<1>4. CASE ~NotRegistered
  <2>1. saved \in registry
    BY <1>4 DEF FirstRun, SavedRegistered
  <2>2. CASE pc = "GC_REMOVE"
    BY <1>1, <2>2, SavedNotDoomed
  <2>3. CASE pc # "GC_REMOVE"
    BY <1>1, <2>1, <2>3 DEF FirstRun, AllWhole
  <2>4. QED
    BY <2>2, <2>3
<1>5. QED
  BY <1>2, <1>3, <1>4 DEF NotRegistered

(* With synchronous saves no removal takes the last checkpoint that was      *)
(* written without a newer whole one: whatever saves fail until the process *)
(* is started again, and through restarts as long as no save was cut short. *)
THEOREM SavedIsKept == Spec => []NeverLost
<1> DEFINE FInv == Base /\ (~async /\ crashes = 0 => FirstRun)
<1>1. Init => FInv
  BY InitBase, InitFirstRun
<1>2. FInv /\ [Next]_vars => FInv'
  <2> SUFFICES ASSUME FInv, [Next]_vars PROVE FInv'
    OBVIOUS
  <2>1. Base' /\ async' = async
    BY NextBase DEF Next, MainNext, SaverNext, Train, WaitBegin, Stop, Restart, Terminating, vars, queueing,
         SaveBegin, WriteNext, SaveWritten, SaveFails, Register, GCTest, GCUnlink, GCRemoved,
         WaitFlag, WaitCount, Joined, SaverTest, SaverSleep, SaverPop, SaverFlag, SaverDone, SaverExit
  <2>2. QED
    BY <2>1, NextFirstRun
<1>3. IInv /\ FInv => NeverLost
  <2> SUFFICES ASSUME IInv, FInv, ~async, saved # 0, torn = {} \/ crashes = 0
               PROVE  \E s \in Step : s >= saved /\ Whole(s)
    BY DEF NeverLost
  <2>1. CASE torn = {}
    BY <2>1 DEF IInv, Good, SavedKept
  <2>2. CASE crashes = 0
    BY <2>2, FirstRunKeeps
  <2>3. QED
    BY <2>1, <2>2
<1> HIDE DEF FInv
<1>4. QED
  BY <1>1, <1>2, <1>3, Invariance, PTL DEF Spec
-----------------------------------------------------------------------------
(* While no save was cut short, and once the queue is empty and the save     *)
(* thread idle, every checkpoint that the registry counts is on the disk,    *)
(* and whole (with async_save, after a crash, only the newest of them), for  *)
(* every max_checkpoints.                                                   *)
THEOREM RegisteredAreOnDisk == Spec => []RegisteredOnDisk
<1>1. ASSUME Base, Good, pc = "TRAIN", pending = <<>>, saver \in {"LOOP", "POP", "NONE"},
             NEW s \in registry, Cardinality({u \in registry : u > s}) < MaxCheckpoints
      PROVE  disk[s].dir /\ (s = Newest(registry) \/ ~async \/ crashes = 0 => Whole(s))
  <2>1. s \in Step /\ s \in Nat /\ s >= 1 /\ registry \in SUBSET Step
    BY <1>1, Types
  <2>2. \A u : ~Waiting(u) /\ ~InHand(u)
    <3>1. \A i \in 1 .. Len(pending) : FALSE
      BY <1>1, EmptySeq
    <3>2. QED
      BY <1>1, <3>1 DEF Waiting, InHand
  <2>3. Registered = registry
    BY <1>1 DEF Registered
  <2>4. \A u \in registry : disk[u].dir
    BY <1>1, <2>2, <2>3 DEF Good, RegisteredWritten
  <2>5. \A f \in File : ~OpenIn(s, f) /\ ~ToOpen(s, f)
    BY <1>1, <2>1, ActiveFacts
  <2>6. ASSUME s = Newest(registry) \/ ~async \/ crashes = 0
        PROVE  \A f \in File : disk[s][f] # Missing
    <3>1. CASE s = Newest(registry)
      <4>1. \A u \in registry : u <= s /\ u \in Nat
        BY <1>1, <2>1, <3>1, NewestFacts, Types
      <4>2. ASSUME NEW u \in Step, u > s, disk[u].dir PROVE FALSE
        <5>1. u \in registry \/ \E w \in registry : w > u
          BY <1>1, <2>3, <4>2 DEF Good, AllRegistered
        <5>2. u \in Nat
          BY <1>1, Types
        <5>3. QED
          BY <2>1, <4>1, <4>2, <5>1, <5>2
      <4>3. ~NewerThan(s)
        BY <4>2 DEF NewerThan
      <4>4. QED
        BY <1>1, <2>1, <2>4, <2>5, <4>3 DEF Good, FilesKept
    <3>2. CASE ~async \/ crashes = 0
      <4>1. ~(Cardinality(Newer(s)) >= MaxCheckpoints)
        <5>1. IsFiniteSet(Newer(s))
          <6>1. Newer(s) \subseteq registry /\ IsFiniteSet(registry)
            BY Types, <1>1 DEF Newer
          <6>2. QED
            BY <6>1, FS_Subset
        <5>2. Cardinality(Newer(s)) \in Nat
          BY <5>1, FS_CardinalityType
        <5>3. Cardinality(Newer(s)) < MaxCheckpoints
          BY <1>1 DEF Newer
        <5>4. QED
          BY <1>1, <5>2, <5>3, Types
      <4>2. QED
        BY <1>1, <2>3, <2>4, <2>5, <3>2, <4>1 DEF Good, KeptWhole
    <3>3. QED
      BY <2>6, <3>1, <3>2
  <2>7. (\A f \in File : disk[s][f] # Missing) => Whole(s)
    <3>1. (\A f \in File : disk[s][f] # Missing) => \A f \in File : disk[s][f] = s
      BY <1>1, <2>1, <2>5 DEF Good, FilesFilled
    <3>2. (\A f \in File : disk[s][f] = s) => \A f \in File : disk[s][f] > 0
      BY <2>1
    <3>3. QED
      BY <2>4, <3>1, <3>2 DEF Whole, WholeIn
  <2>8. QED
    BY <2>4, <2>6, <2>7
<1>2. IInv => RegisteredOnDisk
  BY <1>1 DEF IInv, RegisteredOnDisk
<1>3. QED
  BY <1>2, Invariance, PTL
=============================================================================
