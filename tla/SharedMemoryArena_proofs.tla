------------------------ MODULE SharedMemoryArena_proofs ------------------------
(***************************************************************************)
(* Proofs about SharedMemoryArena for every set of tensors of any sizes,    *)
(* every capacity and any number of resets.                                *)
(*                                                                         *)
(* Plan: between two resets the free offset only grows, and every write is  *)
(* at or above it. Everything allocated since the last reset lies below     *)
(* (Below), so neither the owner nor the reader ever sees it change.        *)
(***************************************************************************)
EXTENDS SharedMemoryArena, SequenceTheorems, TLAPS

(* Handles are of this epoch or earlier ones; what is allocated in this     *)
(* epoch lies below the free offset.                                       *)
Below ==
  /\ \A h \in handles : h.epoch <= resets
  /\ \A h \in handles : h.epoch = resets => \A c \in Extent(h) : c < used

(* What the reader has copied so far, as far as space was counted for. *)
ReaderInv ==
  reading # None =>
    /\ reading \in handles
    /\ got # <<>>
    /\ reading.epoch = resets =>
         \A i \in 1 .. Len(got) :
           i <= 1 + Size[reading.tensor] => got[i] = [of |-> reading.tensor, at |-> i - 1]

IInv == TypeOK /\ TensorsIntact /\ Below /\ ReaderInv
-----------------------------------------------------------------------------
LEMMA ArenaFacts ==
  /\ Capacity \in Nat /\ MaxResets \in Nat
  /\ \A t \in Tensors : /\ Size[t] \in Nat /\ Stored[t] \in Nat /\ Size[t] <= Stored[t]
                        /\ Total(t) = 1 + Size[t] /\ Total(t) \in Nat
  /\ \A c \in Cell : c \in Nat /\ c < Capacity
BY ArenaAssumption DEF Total, Cell

(* An extent lies in the arena if it ends below the free offset. *)
LEMMA ExtentFacts ==
  ASSUME TypeOK, NEW o \in Cell, NEW t \in Tensors, NEW e,
         e.offset = o, e.tensor = t
  PROVE  /\ Extent(e) = o .. o + Size[t]
         /\ \A c \in Extent(e) : c \in Nat /\ (c < used => c \in Cell)
<1>1. Extent(e) = o .. o + Size[t] /\ o \in Nat /\ Size[t] \in Nat
  BY ArenaFacts DEF Extent
<1>2. used \in Nat /\ used <= Capacity /\ Capacity \in Nat
  BY ArenaFacts DEF TypeOK
<1>3. QED
  BY <1>1, <1>2 DEF Cell

LEMMA InitIInv == Init => IInv
<1> SUFFICES ASSUME Init PROVE IInv
  OBVIOUS
<1>1. TypeOK
  <2>1. got \in Seq({None} \cup [of : Tensors, at : Nat])
    BY EmptySeq DEF Init
  <2>2. used \in 0 .. Capacity /\ resets \in 0 .. MaxResets
    BY ArenaFacts DEF Init
  <2>3. QED
    BY <2>1, <2>2 DEF Init, TypeOK
<1>2. TensorsIntact /\ Below /\ ReaderInv
  BY DEF Init, TensorsIntact, AllocationsDisjoint, Below, ReaderInv
<1>3. QED
  BY <1>1, <1>2 DEF IInv

(* Cells from `first` on are written; those below keep what they hold. *)
LEMMA WrittenFacts ==
  ASSUME TypeOK, NEW t \in Tensors, NEW k \in Nat
  PROVE  LET m == Written(used, t, k)
         IN  /\ m \in [Cell -> {None} \cup [of : Tensors, at : Nat]]
             /\ \A c \in Cell : c < used => m[c] = mem[c]
             /\ \A c \in Cell : c \in used .. used + k => m[c] = [of |-> t, at |-> c - used]
<1>1. used \in Nat /\ \A c \in Cell : c \in Nat
  BY ArenaFacts DEF TypeOK
<1>2. \A c \in Cell : Written(used, t, k)[c] =
        IF c \in used .. used + k THEN [of |-> t, at |-> c - used] ELSE mem[c]
  BY DEF Written
<1>3. \A c \in Cell : c \in used .. used + k => c - used \in Nat
  BY <1>1
<1>4. Written(used, t, k) \in [Cell -> {None} \cup [of : Tensors, at : Nat]]
  BY <1>2, <1>3 DEF Written, TypeOK
<1>5. \A c \in Cell : c < used => c \notin used .. used + k
  BY <1>1
<1>6. QED
  BY <1>2, <1>4, <1>5

(* What lies below the free offset is as it was after a write at it. *)
LEMMA KeptBelow ==
  ASSUME TypeOK, NEW k \in Nat, NEW t \in Tensors, mem' = Written(used, t, k),
         NEW e, e.offset \in Cell, e.tensor \in Tensors, Intact(e),
         \A c \in Extent(e) : c < used
  PROVE  Intact(e)'
<1>1. \A c \in Extent(e) : c \in Cell /\ c < used
  BY ExtentFacts
<1>2. \A c \in Extent(e) : mem'[c] = mem[c]
  BY <1>1, WrittenFacts
<1>3. QED
  BY <1>2 DEF Intact, Extent

LEMMA AllocationTypes ==
  ASSUME TypeOK
  PROVE  /\ \A n \in Names : allocations[n] # None =>
              allocations[n].offset \in Cell /\ allocations[n].tensor \in Tensors
         /\ \A h \in handles : h.offset \in Cell /\ h.tensor \in Tensors /\ h.epoch \in Nat
         /\ used \in Nat /\ used <= Capacity /\ resets \in Nat
BY ArenaFacts DEF TypeOK, Handle

LEMMA AllocateIInv ==
  ASSUME IInv, NEW n \in Names, NEW t \in Tensors, Allocate(n, t)
  PROVE  IInv'
<1> DEFINE new == [offset |-> used, tensor |-> t]
           handle == [offset |-> used, tensor |-> t, epoch |-> resets]
<1>1. /\ TypeOK /\ TensorsIntact /\ AllocationsDisjoint /\ Below /\ ReaderInv
      /\ used \in Nat /\ Capacity \in Nat /\ resets \in Nat
      /\ Size[t] \in Nat /\ Stored[t] \in Nat /\ Size[t] <= Stored[t] /\ Total(t) = 1 + Size[t]
  BY ArenaFacts, AllocationTypes DEF IInv, TensorsIntact
<1>2. /\ 1 + Size[t] <= Capacity - used /\ used + 1 + Stored[t] <= Capacity
      /\ mem' = Written(used, t, Stored[t])
      /\ allocations' = [allocations EXCEPT ![n] = new]
      /\ used' = used + (1 + Size[t])
      /\ handles' = handles \cup {handle} \/ handles' = handles
      /\ UNCHANGED <<resets, reading, got>>
  BY <1>1 DEF Allocate, NextFree, reader
<1>3. used \in Cell /\ used' \in 0 .. Capacity /\ used < used'
  BY <1>1, <1>2 DEF Cell
<1>4. TypeOK'
  <2>1. mem' \in [Cell -> {None} \cup [of : Tensors, at : Nat]]
    BY <1>1, <1>2, WrittenFacts
  <2>2. handle \in Handle
    BY <1>1, <1>3 DEF Handle, TypeOK
  <2>3. new \in [offset : Cell, tensor : Tensors]
    BY <1>3
  <2>4. QED
    BY <1>1, <1>2, <1>3, <2>1, <2>2, <2>3 DEF TypeOK
<1>5. ASSUME NEW e, e.offset = used, e.tensor = t
      PROVE  /\ Intact(e)' /\ Extent(e) = used .. used + Size[t]
             /\ \A c \in Extent(e) : c < used' /\ ~(c < used)
  <2>1. Extent(e) = used .. used + Size[t]
    BY <1>5 DEF Extent
  <2>2. \A c \in Extent(e) : c < used' /\ ~(c < used) /\ c \in Cell /\ c \in used .. used + Stored[t]
    BY <1>1, <1>2, <2>1 DEF Cell
  <2>3. \A c \in Extent(e) : mem'[c] = [of |-> t, at |-> c - used]
    BY <1>1, <1>2, <2>2, WrittenFacts
  <2>4. Intact(e)'
    BY <1>5, <2>3 DEF Intact, Extent
  <2>5. QED
    BY <2>1, <2>2, <2>4
<1>6. /\ \A m \in Names : m # n => allocations'[m] = allocations[m]
      /\ allocations'[n] = new
  BY <1>1, <1>2 DEF TypeOK
<1>7. \A c \in Nat : c < used => c < used'
  BY <1>1, <1>3
<1>8. ASSUME NEW m \in Names, m # n, allocations[m] # None
      PROVE  /\ Intact(allocations[m])'
             /\ \A c \in Extent(allocations[m]) : c < used /\ c < used'
  <2>1. \A c \in Extent(allocations[m]) : c < used /\ c \in Nat
    BY <1>1, <1>8, AllocationTypes, ExtentFacts DEF AllocationsDisjoint
  <2>2. Intact(allocations[m]) /\ allocations[m].offset \in Cell /\ allocations[m].tensor \in Tensors
    BY <1>1, <1>8, AllocationTypes DEF TensorsIntact
  <2>3. \A e : e = allocations[m] => Intact(e)'
    BY <1>1, <1>2, <2>1, <2>2, KeptBelow
  <2>4. Intact(allocations[m])'
    BY <1>6, <1>8, <2>3 DEF Intact, Extent
  <2>5. QED
    BY <1>7, <2>1, <2>4
<1>9. AllocationsDisjoint'
  <2>1. ASSUME NEW m \in Names, allocations'[m] # None
        PROVE  \A c \in Extent(allocations'[m]) : c < used'
    <3>1. CASE m = n
      BY <1>5, <1>6, <3>1
    <3>2. CASE m # n
      BY <1>6, <1>8, <2>1, <3>2
    <3>3. QED
      BY <3>1, <3>2
  <2>2. ASSUME NEW m \in Names, m # n, allocations'[m] # None
        PROVE  Extent(allocations'[m]) \cap Extent(new) = {}
    <3>1. \A c \in Extent(allocations[m]) : c < used
      BY <1>6, <1>8, <2>2
    <3>2. \A e : e = new => \A c \in Extent(e) : ~(c < used)
      BY <1>5
    <3>3. \A c \in Extent(new) : ~(c < used)
      BY <3>2
    <3>4. QED
      BY <1>6, <2>2, <3>1, <3>3
  <2>3. ASSUME NEW m \in Names, NEW p \in Names \ {m}, allocations'[m] # None, allocations'[p] # None
        PROVE  Extent(allocations'[m]) \cap Extent(allocations'[p]) = {}
    <3>1. CASE m = n
      BY <1>6, <2>2, <2>3, <3>1
    <3>2. CASE p = n
      BY <1>6, <2>2, <2>3, <3>2
    <3>3. CASE m # n /\ p # n
      BY <1>1, <1>6, <2>3, <3>3 DEF AllocationsDisjoint
    <3>4. QED
      BY <3>1, <3>2, <3>3
  <2>4. QED
    BY <2>1, <2>3 DEF AllocationsDisjoint, Extent
<1>10. ASSUME NEW m \in Names, allocations'[m] # None
       PROVE  Intact(allocations[m])'
  <2>1. CASE m = n
    <3>1. allocations'[m].offset = used /\ allocations'[m].tensor = t
      BY <1>6, <2>1
    <3>2. \A e : e = allocations'[m] => \A c \in Extent(e) : mem'[c] = [of |-> e.tensor, at |-> c - e.offset]
      BY <1>5, <3>1 DEF Intact, Extent
    <3>3. QED
      BY <3>2 DEF Intact, Extent
  <2>2. CASE m # n
    BY <1>6, <1>8, <1>10, <2>2
  <2>3. QED
    BY <2>1, <2>2
<1>11. ASSUME NEW h \in handles', h.epoch = resets'
       PROVE  Intact(h)' /\ \A c \in Extent(h) : c < used'
  <2>1. CASE h \in handles
    <3>1. Intact(h) /\ h.offset \in Cell /\ h.tensor \in Tensors /\ \A c \in Extent(h) : c < used /\ c \in Nat
      BY <1>1, <1>2, <1>11, <2>1, AllocationTypes, ExtentFacts DEF TensorsIntact, Below
    <3>2. Intact(h)'
      BY <1>1, <1>2, <3>1, KeptBelow
    <3>3. QED
      BY <1>7, <3>1, <3>2
  <2>2. CASE h = handle
    <3>1. h.offset = used /\ h.tensor = t
      BY <2>2
    <3>2. QED
      BY <1>5, <3>1
  <2>3. QED
    BY <1>2, <2>1, <2>2
<1>12. TensorsIntact'
  BY <1>9, <1>10, <1>11 DEF TensorsIntact
<1>13. Below'
  <2>1. \A h \in handles' : h.epoch <= resets'
    BY <1>1, <1>2 DEF Below
  <2>2. QED
    BY <1>11, <2>1 DEF Below, Extent
<1>14. ReaderInv'
  BY <1>1, <1>2 DEF ReaderInv
<1>15. QED
  BY <1>4, <1>12, <1>13, <1>14 DEF IInv

LEMMA AllocateFailsIInv ==
  ASSUME IInv, NEW n \in Names, NEW t \in Tensors, AllocateFails(n, t)
  PROVE  IInv'
<1>1. /\ TypeOK /\ TensorsIntact /\ AllocationsDisjoint /\ Below /\ ReaderInv /\ 0 \in Nat
      /\ mem' = Written(used, t, 0)
      /\ UNCHANGED <<allocations, used, handles, resets, reading, got>>
  BY DEF IInv, TensorsIntact, AllocateFails, reader
<1>2. TypeOK'
  BY <1>1, WrittenFacts DEF TypeOK
<1>3. ASSUME NEW m \in Names, allocations[m] # None
      PROVE  Intact(allocations[m])'
  <2>1. /\ \A c \in Extent(allocations[m]) : c < used
        /\ Intact(allocations[m])
        /\ allocations[m].offset \in Cell /\ allocations[m].tensor \in Tensors
    BY <1>1, <1>3, AllocationTypes DEF AllocationsDisjoint, TensorsIntact
  <2>2. \A e : e = allocations[m] => Intact(e)'
    BY <1>1, <2>1, KeptBelow
  <2>3. QED
    BY <1>1, <2>2 DEF Intact, Extent
<1>4. ASSUME NEW h \in handles, h.epoch = resets
      PROVE  Intact(h)'
  BY <1>1, <1>4, AllocationTypes, KeptBelow DEF Below, TensorsIntact
<1>5. AllocationsDisjoint'
  BY <1>1 DEF AllocationsDisjoint, Extent
<1>6. TensorsIntact'
  BY <1>1, <1>3, <1>4, <1>5 DEF TensorsIntact
<1>7. Below' /\ ReaderInv'
  BY <1>1 DEF Below, ReaderInv, Extent
<1>8. QED
  BY <1>2, <1>6, <1>7 DEF IInv

LEMMA FreeIInv ==
  ASSUME IInv, NEW n \in Names, Free(n)
  PROVE  IInv'
<1>1. /\ TypeOK /\ TensorsIntact /\ AllocationsDisjoint /\ Below /\ ReaderInv
      /\ allocations' = [allocations EXCEPT ![n] = None]
      /\ UNCHANGED <<mem, used, handles, resets, reading, got>>
  BY DEF IInv, TensorsIntact, Free, reader
<1>2. TypeOK'
  BY <1>1 DEF TypeOK
<1>3. \A m \in Names : allocations'[m] # None => allocations'[m] = allocations[m]
  BY <1>1 DEF TypeOK
<1>4. AllocationsDisjoint'
  BY <1>1, <1>3 DEF AllocationsDisjoint, Extent
<1>5. TensorsIntact'
  BY <1>1, <1>3, <1>4 DEF TensorsIntact, Intact, Extent
<1>6. Below' /\ ReaderInv'
  BY <1>1 DEF Below, ReaderInv, Extent
<1>7. QED
  BY <1>2, <1>5, <1>6 DEF IInv

(* After a reset nothing allocated before it counts any more: every handle  *)
(* is of an earlier epoch, the reader's too.                               *)
LEMMA ResetIInv ==
  ASSUME IInv, Reset
  PROVE  IInv'
<1>1. /\ TypeOK /\ Below /\ ReaderInv
      /\ resets < MaxResets /\ resets' = resets + 1
      /\ allocations' = [n \in Names |-> None] /\ used' = 0
      /\ UNCHANGED <<mem, handles, reading, got>>
  BY DEF IInv, Reset, reader
<1>2. TypeOK'
  <2>1. used' \in 0 .. Capacity /\ resets' \in 0 .. MaxResets
    BY <1>1, ArenaFacts DEF TypeOK
  <2>2. allocations' \in [Names -> {None} \cup [offset : Cell, tensor : Tensors]]
    BY <1>1
  <2>3. QED
    BY <1>1, <2>1, <2>2 DEF TypeOK
<1>3. \A h \in handles' : h.epoch <= resets' /\ h.epoch # resets'
  BY <1>1, AllocationTypes DEF Below
<1>4. \A n \in Names : allocations'[n] = None
  BY <1>1
<1>5. TensorsIntact' /\ Below'
  BY <1>3, <1>4 DEF TensorsIntact, AllocationsDisjoint, Below
<1>6. ReaderInv'
  BY <1>1, <1>3 DEF ReaderInv
<1>7. QED
  BY <1>2, <1>5, <1>6 DEF IInv

(* The reader changes nothing but its own state. *)
LEMMA ReaderFrame ==
  ASSUME IInv, UNCHANGED <<mem, allocations, used, handles, resets>>,
         reading' \in {None} \cup Handle, got' \in Seq({None} \cup [of : Tensors, at : Nat]),
         ReaderInv'
  PROVE  IInv'
<1>1. TypeOK'
  BY DEF IInv, TypeOK
<1>2. TensorsIntact' /\ Below'
  BY DEF IInv, TensorsIntact, AllocationsDisjoint, Below, Intact, Extent
<1>3. QED
  BY <1>1, <1>2 DEF IInv

LEMMA BeginReadIInv ==
  ASSUME IInv, NEW h \in handles, BeginRead(h)
  PROVE  IInv'
<1>1. /\ TypeOK /\ TensorsIntact /\ h \in Handle /\ h.offset \in Cell /\ h.tensor \in Tensors
      /\ reading' = h /\ got' = <<mem[h.offset]>>
      /\ UNCHANGED <<mem, allocations, used, handles, resets>>
  BY AllocationTypes DEF IInv, BeginRead, TypeOK
<1>2. mem[h.offset] \in {None} \cup [of : Tensors, at : Nat]
  BY <1>1 DEF TypeOK
<1>3. /\ got' \in Seq({None} \cup [of : Tensors, at : Nat]) /\ got' # <<>>
      /\ Len(got') = 1 /\ got'[1] = mem[h.offset]
  BY <1>1, <1>2
<1>4. h.epoch = resets => mem[h.offset] = [of |-> h.tensor, at |-> 0]
  <2>1. h.offset \in Extent(h) /\ h.offset - h.offset = 0
    BY <1>1, ArenaFacts DEF Extent
  <2>2. QED
    BY <1>1, <2>1 DEF TensorsIntact, Intact
<1>5. ReaderInv'
  <2>1. ASSUME NEW i \in 1 .. Len(got')
        PROVE  i = 1 /\ i - 1 = 0
    BY <1>3
  <2>2. QED
    BY <1>1, <1>3, <1>4, <2>1 DEF ReaderInv
<1>6. QED
  BY <1>1, <1>3, <1>5, ReaderFrame

LEMMA ReadCellIInv ==
  ASSUME IInv, ReadCell
  PROVE  IInv'
<1> DEFINE c == reading.offset + Len(got)
<1>1. /\ TypeOK /\ TensorsIntact /\ ReaderInv /\ reading # None
      /\ reading \in handles /\ reading.offset \in Cell /\ reading.tensor \in Tensors
      /\ got \in Seq({None} \cup [of : Tensors, at : Nat]) /\ Len(got) \in Nat
  BY AllocationTypes DEF IInv, ReadCell, ReaderInv, TypeOK
<1>2. /\ c < Capacity /\ got' = Append(got, mem[c])
      /\ UNCHANGED <<mem, allocations, used, handles, resets, reading>>
  BY DEF ReadCell
<1>3. c \in Cell /\ c - reading.offset = Len(got)
  BY <1>1, <1>2, ArenaFacts DEF Cell
<1>4. mem[c] \in {None} \cup [of : Tensors, at : Nat]
  BY <1>1, <1>3 DEF TypeOK
<1>5. /\ got' \in Seq({None} \cup [of : Tensors, at : Nat]) /\ got' # <<>>
      /\ Len(got') = Len(got) + 1 /\ got'[Len(got) + 1] = mem[c]
      /\ \A i \in 1 .. Len(got) : got'[i] = got[i]
  BY <1>1, <1>2, <1>4, AppendProperties
<1>6. ASSUME reading.epoch = resets, Len(got) + 1 <= 1 + Size[reading.tensor]
      PROVE  mem[c] = [of |-> reading.tensor, at |-> Len(got)]
  <2>1. c \in Extent(reading)
    BY <1>1, <1>3, <1>6, ArenaFacts DEF Extent, Cell
  <2>2. QED
    BY <1>1, <1>3, <1>6, <2>1 DEF TensorsIntact, Intact
<1>7. ReaderInv'
  <2>1. ASSUME reading.epoch = resets, NEW i \in 1 .. Len(got'), i <= 1 + Size[reading.tensor]
        PROVE  got'[i] = [of |-> reading.tensor, at |-> i - 1]
    <3>1. CASE i = Len(got) + 1
      <4>1. i - 1 = Len(got)
        BY <1>1, <3>1
      <4>2. QED
        BY <1>5, <1>6, <2>1, <3>1, <4>1
    <3>2. CASE i \in 1 .. Len(got)
      BY <1>1, <1>5, <2>1, <3>2 DEF ReaderInv
    <3>3. QED
      BY <1>1, <1>5, <3>1, <3>2
  <2>2. QED
    BY <1>1, <1>2, <1>5, <2>1 DEF ReaderInv
<1>8. QED
  BY <1>1, <1>2, <1>5, <1>7, ReaderFrame DEF TypeOK

LEMMA EndReadIInv ==
  ASSUME IInv, EndRead
  PROVE  IInv'
<1>1. /\ reading' = None /\ got' = <<>>
      /\ UNCHANGED <<mem, allocations, used, handles, resets>>
  BY DEF EndRead
<1>2. got' \in Seq({None} \cup [of : Tensors, at : Nat]) /\ ReaderInv'
  BY <1>1, EmptySeq DEF ReaderInv
<1>3. QED
  BY <1>1, <1>2, ReaderFrame

LEMMA NextIInv == IInv /\ [Next]_vars => IInv'
<1> SUFFICES ASSUME IInv, [Next]_vars PROVE IInv'
  OBVIOUS
<1>1. CASE UNCHANGED vars
  BY <1>1 DEF vars, IInv, TypeOK, TensorsIntact, AllocationsDisjoint, Intact, Extent, Below, ReaderInv
<1>2. CASE Next
  BY <1>2, AllocateIInv, AllocateFailsIInv, FreeIInv, ResetIInv, BeginReadIInv,
     ReadCellIInv, EndReadIInv DEF Next
<1>3. QED
  BY <1>1, <1>2
-----------------------------------------------------------------------------
(* What is allocated in the current epoch lies below the free offset and is *)
(* intact, and the reader's copy agrees with it so far: in every reachable  *)
(* state of an arena of any capacity and tensors of any sizes.              *)
THEOREM Invariance == Spec => []IInv
BY InitIInv, NextIInv, PTL DEF Spec

(* The offsets handed out stay in the mapping, and free_offset in it too.  *)
THEOREM TypeCorrect == Spec => []TypeOK
<1>1. IInv => TypeOK
  BY DEF IInv
<1>2. QED
  BY <1>1, Invariance, PTL

(* The cells counted for two names (total_size) never overlap, and those of *)
(* each name, and of what every handle since the last reset points at, keep *)
(* the header and data written in them, over allocations that succeed or    *)
(* fail, and free. The tail of F16 and BF16 is beyond the cells counted.    *)
THEOREM TensorsStayIntact == Spec => []TensorsIntact
<1>1. IInv => TensorsIntact
  BY DEF IInv
<1>2. QED
  BY <1>1, Invariance, PTL

LEMMA ReaderLemma == IInv => ReaderGetsTensor
<1> SUFFICES ASSUME IInv, ReadComplete, reading.epoch = resets,
                    Stored[reading.tensor] = Size[reading.tensor]
             PROVE  got = [i \in 1 .. 1 + Stored[reading.tensor] |->
                             [of |-> reading.tensor, at |-> i - 1]]
  BY DEF ReaderGetsTensor
<1>1. /\ reading # None /\ reading \in handles /\ reading.tensor \in Tensors
      /\ got \in Seq({None} \cup [of : Tensors, at : Nat]) /\ got # <<>>
      /\ Len(got) = 1 + Stored[got[1].of]
      /\ \A i \in 1 .. Len(got) : i <= 1 + Size[reading.tensor] =>
           got[i] = [of |-> reading.tensor, at |-> i - 1]
  BY AllocationTypes DEF IInv, TypeOK, ReaderInv, ReadComplete
<1>2. 1 \in 1 .. Len(got) /\ Size[reading.tensor] \in Nat /\ 1 <= 1 + Size[reading.tensor]
  BY <1>1, ArenaFacts
<1>3. got[1].of = reading.tensor
  <2>1. got[1] = [of |-> reading.tensor, at |-> 1 - 1]
    BY <1>1, <1>2
  <2>2. QED
    BY <2>1
<1>4. Len(got) = 1 + Size[reading.tensor]
  BY <1>1, <1>3
<1>5. got = [i \in 1 .. Len(got) |-> got[i]]
  BY <1>1
<1>6. \A i \in 1 .. Len(got) : got[i] = [of |-> reading.tensor, at |-> i - 1]
  BY <1>1, <1>2, <1>4
<1>7. QED
  BY <1>4, <1>5, <1>6

(* A reader of the other process that has copied all its handle announces   *)
(* before any reset has exactly the tensor, with no lock between the two    *)
(* processes, when the tensor's space was counted in full.                  *)
THEOREM ReaderGets == Spec => []ReaderGetsTensor
BY ReaderLemma, Invariance, PTL
=============================================================================
