-------------------------- MODULE SharedMemoryArena --------------------------
(***************************************************************************)
(* src/rust-src/src/pyo3_bindings/shared_memory.rs: the process that        *)
(* created an arena allocates tensors in a file mapped into memory; another *)
(* process has attached to the file and reads tensors by the handles it was *)
(* sent. Threads of the creating process exclude each other with the        *)
(* RwLock of the arena, so its operations are atomic; the lock is not in    *)
(* the file, so the other process reads while they go on.                   *)
(*                                                                         *)
(* The file is cut into cells. A tensor takes one cell for its TensorHeader *)
(* and Size[t] for its data; Stored[t] cells of data are written and read.  *)
(* They are the same except for F16 and BF16, stored as F32. Shapes have at *)
(* most the eight dimensions a header has room for.                         *)
(***************************************************************************)
EXTENDS Integers, Sequences

CONSTANTS
  Names,     \* names of allocations
  Tensors,   \* tensors the program allocates
  Size,      \* Size[t]: data cells counted in total_size
  Stored,    \* Stored[t]: data cells written by the match on the dtype
  Capacity,  \* size_bytes of the arena, in cells
  MaxResets, \* bound: calls of reset
  None       \* no allocation, an empty cell, no handle

ASSUME ArenaAssumption ==
  /\ Capacity \in Nat
  /\ MaxResets \in Nat
  /\ Size \in [Tensors -> Nat]
  /\ Stored \in [Tensors -> Nat]
  /\ \A t \in Tensors : Size[t] <= Stored[t]

Cell == 0 .. Capacity - 1
Total(t) == 1 + Size[t]
Handle == [offset : Cell, tensor : Tensors, epoch : 0 .. MaxResets]

VARIABLES
  mem,         \* mem[c]: the tensor whose bytes are in cell c, and which of them
  allocations, \* allocations[n]: offset and tensor allocated under name n
  used,        \* free_offset
  handles,     \* SharedTensorHandles returned, with the resets that preceded
  resets,      \* calls of reset so far
  reading,     \* the handle the other process is reading, or None
  got          \* the cells it has copied: header first, then data

vars == <<mem, allocations, used, handles, resets, reading, got>>
reader == <<reading, got>>

Init ==
  /\ mem = [c \in Cell |-> None]
  /\ allocations = [n \in Names |-> None]
  /\ used = 0
  /\ handles = {}
  /\ resets = 0
  /\ reading = None
  /\ got = <<>>
-----------------------------------------------------------------------------
(* Cells `first` to `first + k` hold the header and k data cells of t. *)
Written(first, t, k) ==
  [c \in Cell |-> IF c \in first .. first + k
                  THEN [of |-> t, at |-> c - first] ELSE mem[c]]

(* Mutations of NextFree: the header is not counted; all is counted twice. *)
NextFreeNoHeader(t) == used + Size[t]
NextFreeTwice(t) == used + 2 * Total(t)

(* free_offset after an allocation *)
NextFree(t) == used + Total(t)

(* allocate_tensor_named, and allocate_tensor with a generated name. An      *)
(* earlier allocation of that name is forgotten. When the final flush fails  *)
(* the caller gets the error and no handle, but the tensor is allocated.     *)
Allocate(n, t) ==
  /\ Total(t) <= Capacity - used
  /\ used + 1 + Stored[t] <= Capacity
  /\ mem' = Written(used, t, Stored[t])
  /\ allocations' = [allocations EXCEPT ![n] = [offset |-> used, tensor |-> t]]
  /\ used' = NextFree(t)
  /\ \/ handles' = handles \cup {[offset |-> used, tensor |-> t, epoch |-> resets]}
     \/ UNCHANGED handles
  /\ UNCHANGED <<resets, reader>>

(* Mutation of AllocateFails: the header is written over the last allocation. *)
AllocateFailsBehind(n, t) ==
  /\ Total(t) <= Capacity - used
  /\ used > 0
  /\ mem' = Written(used - 1, t, 0)
  /\ UNCHANGED <<allocations, used, handles, resets, reader>>

(* The header is written, and then to_dtype or to_vec1 returns an error, or  *)
(* the copy of the data panics on the bounds of the mapping, there being     *)
(* room for total_size but not for what is stored.                           *)
AllocateFails(n, t) ==
  /\ Total(t) <= Capacity - used
  /\ mem' = Written(used, t, 0)
  /\ UNCHANGED <<allocations, used, handles, resets, reader>>

(* Mutation of Free: the space is taken back. *)
FreeReclaims(n) ==
  /\ allocations[n] # None
  /\ used' = used - Total(allocations[n].tensor)
  /\ allocations' = [allocations EXCEPT ![n] = None]
  /\ UNCHANGED <<mem, handles, resets, reader>>

(* free_allocation: the name is forgotten, its space is not taken back. *)
Free(n) ==
  /\ allocations[n] # None
  /\ allocations' = [allocations EXCEPT ![n] = None]
  /\ UNCHANGED <<mem, used, handles, resets, reader>>

(* Mutation of Reset: the names are kept. *)
ResetKeepsNames ==
  /\ resets < MaxResets
  /\ resets' = resets + 1
  /\ used' = 0
  /\ UNCHANGED <<mem, allocations, handles, reader>>

(* reset: the space is free again; what is in it stays until overwritten. *)
Reset ==
  /\ resets < MaxResets
  /\ resets' = resets + 1
  /\ allocations' = [n \in Names |-> None]
  /\ used' = 0
  /\ UNCHANGED <<mem, handles, reader>>

(* The other process: read_tensor(handle) copies the header ... *)
BeginRead(h) ==
  /\ reading = None
  /\ reading' = h
  /\ got' = <<mem[h.offset]>>
  /\ UNCHANGED <<mem, allocations, used, handles, resets>>

(* A header of a tensor is at that cell: validate succeeds. *)
ValidHeader == got[1] # None /\ got[1].at = 0

(* All that the header announces has been copied. *)
ReadComplete == reading # None /\ ValidHeader /\ Len(got) = 1 + Stored[got[1].of]

(* ... then the data cells the header announces ... *)
ReadCell ==
  /\ reading # None
  /\ ValidHeader /\ ~ReadComplete
  /\ reading.offset + Len(got) < Capacity
  /\ got' = Append(got, mem[reading.offset + Len(got)])
  /\ UNCHANGED <<mem, allocations, used, handles, resets, reading>>

(* ... and returns the tensor or an error, or panics at the end of the file. *)
EndRead ==
  /\ reading # None
  /\ ReadComplete \/ ~ValidHeader \/ reading.offset + Len(got) >= Capacity
  /\ reading' = None
  /\ got' = <<>>
  /\ UNCHANGED <<mem, allocations, used, handles, resets>>

Next ==
  \/ \E n \in Names, t \in Tensors : Allocate(n, t) \/ AllocateFails(n, t)
  \/ \E n \in Names : Free(n)
  \/ Reset
  \/ \E h \in handles : BeginRead(h)
  \/ ReadCell
  \/ EndRead

Spec == Init /\ [][Next]_vars
-----------------------------------------------------------------------------
TypeOK ==
  /\ mem \in [Cell -> {None} \cup [of : Tensors, at : Nat]]
  /\ allocations \in [Names -> {None} \cup [offset : Cell, tensor : Tensors]]
  /\ used \in 0 .. Capacity
  /\ handles \in SUBSET Handle
  /\ resets \in 0 .. MaxResets
  /\ reading \in {None} \cup Handle
  /\ got \in Seq({None} \cup [of : Tensors, at : Nat])

(* The cells an allocation was counted for. *)
Extent(a) == a.offset .. a.offset + Size[a.tensor]

(* The extent at offset a.offset holds the header and data of a.tensor. *)
Intact(a) == \A c \in Extent(a) : mem[c] = [of |-> a.tensor, at |-> c - a.offset]

(* The extents of two names have no cell in common, nor with the free cells. *)
AllocationsDisjoint ==
  \A n \in Names : allocations[n] # None =>
    /\ \A c \in Extent(allocations[n]) : c < used
    /\ \A m \in Names \ {n} : allocations[m] # None =>
         Extent(allocations[n]) \cap Extent(allocations[m]) = {}

(* get(name) finds the header and the bytes counted for the tensor allocated *)
(* under the name, which no other name shares, and a handle those of its     *)
(* tensor until the next reset, whatever else is allocated, fails or is      *)
(* freed: free takes no space back, so a handle outlives its name. (For F16  *)
(* and BF16, get reads on, beyond the extent.)                               *)
TensorsIntact ==
  /\ AllocationsDisjoint
  /\ \A n \in Names : allocations[n] # None => Intact(allocations[n])
  /\ \A h \in handles : h.epoch = resets => Intact(h)

(* What the other process reads by a handle, without any lock in common, is  *)
(* the tensor of the handle, if no reset came before the read ended and the  *)
(* tensor is stored in its own dtype.                                        *)
ReaderGetsTensor ==
  (ReadComplete /\ reading.epoch = resets /\ Stored[reading.tensor] = Size[reading.tensor])
    => got = [i \in 1 .. 1 + Stored[reading.tensor] |-> [of |-> reading.tensor, at |-> i - 1]]
=============================================================================
