------------------------- MODULE MCSharedMemoryArena -------------------------
(* A full-width tensor of two cells, and a half-precision tensor of one cell *)
(* that is stored in two.                                                    *)
EXTENDS SharedMemoryArena

CONSTANTS F32, F16

MCTensors == {F32, F16}
MCSize == [t \in MCTensors |-> IF t = F32 THEN 2 ELSE 1]
MCStored == [t \in MCTensors |-> 2]
=============================================================================
