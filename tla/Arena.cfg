\* Eight cells: two or three tensors fit, the last one perhaps only by its
\* total_size; one reset; two names, so that one can be freed or reused while
\* the other is read.
CONSTANTS
  Names = {a, b}
  F32 = F32
  F16 = F16
  Tensors <- MCTensors
  Size <- MCSize
  Stored <- MCStored
  Capacity = 8
  MaxResets = 1
  None = None
SPECIFICATION Spec
INVARIANTS
  TypeOK
  TensorsIntact
  ReaderGetsTensor
\* A full arena whose resets are used up may have nothing left to do.
CHECK_DEADLOCK FALSE
