----------------------------- MODULE MCDualPipe -----------------------------
(* DualPipe on small instances: see the .cfg files. *)
EXTENDS DualPipe
=============================================================================
