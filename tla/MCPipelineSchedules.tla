------------------------- MODULE MCPipelineSchedules -------------------------
(* The schedulers on small instances: see the .cfg files. *)
EXTENDS PipelineSchedules
=============================================================================
