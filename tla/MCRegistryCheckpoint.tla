------------------------ MODULE MCRegistryCheckpoint ------------------------
(* RegistryCheckpoint on small instances: see the .cfg files. *)
EXTENDS RegistryCheckpoint
=============================================================================
