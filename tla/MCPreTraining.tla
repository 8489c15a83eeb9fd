----------------------------- MODULE MCPreTraining -----------------------------
(* A job of a few steps, started a few times: see PreTraining.cfg. *)
EXTENDS PreTraining
=============================================================================
