---------------------------- MODULE MCElasticWorkers ----------------------------
(* A few workers, one more than the pool takes: see ElasticWorkers.cfg. *)
EXTENDS ElasticWorkers

CONSTANTS w1, w2
=============================================================================
