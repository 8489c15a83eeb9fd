------------------------- MODULE MCLocalCollectives -------------------------
(* Ranks are not a symmetric set: the roots of broadcasts are numbers.      *)
EXTENDS LocalCollectives
=============================================================================
