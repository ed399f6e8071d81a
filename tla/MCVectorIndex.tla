---------------------------- MODULE MCVectorIndex ----------------------------
(* VectorIndex with two processes and two memories. *)
EXTENDS VectorIndex

CONSTANTS p1, p2
==============================================================================
