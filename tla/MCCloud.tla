------------------------------- MODULE MCCloud -------------------------------
(* CloudSession with two workers. *)
EXTENDS CloudSession

CONSTANTS w1, w2
==============================================================================
