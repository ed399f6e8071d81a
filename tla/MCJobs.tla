------------------------------- MODULE MCJobs --------------------------------
(* ServiceJobs with two services that share a database. *)
EXTENDS ServiceJobs

CONSTANTS p1, p2, w1, w2
==============================================================================
