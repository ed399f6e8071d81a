----------------------------- MODULE MCCommands ------------------------------
(* MemoryCommands with symmetric clients, requests and workspaces. *)
EXTENDS MemoryCommands, TLC

CONSTANTS c1, c2, r1, r2, w1, w2, o1

MCInitialTrust ==
  {<<"approved", "approved">>, <<"approved", "pending">>, <<"pending", "held">>}

Symmetry ==
  Permutations({c1, c2}) \cup Permutations({r1, r2}) \cup Permutations({w1, w2})
==============================================================================
