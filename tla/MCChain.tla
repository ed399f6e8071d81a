------------------------------- MODULE MCChain -------------------------------
(* SnapshotChain with two devices and one sync process on each, or two on the  *)
(* first.                                                                      *)
EXTENDS SnapshotChain, TLC

CONSTANTS A, B, a1, a2, b1

MCOwner == [p \in Proc |-> IF p = b1 THEN B ELSE A]

\* The devices may be exchanged, together with their processes.
MCSymmetry == {f \in Permutations({A, B, a1, b1}) :
                 f[A] \in {A, B} /\ f[a1] \in {a1, b1} /\ (f[A] = A <=> f[a1] = a1)}

\* The two processes of the first device may be exchanged.
OverlapSymmetry == Permutations({a1, a2})
==============================================================================
