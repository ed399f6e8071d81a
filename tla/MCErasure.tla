------------------------------ MODULE MCErasure ------------------------------
(* SyncErasure on two devices: m1 is captured by device 1, m2 by device 2, and *)
(* c1, c2 are the ids of their conflict successors.                            *)
EXTENDS SyncErasure

CONSTANTS m1, m2, c1, c2

MCSuccessor == [m \in Memory |-> IF m = m1 THEN c1 ELSE c2]
MCOrigin == [m \in Memory |-> IF m = m1 THEN 1 ELSE 2]
FirstUnreviewed == [m \in Memory |-> IF m = m1 THEN "unreviewed" ELSE "approved"]
AllTrusted == [d \in Device |-> Device]
\* Device 2 is trusted by all, the others only by themselves.
SecondTrusted == [d \in Device |-> {d, 2}]

Quiet == [d \in Device |-> {}]
\* Both operators edit; the rounds of device 1 die and its operator erases
\* at any time.
Busy == [d \in Device |-> IF d = 1 THEN FeatureKind ELSE {"conflict"}]
==============================================================================
