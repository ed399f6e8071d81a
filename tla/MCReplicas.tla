------------------------------ MODULE MCReplicas ------------------------------
(* MemoryReplicas on small instances: payloads are numbers, all captured at    *)
(* time 0 and valid from 0; the payload hash orders them by their number.      *)
EXTENDS MemoryReplicas

MCLabels == {1, 2}
MCHash(l) == l
MCZero(l) == 0

NoSkew == [d \in Device |-> 0]
\* Device 1 is two ticks ahead of the others.
FirstAhead == [d \in Device |-> IF d = 1 THEN 2 ELSE 0]
===============================================================================
