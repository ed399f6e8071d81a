----------------------------- MODULE MCEmbedding -----------------------------
(* EmbeddingSpace with a degraded embedder in p2 and the same semantic one in  *)
(* the other processes.                                                        *)
EXTENDS EmbeddingSpace

CONSTANTS p1, p2, p3, A, B

MCSpaceOf == [p \in Process |-> IF p = p2 THEN B ELSE A]
==============================================================================
