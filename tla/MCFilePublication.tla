------------------------- MODULE MCFilePublication --------------------------
(* Two threads share a store instance; another process has its own.        *)
EXTENDS FilePublication, TLC

CONSTANTS p1, p2, p3, s1, s2

MCStoreOf == [p \in Publisher |-> IF p = p3 THEN s2 ELSE s1]

Interchangeable == Permutations({p1, p2}) \cup Permutations(Publishable)
=============================================================================
