----------------------------- MODULE MCArchival -----------------------------
(* Batches with the same content and report share one archive object.      *)
EXTENDS Archival, TLC

CONSTANTS b1, b2, o1, x1

OneObject == [b \in Batch |-> o1]
OneChecksum == [o \in Object |-> x1]

Interchangeable == Permutations(Worker) \cup Permutations(Batch)
=============================================================================
