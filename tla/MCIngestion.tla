---------------------------- MODULE MCIngestion -----------------------------
(***************************************************************************)
(* Three deliveries about two entities: a first version with a rejected    *)
(* row, a conflicting first version, and a correction that repeats rows    *)
(* inside the file and from an earlier file; two deliveries recorded by    *)
(* the older writer, one of them defective.  Both entities hash to the     *)
(* same advisory lock number.                                              *)
(***************************************************************************)
EXTENDS DurableIngestion, TLC

CONSTANTS d1, d2, d3, l1, l2, e1, e2, a, b

row(e, n, h) == [entity |-> e, version |-> n, hash |-> h]

MCRows ==
    [x \in {d1, d2, d3, l1, l2} |->
        CASE x = d1 -> <<row(e1, 1, a), InvalidRow>>
          [] x = d2 -> <<row(e1, 1, b), row(e2, 1, a)>>
          [] x = d3 -> <<row(e1, 2, a), row(e2, 1, a), row(e1, 2, a)>>
          [] x = l1 -> <<row(e1, 2, b)>>
          [] x = l2 -> <<row(e2, 2, b), InvalidRow>>]
MCEntityRank == [x \in {e1, e2} |-> IF x = e1 THEN 1 ELSE 2]
MCLockNumber == [x \in {e1, e2} |-> -7]

\* Ingesters are interchangeable in every property.
Interchangeable == Permutations(Ingester)
=============================================================================
