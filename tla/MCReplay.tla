------------------------------ MODULE MCReplay ------------------------------
(***************************************************************************)
(* Instances of ReplaySystem: d1 and d2 disagree about version 1 of e1 and *)
(* d2 has a rejected row; d3 is an empty report; l1 and l2 are recorded by *)
(* the older writer, l2 with batch-level issues.                           *)
(***************************************************************************)
EXTENDS ReplaySystem, TLC

CONSTANTS d1, d2, d3, l1, l2, e1, a, b

row(e, n, h) == [entity |-> e, version |-> n, hash |-> h]

MCRows ==
    [x \in Batch |->
        CASE x = d1 -> <<row(e1, 1, a)>>
          [] x = d2 -> <<InvalidRow, row(e1, 1, b)>>
          [] x = d3 -> <<>>
          [] x = l1 -> <<row(e1, 2, b)>>
          [] x = l2 -> <<row(e1, 2, a)>>]
MCEntityRank == [x \in Entity |-> 1]
MCLockNumber == [x \in Entity |-> 5]

\* Recovery workers are interchangeable in every safety property.
Interchangeable == Permutations(Recoverer)
=============================================================================
