---------------------------- MODULE ReplayEngine ----------------------------
(***************************************************************************)
(* What Threadline promises its readers, without locks, transactions,      *)
(* queues or retries: deliveries are accepted one at a time and never      *)
(* withdrawn; publication replaces the published view, in one step, by the *)
(* canonical view of EVERYTHING accepted so far; nothing else changes it.  *)
(***************************************************************************)
EXTENDS LedgerData

VARIABLES accepted, view

\* The canonical payload of each entity given the accepted deliveries.
CanonicalView(B) == [e \in Entity |-> CanonicalHash(VariantsIn(B, e))]

EngineInit ==
    /\ accepted = {}
    /\ view = CanonicalView({})

Accept(d) ==
    /\ d \notin accepted
    /\ accepted' = accepted \cup {d}
    /\ view' = view

Publish ==
    /\ view' = CanonicalView(accepted)
    /\ accepted' = accepted

EngineNext == (\E d \in Delivery : Accept(d)) \/ Publish

EngineSpec == EngineInit /\ [][EngineNext]_<<accepted, view>>
=============================================================================
