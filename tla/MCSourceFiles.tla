--------------------------- MODULE MCSourceFiles ----------------------------
(* One delivery filename, four producers and a reader of each kind. All    *)
(* accept p1; verify_delivery rejects the source system of p2, both gates  *)
(* the schema version of p3, and publish_source_file the entity of p4.     *)
EXTENDS SourceFiles, TLC

CONSTANTS p1, p2, p3, p4, r1, r2

Payments ==
    [report_type |-> "PAYMENTS", entity_type |-> "PAYMENT",
     source_system |-> "mockpay", schema_version |-> "1"]

MCDeclared ==
    p1 :> Payments
    @@ p2 :> [Payments EXCEPT !.source_system = "PAYMENT_PROVIDER"]
    @@ p3 :> [Payments EXCEPT !.schema_version = "2"]
    @@ p4 :> [Payments EXCEPT !.entity_type = "ORDER"]
=============================================================================
