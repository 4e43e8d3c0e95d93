----------------------------- MODULE LedgerData -----------------------------
(***************************************************************************)
(* The deliveries Threadline receives: files of rows, each row a variant   *)
(* of an entity or a row that violates the contract of its entity type.    *)
(***************************************************************************)
EXTENDS Canonicalize, Sequences

CONSTANTS
    Delivery,          \* deliveries (files) ingested by ingest_source_file
    LedgerDelivery,    \* deliveries recorded by IngestionLedgerService
    DefectiveDelivery, \* those of LedgerDelivery with batch-level issues
    Entity, Version, Hash,
    Rows,              \* Rows[b]: the rows of the file of batch b
    InvalidRow,        \* a row that parse_source_record rejects
    NoOne,             \* owner of a lock nobody holds
    MaxAttempts,       \* max_attempts of a new request (5)
    MaxTime            \* bound: last value of the clock

\* source_version is a positive PostgreSQL INTEGER.
MaxVersion == 2147483647

Batch   == Delivery \cup LedgerDelivery
Variant == [entity : Entity, version : Version, hash : Hash]

\* source_receipt rows are identified by (batch_id, row_number).
Receipt == UNION {{b} \X DOMAIN Rows[b] : b \in Batch}
RowOf(r) == Rows[r[1]][r[2]]

ASSUME StoreAssumption ==
    /\ Delivery # {}
    /\ Delivery \cap LedgerDelivery = {}
    /\ DefectiveDelivery \subseteq LedgerDelivery
    /\ Version \subseteq 1 .. MaxVersion
    /\ NoHash \notin Hash
    /\ InvalidRow \notin Variant
    /\ Rows \in [Batch -> Seq(Variant \cup {InvalidRow})]
    /\ MaxAttempts \in Nat \ {0}
    /\ MaxTime \in Nat
-----------------------------------------------------------------------------
\* The valid rows of a delivery and the entities they are about.
ReceiptsOf(b) == {b} \X DOMAIN Rows[b]
ValidReceipts(b) == {r \in ReceiptsOf(b) : RowOf(r) # InvalidRow}
Touched(b) == {RowOf(r).entity : r \in ValidReceipts(b)}

\* The variants of entity e in the valid rows of the batches B.
VariantsIn(B, e) ==
    {RowOf(r) : r \in {q \in UNION {ValidReceipts(b) : b \in B} :
                            RowOf(q).entity = e}}
=============================================================================
