-------------------------- MODULE DurableIngestion --------------------------
(***************************************************************************)
(* ingest_source_file of durable_ingestion.py: concurrent ingesters, each  *)
(* running one transaction per verified delivery, and record_delivery of   *)
(* ingestion/service.py, the older writer of the same tables.              *)
(***************************************************************************)
EXTENDS LedgerStore

CONSTANTS
    Ingester,
    EntityRank,    \* entity_sort_key: (type rank, source_id) as a number
    LockNumber     \* _entity_lock_number: may map two entities to one number

ASSUME IngestionAssumption ==
    /\ EntityRank \in [Entity -> Nat]
    /\ \A e, f \in Entity : EntityRank[e] = EntityRank[f] => e = f
    /\ LockNumber \in [Entity -> Int]
    /\ NoOne \notin Ingester

VARIABLES
    pc,          \* where each ingester is
    job,         \* the delivery it works on
    asOf,        \* as_of_utc of its call
    toLock,      \* entity keys acquire_entity_locks has still to lock
    entityLock,  \* holders of the entity advisory locks (namespace 740033)
    staged       \* its transaction's uncommitted writes

ingestVars == <<pc, job, asOf, toLock, entityLock, staged>>

LockNumbers == {LockNumber[e] : e \in Entity}

NoWrites ==
    [variants |-> {}, resolution |-> [e \in Entity |-> NoResolution],
     disposition |-> [r \in Receipt |-> "NONE"]]

IngestTypeOK ==
    /\ batch \in [Batch -> BatchStatus]
    /\ receivedAt \in [Batch -> Nat]
    /\ disposition \in [Receipt -> Disposition]
    /\ recordVersion \subseteq [variant : Variant, first : Receipt]
    /\ resolution \in [Entity -> Resolution]
    /\ request \in [Delivery -> Request]
    /\ now \in Nat
    /\ pc \in [Ingester -> {"idle", "lockFinancial", "lockEntities", "find",
                            "insert", "resolve", "commit"}]
    /\ job \in [Ingester -> Delivery]
    /\ asOf \in [Ingester -> Nat]
    /\ toLock \in [Ingester -> SUBSET Entity]
    /\ entityLock \in [LockNumbers -> Ingester \cup {NoOne}]
    /\ staged \in [Ingester -> [variants : SUBSET Variant,
                                resolution : [Entity -> Resolution],
                                disposition : [Receipt -> Disposition]]]

IngestInit ==
    /\ pc = [w \in Ingester |-> "idle"]
    /\ job = [w \in Ingester |-> CHOOSE d \in Delivery : TRUE]
    /\ asOf = [w \in Ingester |-> 0]
    /\ toLock = [w \in Ingester |-> {}]
    /\ entityLock = [n \in LockNumbers |-> NoOne]
    /\ staged = [w \in Ingester |-> NoWrites]
-----------------------------------------------------------------------------
(* Locks *)

\* The end of w's transaction, committed or rolled back: PostgreSQL releases
\* its transaction-level locks and forgets its uncommitted rows.
EndTransaction(w) ==
    /\ pc' = [pc EXCEPT ![w] = "idle"]
    /\ financialLock' = IF financialLock = w THEN NoOne ELSE financialLock
    /\ entityLock' = [n \in LockNumbers |->
                        IF entityLock[n] = w THEN NoOne ELSE entityLock[n]]
    /\ toLock' = [toLock EXCEPT ![w] = {}]
    /\ staged' = [staged EXCEPT ![w] = NoWrites]
    /\ UNCHANGED <<job, asOf>>

\* verify_delivery succeeded outside any transaction; the caller passes the
\* current time as as_of_utc, and the transaction begins.
StartIngestion(w, d) ==
    /\ pc[w] = "idle"
    /\ pc' = [pc EXCEPT ![w] = "lockFinancial"]
    /\ job' = [job EXCEPT ![w] = d]
    /\ asOf' = [asOf EXCEPT ![w] = now]
    /\ UNCHANGED <<storeVars, toLock, entityLock, staged>>

\* lock_financial_state, then the key set acquire_entity_locks will lock.
LockFinancialState(w) ==
    /\ pc[w] = "lockFinancial"
    /\ FinancialLockIsFree
    /\ financialLock' = w
    /\ pc' = [pc EXCEPT ![w] = "lockEntities"]
    /\ toLock' = [toLock EXCEPT ![w] = Touched(job[w])]
    /\ UNCHANGED <<batch, receivedAt, disposition, recordVersion, resolution,
                   request, now, job, asOf, entityLock, staged>>

\* ordered_entity_keys: the least key not locked yet comes next.
NextKey(keys) ==
    CHOOSE e \in keys : \A f \in keys : EntityRank[e] <= EntityRank[f]

\* One pg_advisory_xact_lock call; a session may lock one number twice.
AcquireEntityLock(w) ==
    /\ pc[w] = "lockEntities"
    /\ toLock[w] # {}
    /\ LET e == NextKey(toLock[w]) IN
        /\ entityLock[LockNumber[e]] \in {NoOne, w}
        /\ entityLock' = [entityLock EXCEPT ![LockNumber[e]] = w]
        /\ toLock' = [toLock EXCEPT ![w] = @ \ {e}]
    /\ UNCHANGED <<storeVars, pc, job, asOf, staged>>

EntityLocksHeld(w) ==
    /\ pc[w] = "lockEntities"
    /\ toLock[w] = {}
    /\ pc' = [pc EXCEPT ![w] = "find"]
    /\ UNCHANGED <<storeVars, job, asOf, toLock, entityLock, staged>>
-----------------------------------------------------------------------------
(* The transaction *)

\* The two RuntimeErrors of the look-up of an existing delivery.
ExistingIsBroken(d) ==
    batch[d] # "NONE" /\ (batch[d] # "COMMITTED" \/ request[d].status = "NONE")

\* The delivery is known: return its batch and request, write nothing.
ReuseExistingBatch(w) ==
    /\ pc[w] = "find"
    /\ batch[job[w]] # "NONE"
    /\ ~ExistingIsBroken(job[w])
    /\ EndTransaction(w)
    /\ UNCHANGED <<batch, receivedAt, disposition, recordVersion, resolution,
                   request, now>>

NoExistingBatch(w) ==
    /\ pc[w] = "find"
    /\ batch[job[w]] = "NONE"
    /\ pc' = [pc EXCEPT ![w] = "insert"]
    /\ UNCHANGED <<storeVars, job, asOf, toLock, entityLock, staged>>

KnownVariants == {row.variant : row \in recordVersion}

DeliveredVariants(d) == {RowOf(r) : r \in ValidReceipts(d)}

\* Mutant: the history insert lacks its ON CONFLICT DO NOTHING.
AllVariants(d) == DeliveredVariants(d)

\* The variants that no row of source_record_version holds yet.
NewVariants(d) == DeliveredVariants(d) \ KnownVariants

\* Insert the batch, its evidence, its receipts and its new variants.
InsertRows(w) ==
    /\ pc[w] = "insert"
    /\ pc' = [pc EXCEPT ![w] = "resolve"]
    /\ staged' = [staged EXCEPT
         ![w].variants = NewVariants(job[w]),
         ![w].disposition =
            [r \in Receipt |->
                IF r \notin ReceiptsOf(job[w]) THEN "NONE"
                ELSE IF RowOf(r) = InvalidRow THEN "QUARANTINED"
                ELSE "PENDING"]]
    /\ UNCHANGED <<storeVars, job, asOf, toLock, entityLock>>

\* The history row of a variant that delivery d introduces: its first row wins.
FirstRow(d, v) ==
    [variant |-> v,
     first |-> CHOOSE r \in ValidReceipts(d) :
                  /\ RowOf(r) = v
                  /\ \A q \in ValidReceipts(d) : RowOf(q) = v => r[2] <= q[2]]

\* What a statement of w's transaction sees in source_record_version.
VisibleRows(w) ==
    recordVersion \cup {FirstRow(job[w], v) : v \in staged[w].variants}

\* _resolve_entity on the rows of one entity: the entity_resolution row ...
HighestVersion(V) ==
    CHOOSE n \in {v.version : v \in V} : \A v \in V : v.version <= n

\* Mutant: the hashes are not restricted to the winning version.
ResolveEntityAcrossVersions(V) ==
    LET clash == \E u, v \in V : u.hash # v.hash
    IN  [state   |-> IF clash THEN "CONFLICTED" ELSE "ACCEPTED",
         version |-> HighestVersion(V),
         hash    |-> IF clash THEN NoHash
                     ELSE CHOOSE h \in {v.hash : v \in V} : TRUE]

ResolveEntity(V) ==
    LET top    == HighestVersion(V)
        hashes == {v.hash : v \in {u \in V : u.version = top}}
        clash  == \E g, h \in hashes : g # h
    IN  [state   |-> IF clash THEN "CONFLICTED" ELSE "ACCEPTED",
         version |-> top,
         hash    |-> IF clash THEN NoHash ELSE CHOOSE h \in hashes : TRUE]

\* ... and the disposition of a receipt of that entity; of the receipts that
\* share a variant, the one first_seen_receipt_id names ranks first.
Reclassify(res, v, isFirst) ==
    IF v.version < res.version THEN "STALE"
    ELSE IF res.state = "CONFLICTED" THEN "CONFLICTED"
    ELSE IF isFirst THEN "ACCEPTED" ELSE "DUPLICATE"

\* Mutant: only the receipts of the delivery being ingested.
RankedReceiptsOfJob(w, e) ==
    {r \in ValidReceipts(job[w]) : RowOf(r).entity = e}

\* The receipts the reclassification covers: those with a history row in
\* batches COMMITTED or, like the transaction's own, PROCESSING.
RankedReceipts(w, e) ==
    {r \in UNION {ValidReceipts(d) : d \in Committed \cup {job[w]}} :
        RowOf(r).entity = e}

\* _resolve_entity for every touched entity.
ResolveTouched(w) ==
    /\ pc[w] = "resolve"
    /\ pc' = [pc EXCEPT ![w] = "commit"]
    /\ LET rows == VisibleRows(w)
           res(e) == ResolveEntity({v \in {x.variant : x \in rows} :
                                        v.entity = e})
       IN staged' = [staged EXCEPT
            ![w].resolution =
               [e \in Entity |->
                   IF e \in Touched(job[w]) THEN res(e) ELSE NoResolution],
            ![w].disposition =
               [r \in Receipt |->
                   IF \E e \in Touched(job[w]) : r \in RankedReceipts(w, e)
                   THEN Reclassify(res(RowOf(r).entity), RowOf(r),
                            [variant |-> RowOf(r), first |-> r] \in rows)
                   ELSE staged[w].disposition[r]]]
    /\ UNCHANGED <<storeVars, job, asOf, toLock, entityLock>>

\* Mutant: no request when no entity_resolution row changes.
ScheduledIfChanged(w) ==
    IF \A e \in Touched(job[w]) : staged[w].resolution[e] = resolution[e]
    THEN NoRequest ELSE NewRequest(asOf[w])

\* The recovery_request row of the delivery, whatever it changes.
ScheduledRequest(w) == NewRequest(asOf[w])

\* Mark the batch COMMITTED, insert the recovery request, commit.
CommitIngestion(w) ==
    /\ pc[w] = "commit"
    /\ LET d == job[w] IN
        /\ batch' = [batch EXCEPT ![d] = "COMMITTED"]
        /\ receivedAt' = [receivedAt EXCEPT ![d] = asOf[w]]
        /\ recordVersion' = VisibleRows(w)
        /\ resolution' = [e \in Entity |->
             IF e \in Touched(d) THEN staged[w].resolution[e]
             ELSE resolution[e]]
        /\ disposition' = [r \in Receipt |->
             IF staged[w].disposition[r] # "NONE"
             THEN staged[w].disposition[r] ELSE disposition[r]]
        /\ request' = [request EXCEPT ![d] = ScheduledRequest(w)]
    /\ EndTransaction(w)
    /\ UNCHANGED now

\* An exception or a lost process before the commit: everything rolls back.
\* After the commit a lost acknowledgement changes nothing; the retry is a
\* new StartIngestion of the same delivery.
AbortIngestion(w) ==
    /\ pc[w] # "idle"
    /\ EndTransaction(w)
    /\ UNCHANGED <<batch, receivedAt, disposition, recordVersion, resolution,
                   request, now>>
-----------------------------------------------------------------------------
(* IngestionLedgerService.record_delivery: one transaction that takes none  *)
(* of the locks; a replay of a recorded delivery changes nothing.           *)
RecordDelivery(b) ==
    /\ batch[b] = "NONE"
    /\ batch' = [batch EXCEPT
         ![b] = IF b \in DefectiveDelivery THEN "FAILED" ELSE "PROCESSING"]
    /\ receivedAt' = [receivedAt EXCEPT ![b] = now]
    /\ disposition' = [r \in Receipt |->
         IF r \notin ReceiptsOf(b) THEN disposition[r]
         ELSE IF RowOf(r) = InvalidRow \/ b \in DefectiveDelivery
         THEN "QUARANTINED" ELSE "PENDING"]
    /\ UNCHANGED <<recordVersion, resolution, request, financialLock, now,
                   ingestVars>>

IngesterStep(w) ==
    \/ \E d \in Delivery : StartIngestion(w, d)
    \/ LockFinancialState(w)
    \/ AcquireEntityLock(w)
    \/ EntityLocksHeld(w)
    \/ ReuseExistingBatch(w)
    \/ NoExistingBatch(w)
    \/ InsertRows(w)
    \/ ResolveTouched(w)
    \/ CommitIngestion(w)
    \/ AbortIngestion(w)

IngestNext ==
    \/ \E w \in Ingester : IngesterStep(w)
    \/ \E b \in LedgerDelivery : RecordDelivery(b)
    \/ Tick /\ UNCHANGED ingestVars

LedgerInit == StoreInit /\ IngestInit

IngestSpec == LedgerInit /\ [][IngestNext]_<<storeVars, ingestVars>>
-----------------------------------------------------------------------------
(* Properties *)

\* Whatever the order and the overlap of the ingestion transactions, the
\* entity_resolution row that _resolve_entity left for an entity is the one
\* canonicalize derives from all receipts of the committed batches.
ResolutionMatchesCanonical ==
    \A e \in Entity : LET V == VariantsIn(Committed, e) IN
        IF V = {} THEN resolution[e] = NoResolution
        ELSE resolution[e] =
               [state   |-> IF IsConflicted(V) THEN "CONFLICTED"
                            ELSE "ACCEPTED",
                version |-> WinningVersion(V),
                hash    |-> CanonicalHash(V)]

\* Evidence conservation across later arrivals: every receipt of a committed
\* delivery, however old, carries the disposition canonicalize assigns to it
\* now, and of the receipts repeating an accepted payload exactly one is
\* ACCEPTED; a receipt of no committed delivery has no row.
DispositionsMatchCanonical ==
    /\ \A d \in Committed : \A r \in ReceiptsOf(d) :
         IF RowOf(r) = InvalidRow THEN disposition[r] = "QUARANTINED"
         ELSE disposition[r] \in
                {EvidenceDisposition(VariantsIn(Committed, RowOf(r).entity),
                                     RowOf(r), b) : b \in BOOLEAN}
    /\ \A e \in Entity : resolution[e].state = "ACCEPTED" =>
         \E r \in UNION {ValidReceipts(d) : d \in Committed} :
            /\ RowOf(r).entity = e
            /\ RowOf(r).hash = resolution[e].hash
            /\ \A q \in UNION {ValidReceipts(d) : d \in Committed} :
                 RowOf(q).entity = e =>
                    (disposition[q] = "ACCEPTED" <=> q = r)
    /\ \A d \in Delivery \ Committed : \A r \in ReceiptsOf(d) :
         disposition[r] = "NONE"

\* A delivery is committed exactly when its recovery request exists: neither
\* RuntimeError of the existing-delivery look-up can be raised, however
\* often a delivery is retried after a crash or a lost acknowledgement.
RetryFindsWholeDelivery ==
    \A d \in Delivery :
        /\ ~ExistingIsBroken(d)
        /\ batch[d] = "NONE" => request[d].status = "NONE"

\* "History is never changed": a committed batch stays committed, keeps its
\* receipt time, and a row of source_record_version keeps the receipt that
\* introduced it, whatever is delivered or retried later.
HistoryIsImmutable ==
    [][ /\ recordVersion \subseteq recordVersion'
        /\ \A x, y \in recordVersion' : x.variant = y.variant => x = y
        /\ \A d \in Committed :
              batch'[d] = "COMMITTED" /\ receivedAt'[d] = receivedAt[d]
      ]_<<storeVars, ingestVars>>

=============================================================================
