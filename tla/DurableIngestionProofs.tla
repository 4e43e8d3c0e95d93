----------------------- MODULE DurableIngestionProofs -----------------------
(***************************************************************************)
(* Proofs about DurableIngestion, for any deliveries, rows and ingesters.  *)
(***************************************************************************)
EXTENDS DurableIngestion, FiniteSetTheorems, TLAPS

\* A nonempty set of natural numbers has a least element: the row that
\* introduced a variant is well defined.
LEMMA MinExists ==
    ASSUME NEW S \in SUBSET Nat, S # {}
    PROVE  \E n \in S : \A k \in S : n <= k
<1>. DEFINE T == {0 .. n : n \in S}
            R == StrictSubsetOrdering(Nat)
<1>1. T \subseteq FiniteSubsetsOf(Nat)
  <2>1. ASSUME NEW n \in S  PROVE 0 .. n \in FiniteSubsetsOf(Nat)
    <3>1. IsFiniteSet(0 .. n)
      BY FS_Interval
    <3>. QED  BY <3>1 DEF FiniteSubsetsOf
  <2>. QED  BY <2>1
<1>2. IsWellFoundedOn(R, FiniteSubsetsOf(Nat))
  BY FS_StrictSubsetOrderingWellFounded
<1>3. PICK I \in T : \A J \in T : ~ (<<J, I>> \in R)
  <2>1. T # {}
    OBVIOUS
  <2>. HIDE DEF T, R
  <2>. QED  BY <1>1, <1>2, <2>1, WFMin
<1>4. PICK n \in S : I = 0 .. n
  BY <1>3
<1>5. ASSUME NEW k \in S, ~ (n <= k)  PROVE FALSE
  <2>1. 0 .. k \subseteq 0 .. n /\ 0 .. k # 0 .. n
    BY <1>5
  <2>2. <<0 .. k, 0 .. n>> \in R
    BY <2>1 DEF StrictSubsetOrdering
  <2>. QED  BY <2>2, <1>3, <1>4, <1>5
<1>. QED  BY <1>5

\* A nonempty set of source versions has a greatest element.
LEMMA MaxExists ==
    ASSUME NEW m \in Nat, NEW S \in SUBSET (1 .. m), S # {}
    PROVE  \E n \in S : \A k \in S : k <= n
<1>. DEFINE D == {m - k : k \in S}
<1>1. D \in SUBSET Nat /\ D # {}
  <2>1. ASSUME NEW k \in S  PROVE m - k \in Nat
    <3>1. k \in 1 .. m
      OBVIOUS
    <3>. QED  BY <3>1
  <2>. QED  BY <2>1
<1>2. PICK x \in D : \A y \in D : x <= y
  BY <1>1, MinExists
<1>3. PICK n \in S : x = m - n
  BY <1>2
<1>4. \A k \in S : x <= m - k
  BY <1>2
<1>. QED  BY <1>3, <1>4

LEMMA MaxVersionNat == MaxVersion \in Nat
BY SMT DEF MaxVersion
-----------------------------------------------------------------------------
(* Receipts and rows *)

LEMMA RowsType ==
    /\ \A b \in Batch : DOMAIN Rows[b] \in SUBSET Nat
    /\ \A r \in Receipt : RowOf(r) \in Variant \cup {InvalidRow}
    /\ \A b \in Batch : ReceiptsOf(b) \subseteq Receipt
<1>1. ASSUME NEW b \in Batch
      PROVE  DOMAIN Rows[b] \in SUBSET Nat /\
             \A i \in DOMAIN Rows[b] : Rows[b][i] \in Variant \cup {InvalidRow}
  <2>1. Rows[b] \in Seq(Variant \cup {InvalidRow})
    BY StoreAssumption
  <2>. QED  BY <2>1
<1>2. ASSUME NEW r \in Receipt
      PROVE  r[1] \in Batch /\ r[2] \in DOMAIN Rows[r[1]]
  BY DEF Receipt
<1>3. ASSUME NEW b \in Batch  PROVE ReceiptsOf(b) \subseteq Receipt
  BY DEF ReceiptsOf, Receipt
<1>. QED  BY <1>1, <1>2, <1>3 DEF RowOf

\* Receipts are identified by their batch and row number.
LEMMA ReceiptBatch ==
    ASSUME NEW b, NEW r \in ReceiptsOf(b)  PROVE r[1] = b
BY DEF ReceiptsOf

\* A valid receipt carries a variant of an entity of the delivery.
LEMMA ValidReceiptsType ==
    ASSUME NEW d \in Batch
    PROVE  /\ ValidReceipts(d) \subseteq Receipt
           /\ \A r \in ValidReceipts(d) : RowOf(r) \in Variant
           /\ DeliveredVariants(d) \subseteq Variant
           /\ Touched(d) = {v.entity : v \in DeliveredVariants(d)}
           /\ Touched(d) \subseteq Entity
<1>1. ASSUME NEW r \in ValidReceipts(d)
      PROVE  r \in Receipt /\ RowOf(r) \in Variant
  BY RowsType DEF ValidReceipts
<1>2. Touched(d) = {v.entity : v \in DeliveredVariants(d)}
  BY DEF Touched, DeliveredVariants
<1>. QED  BY <1>1, <1>2 DEF DeliveredVariants, Variant

\* The history row of a delivered variant names a receipt that carries it.
LEMMA FirstRowType ==
    ASSUME NEW d \in Batch, NEW v \in DeliveredVariants(d)
    PROVE  /\ FirstRow(d, v) \in [variant : Variant, first : Receipt]
           /\ FirstRow(d, v).variant = v
           /\ FirstRow(d, v).first \in ValidReceipts(d)
           /\ RowOf(FirstRow(d, v).first) = v
<1>. DEFINE R == {r \in ValidReceipts(d) : RowOf(r) = v}
            N == {r[2] : r \in R}
<1>1. R # {} /\ \A r \in R : r \in {d} \X DOMAIN Rows[d]
  BY DEF DeliveredVariants, ValidReceipts, ReceiptsOf
<1>2. N \in SUBSET Nat /\ N # {}
  BY <1>1, RowsType
<1>3. PICK n \in N : \A k \in N : n <= k
  BY <1>2, MinExists
<1>4. PICK r \in R : r[2] = n
  BY <1>3
<1>5. \A q \in ValidReceipts(d) : RowOf(q) = v => r[2] <= q[2]
  BY <1>3, <1>4
<1>6. FirstRow(d, v).first \in ValidReceipts(d) /\ RowOf(FirstRow(d, v).first) = v
  BY <1>4, <1>5 DEF FirstRow
<1>7. v \in Variant /\ FirstRow(d, v).first \in Receipt
  BY <1>6, ValidReceiptsType
<1>. QED  BY <1>6, <1>7 DEF FirstRow

\* The resolution of an entity that has at least one variant.
LEMMA ResolveEntityType ==
    ASSUME NEW V \in SUBSET Variant, V # {}
    PROVE  /\ HighestVersion(V) \in {v.version : v \in V}
           /\ \A v \in V : v.version <= HighestVersion(V)
           /\ ResolveEntity(V) \in Resolution
<1>. DEFINE S == {v.version : v \in V}
<1>1. S \in SUBSET (1 .. MaxVersion) /\ S # {}
  <2>1. \A v \in V : v.version \in Version
    BY DEF Variant
  <2>2. S \subseteq Version /\ S # {}
    BY <2>1
  <2>3. Version \subseteq 1 .. MaxVersion
    BY StoreAssumption
  <2>. QED  BY <2>2, <2>3, Zenon
<1>2. \E n \in S : \A k \in S : k <= n
  BY <1>1, MaxExists, MaxVersionNat
<1>3. HighestVersion(V) \in S /\ \A v \in V : v.version <= HighestVersion(V)
  BY <1>2 DEF HighestVersion
<1>. DEFINE H == {v.hash : v \in {u \in V : u.version = HighestVersion(V)}}
<1>4. H # {} /\ H \subseteq Hash
  BY <1>3 DEF Variant
<1>5. (CHOOSE h \in H : TRUE) \in Hash
  BY <1>4
<1>6. HighestVersion(V) \in Nat
  BY <1>1, <1>3, MaxVersionNat
<1>. QED  BY <1>3, <1>5, <1>6 DEF ResolveEntity, Resolution
-----------------------------------------------------------------------------
(* The inductive invariant *)

Holding == {"lockEntities", "find", "insert", "resolve", "commit"}

\* From lock_financial_state to the end of its transaction, an ingester is
\* the one holder of the financial lock.
LockIsHeld == \A w \in Ingester : pc[w] \in Holding => financialLock = w

\* What an ingester found in its look-up still holds when it commits.
DeliveryIsNew ==
    \A w \in Ingester :
        pc[w] \in {"insert", "resolve", "commit"} => batch[job[w]] = "NONE"

\* The uncommitted history rows complete what is committed already.
StagedIsDelivered ==
    \A w \in Ingester :
        /\ staged[w].variants \subseteq DeliveredVariants(job[w])
        /\ pc[w] \notin {"resolve", "commit"} => staged[w].variants = {}
        /\ pc[w] \in {"resolve", "commit"} =>
              DeliveredVariants(job[w]) \subseteq
                  KnownVariants \cup staged[w].variants

IngestTypeInv == IngestTypeOK /\ StagedIsDelivered

LEMMA VisibleRowsType ==
    ASSUME IngestTypeInv, NEW w \in Ingester
    PROVE  /\ VisibleRows(w) \subseteq [variant : Variant, first : Receipt]
           /\ {x.variant : x \in VisibleRows(w)} =
                  KnownVariants \cup staged[w].variants
           /\ KnownVariants \cup staged[w].variants \subseteq Variant
<1>1. job[w] \in Batch
  BY DEF IngestTypeInv, IngestTypeOK, Batch
<1>2. staged[w].variants \subseteq DeliveredVariants(job[w])
  BY DEF IngestTypeInv, StagedIsDelivered
<1>3. \A v \in staged[w].variants :
         /\ FirstRow(job[w], v) \in [variant : Variant, first : Receipt]
         /\ FirstRow(job[w], v).variant = v
  BY <1>1, <1>2, FirstRowType
<1>4. recordVersion \subseteq [variant : Variant, first : Receipt]
  BY DEF IngestTypeInv, IngestTypeOK
<1>5. {x.variant : x \in VisibleRows(w)} = KnownVariants \cup staged[w].variants
  BY <1>3 DEF VisibleRows, KnownVariants
<1>6. VisibleRows(w) \subseteq [variant : Variant, first : Receipt]
  BY <1>3, <1>4 DEF VisibleRows
<1>7. \A x \in VisibleRows(w) : x.variant \in Variant
  BY <1>6
<1>. QED  BY <1>5, <1>6, <1>7

\* What _resolve_entity computes for a touched entity.
LEMMA ResolvedType ==
    ASSUME IngestTypeInv, NEW w \in Ingester, pc[w] = "resolve",
           NEW e \in Touched(job[w])
    PROVE  ResolveEntity({v \in {x.variant : x \in VisibleRows(w)} :
                             v.entity = e}) \in Resolution
<1>. DEFINE V == {v \in {x.variant : x \in VisibleRows(w)} : v.entity = e}
<1>1. job[w] \in Batch
  BY DEF IngestTypeInv, IngestTypeOK, Batch
<1>2. PICK v \in DeliveredVariants(job[w]) : v.entity = e
  BY <1>1, ValidReceiptsType
<1>3. DeliveredVariants(job[w]) \subseteq KnownVariants \cup staged[w].variants
  BY DEF IngestTypeInv, StagedIsDelivered
<1>4. V \in SUBSET Variant /\ v \in V
  BY <1>2, <1>3, VisibleRowsType
<1>. HIDE DEF V
<1>5. ResolveEntity(V) \in Resolution
  BY <1>4, ResolveEntityType
<1>. QED  BY <1>5 DEF V

LEMMA ReclassifyType ==
    \A res, v, b : Reclassify(res, v, b) \in
        {"STALE", "CONFLICTED", "ACCEPTED", "DUPLICATE"}
BY DEF Reclassify

LEMMA NoWritesType ==
    NoWrites \in [variants : SUBSET Variant, resolution : [Entity -> Resolution],
                  disposition : [Receipt -> Disposition]]
<1>1. NoResolution \in Resolution
  BY DEF NoResolution, Resolution
<1>2. [e \in Entity |-> NoResolution] \in [Entity -> Resolution]
  BY <1>1
<1>3. [r \in Receipt |-> "NONE"] \in [Receipt -> Disposition]
  BY DEF Disposition
<1>. QED  BY <1>2, <1>3 DEF NoWrites

LEMMA NewRequestType ==
    ASSUME NEW t \in Nat  PROVE NewRequest(t) \in Request /\ NoRequest \in Request
BY StoreAssumption DEF NewRequest, NoRequest, Request

(* Typing of each action.  EndTransaction ends four of them. *)

LEMMA EndTransactionType ==
    ASSUME IngestTypeInv, NEW w \in Ingester, EndTransaction(w)
    PROVE  /\ pc' \in [Ingester -> {"idle", "lockFinancial", "lockEntities",
                                    "find", "insert", "resolve", "commit"}]
           /\ job' \in [Ingester -> Delivery]
           /\ asOf' \in [Ingester -> Nat]
           /\ toLock' \in [Ingester -> SUBSET Entity]
           /\ entityLock' \in [LockNumbers -> Ingester \cup {NoOne}]
           /\ staged' \in [Ingester -> [variants : SUBSET Variant,
                                        resolution : [Entity -> Resolution],
                                        disposition : [Receipt -> Disposition]]]
           /\ pc'[w] = "idle" /\ staged'[w].variants = {}
           /\ \A x \in Ingester \ {w} : pc'[x] = pc[x] /\ staged'[x] = staged[x]
<1>1. IngestTypeOK
  BY DEF IngestTypeInv
<1>2. staged' \in [Ingester -> [variants : SUBSET Variant,
                                resolution : [Entity -> Resolution],
                                disposition : [Receipt -> Disposition]]]
  BY <1>1, NoWritesType DEF EndTransaction, IngestTypeOK
<1>3. staged'[w].variants = {}
  BY <1>1 DEF EndTransaction, IngestTypeOK, NoWrites
<1>4. entityLock' \in [LockNumbers -> Ingester \cup {NoOne}]
  BY <1>1 DEF EndTransaction, IngestTypeOK
<1>. QED  BY <1>1, <1>2, <1>3, <1>4 DEF EndTransaction, IngestTypeOK

LEMMA StartIngestionType ==
    ASSUME IngestTypeInv, NEW w \in Ingester, NEW d \in Delivery,
           StartIngestion(w, d)
    PROVE  IngestTypeInv'
<1>1. IngestTypeOK'
  BY DEF IngestTypeInv, IngestTypeOK, StartIngestion, storeVars
<1>2. KnownVariants' = KnownVariants
  BY DEF StartIngestion, storeVars, KnownVariants
<1>3. StagedIsDelivered'
  BY <1>2 DEF IngestTypeInv, IngestTypeOK, StagedIsDelivered, StartIngestion
<1>. QED  BY <1>1, <1>3 DEF IngestTypeInv

LEMMA LockFinancialStateType ==
    ASSUME IngestTypeInv, NEW w \in Ingester, LockFinancialState(w)
    PROVE  IngestTypeInv'
<1>1. Touched(job[w]) \subseteq Entity
  BY ValidReceiptsType DEF IngestTypeInv, IngestTypeOK, Batch
<1>2. IngestTypeOK'
  BY <1>1 DEF IngestTypeInv, IngestTypeOK, LockFinancialState
<1>3. KnownVariants' = KnownVariants
  BY DEF LockFinancialState, KnownVariants
<1>4. StagedIsDelivered'
  BY <1>3 DEF IngestTypeInv, IngestTypeOK, StagedIsDelivered, LockFinancialState
<1>. QED  BY <1>2, <1>4 DEF IngestTypeInv

LEMMA EntityLockType ==
    ASSUME IngestTypeInv, NEW w \in Ingester,
           AcquireEntityLock(w) \/ EntityLocksHeld(w) \/ NoExistingBatch(w)
    PROVE  IngestTypeInv'
<1>1. IngestTypeOK'
  <2>1. CASE AcquireEntityLock(w)
    <3>2. entityLock' \in [LockNumbers -> Ingester \cup {NoOne}]
      BY <2>1 DEF IngestTypeInv, IngestTypeOK, AcquireEntityLock
    <3>3. toLock' \in [Ingester -> SUBSET Entity]
      BY <2>1 DEF IngestTypeInv, IngestTypeOK, AcquireEntityLock
    <3>. QED  BY <2>1, <3>2, <3>3 DEF IngestTypeInv, IngestTypeOK,
                AcquireEntityLock, storeVars
  <2>2. CASE EntityLocksHeld(w)
    BY <2>2 DEF IngestTypeInv, IngestTypeOK, EntityLocksHeld, storeVars
  <2>3. CASE NoExistingBatch(w)
    BY <2>3 DEF IngestTypeInv, IngestTypeOK, NoExistingBatch, storeVars
  <2>. QED  BY <2>1, <2>2, <2>3
<1>2. KnownVariants' = KnownVariants /\ UNCHANGED <<job, staged>>
  BY DEF AcquireEntityLock, EntityLocksHeld, NoExistingBatch, storeVars,
         KnownVariants
<1>3. \A x \in Ingester :
         (pc'[x] \in {"resolve", "commit"}) <=> (pc[x] \in {"resolve", "commit"})
  BY DEF AcquireEntityLock, EntityLocksHeld, NoExistingBatch, IngestTypeInv,
         IngestTypeOK
<1>4. StagedIsDelivered'
  BY <1>2, <1>3 DEF IngestTypeInv, StagedIsDelivered, DeliveredVariants
<1>. QED  BY <1>1, <1>4 DEF IngestTypeInv

LEMMA InsertRowsType ==
    ASSUME IngestTypeInv, NEW w \in Ingester, InsertRows(w)
    PROVE  IngestTypeInv'
<1>. DEFINE D == [r \in Receipt |->
                    IF r \notin ReceiptsOf(job[w]) THEN "NONE"
                    ELSE IF RowOf(r) = InvalidRow THEN "QUARANTINED"
                    ELSE "PENDING"]
            W == [staged[w] EXCEPT !.variants = NewVariants(job[w]),
                                   !.disposition = D]
<1>1. /\ staged' = [staged EXCEPT ![w] = W]
      /\ pc' = [pc EXCEPT ![w] = "resolve"]
      /\ UNCHANGED <<storeVars, job, asOf, toLock, entityLock>>
  BY DEF InsertRows
<1>2. job[w] \in Batch
  BY DEF IngestTypeInv, IngestTypeOK, Batch
<1>3. D \in [Receipt -> Disposition]
  BY DEF Disposition
<1>4. NewVariants(job[w]) \subseteq Variant
  BY <1>2, ValidReceiptsType DEF NewVariants
<1>. HIDE DEF D
<1>5. W \in [variants : SUBSET Variant, resolution : [Entity -> Resolution],
             disposition : [Receipt -> Disposition]]
      /\ W.variants = NewVariants(job[w])
  BY <1>3, <1>4 DEF IngestTypeInv, IngestTypeOK
<1>. HIDE DEF W
<1>6. IngestTypeOK'
  BY <1>1, <1>5 DEF IngestTypeInv, IngestTypeOK, storeVars
<1>7. KnownVariants' = KnownVariants /\ job' = job
  BY <1>1 DEF storeVars, KnownVariants
<1>8. StagedIsDelivered'
  BY <1>1, <1>5, <1>7 DEF IngestTypeInv, IngestTypeOK, StagedIsDelivered,
                          NewVariants
<1>. QED  BY <1>6, <1>8 DEF IngestTypeInv

LEMMA ResolveTouchedType ==
    ASSUME IngestTypeInv, NEW w \in Ingester, ResolveTouched(w)
    PROVE  IngestTypeInv'
<1>. DEFINE rows == VisibleRows(w)
            res(e) == ResolveEntity({v \in {x.variant : x \in rows} :
                                        v.entity = e})
            E == [e \in Entity |->
                    IF e \in Touched(job[w]) THEN res(e) ELSE NoResolution]
            D == [r \in Receipt |->
                   IF \E e \in Touched(job[w]) : r \in RankedReceipts(w, e)
                   THEN Reclassify(res(RowOf(r).entity), RowOf(r),
                            [variant |-> RowOf(r), first |-> r] \in rows)
                   ELSE staged[w].disposition[r]]
            W == [staged[w] EXCEPT !.resolution = E, !.disposition = D]
<1>1. /\ staged' = [staged EXCEPT ![w] = W]
      /\ pc' = [pc EXCEPT ![w] = "commit"]
      /\ pc[w] = "resolve"
      /\ UNCHANGED <<storeVars, job, asOf, toLock, entityLock>>
  BY DEF ResolveTouched
<1>2. E \in [Entity -> Resolution]
  <2>1. NoResolution \in Resolution
    BY DEF NoResolution, Resolution
  <2>2. \A e \in Touched(job[w]) : res(e) \in Resolution
    BY <1>1, ResolvedType
  <2>. HIDE DEF res
  <2>. QED  BY <2>1, <2>2
<1>3. D \in [Receipt -> Disposition]
  <2>1. staged[w].disposition \in [Receipt -> Disposition]
    BY DEF IngestTypeInv, IngestTypeOK
  <2>2. \A r \in Receipt :
          Reclassify(res(RowOf(r).entity), RowOf(r),
                     [variant |-> RowOf(r), first |-> r] \in rows) \in Disposition
    <3>. HIDE DEF res, rows
    <3>. QED  BY ReclassifyType DEF Disposition
  <2>. HIDE DEF res, rows
  <2>. QED  BY <2>1, <2>2
<1>. HIDE DEF E, D
<1>4. W \in [variants : SUBSET Variant, resolution : [Entity -> Resolution],
             disposition : [Receipt -> Disposition]]
      /\ W.variants = staged[w].variants
  BY <1>2, <1>3 DEF IngestTypeInv, IngestTypeOK
<1>. HIDE DEF W
<1>5. IngestTypeOK'
  BY <1>1, <1>4 DEF IngestTypeInv, IngestTypeOK, storeVars
<1>6. KnownVariants' = KnownVariants /\ job' = job
  BY <1>1 DEF storeVars, KnownVariants
<1>7. StagedIsDelivered'
  BY <1>1, <1>4, <1>6 DEF IngestTypeInv, IngestTypeOK, StagedIsDelivered
<1>. QED  BY <1>5, <1>7 DEF IngestTypeInv

LEMMA CommitIngestionType ==
    ASSUME IngestTypeInv, NEW w \in Ingester, CommitIngestion(w)
    PROVE  IngestTypeInv'
<1>. DEFINE d == job[w]
<1>1. /\ d \in Delivery /\ d \in Batch /\ asOf[w] \in Nat
      /\ staged[w].resolution \in [Entity -> Resolution]
      /\ staged[w].disposition \in [Receipt -> Disposition]
  BY DEF IngestTypeInv, IngestTypeOK, Batch
<1>2. batch' \in [Batch -> BatchStatus] /\ receivedAt' \in [Batch -> Nat]
  BY <1>1 DEF IngestTypeInv, IngestTypeOK, CommitIngestion, BatchStatus
<1>3. recordVersion' \subseteq [variant : Variant, first : Receipt]
  BY VisibleRowsType DEF CommitIngestion
<1>4. resolution' \in [Entity -> Resolution]
  BY <1>1 DEF IngestTypeInv, IngestTypeOK, CommitIngestion
<1>5. disposition' \in [Receipt -> Disposition]
  BY <1>1 DEF IngestTypeInv, IngestTypeOK, CommitIngestion
<1>6. request' \in [Delivery -> Request]
  <2>1. ScheduledRequest(w) \in Request
    BY <1>1, NewRequestType DEF ScheduledRequest
  <2>. QED  BY <1>1, <2>1 DEF IngestTypeInv, IngestTypeOK, CommitIngestion
<1>7. now' \in Nat /\ EndTransaction(w) /\ job' = job
  BY DEF IngestTypeInv, IngestTypeOK, CommitIngestion, EndTransaction
<1>8. IngestTypeOK'
  BY <1>2, <1>3, <1>4, <1>5, <1>6, <1>7, EndTransactionType DEF IngestTypeOK
<1>9. KnownVariants' = KnownVariants \cup staged[w].variants
  BY VisibleRowsType DEF CommitIngestion, KnownVariants
<1>10. StagedIsDelivered'
  BY <1>7, <1>9, EndTransactionType DEF IngestTypeInv, StagedIsDelivered
<1>. QED  BY <1>8, <1>10 DEF IngestTypeInv

\* Transactions that end without writing, and the steps of no ingester.
LEMMA OtherStepsType ==
    ASSUME IngestTypeInv,
           \/ \E w \in Ingester : ReuseExistingBatch(w) \/ AbortIngestion(w)
           \/ \E b \in LedgerDelivery : RecordDelivery(b)
           \/ Tick /\ UNCHANGED ingestVars
           \/ UNCHANGED <<storeVars, ingestVars>>
    PROVE  IngestTypeInv'
<1>1. ASSUME NEW w \in Ingester, ReuseExistingBatch(w) \/ AbortIngestion(w)
      PROVE  IngestTypeInv'
  <2>1. /\ EndTransaction(w) /\ job' = job
        /\ UNCHANGED <<batch, receivedAt, disposition, recordVersion,
                       resolution, request, now>>
    BY <1>1 DEF ReuseExistingBatch, AbortIngestion, EndTransaction
  <2>2. IngestTypeOK'
    BY <2>1, EndTransactionType DEF IngestTypeInv, IngestTypeOK
  <2>3. KnownVariants' = KnownVariants
    BY <2>1 DEF KnownVariants
  <2>4. StagedIsDelivered'
    BY <2>1, <2>3, EndTransactionType DEF IngestTypeInv, StagedIsDelivered
  <2>. QED  BY <2>2, <2>4 DEF IngestTypeInv
<1>2. ASSUME NEW b \in LedgerDelivery, RecordDelivery(b)
      PROVE  IngestTypeInv'
  <2>1. IngestTypeOK'
    BY <1>2 DEF IngestTypeInv, IngestTypeOK, RecordDelivery, ingestVars, Batch,
                BatchStatus, Disposition
  <2>2. StagedIsDelivered'
    BY <1>2 DEF IngestTypeInv, StagedIsDelivered, RecordDelivery, ingestVars,
                KnownVariants
  <2>. QED  BY <2>1, <2>2 DEF IngestTypeInv
<1>3. CASE Tick /\ UNCHANGED ingestVars
  BY <1>3 DEF IngestTypeInv, IngestTypeOK, StagedIsDelivered, Tick, ingestVars,
              KnownVariants
<1>4. CASE UNCHANGED <<storeVars, ingestVars>>
  BY <1>4 DEF IngestTypeInv, IngestTypeOK, StagedIsDelivered, storeVars,
              ingestVars, KnownVariants
<1>. QED  BY <1>1, <1>2, <1>3, <1>4

\* Every step preserves the type invariant with its strengthening.
LEMMA IngestTypeStep ==
    ASSUME IngestTypeInv, [IngestNext]_<<storeVars, ingestVars>>
    PROVE  IngestTypeInv'
BY StartIngestionType, LockFinancialStateType, EntityLockType, InsertRowsType,
   ResolveTouchedType, CommitIngestionType, OtherStepsType
   DEF IngestNext, IngesterStep

LEMMA IngestTypeInit ==
    ASSUME StoreInit, IngestInit  PROVE IngestTypeInv
<1>1. (CHOOSE d \in Delivery : TRUE) \in Delivery
  BY StoreAssumption
<1>2. NoResolution \in Resolution /\ NoRequest \in Request
  BY NewRequestType DEF NoResolution, Resolution
<1>3. IngestTypeOK
  BY <1>1, <1>2, NoWritesType DEF StoreInit, IngestInit, IngestTypeOK,
     BatchStatus, Disposition
<1>4. StagedIsDelivered
  BY DEF IngestInit, StagedIsDelivered, NoWrites
<1>. QED  BY <1>3, <1>4 DEF IngestTypeInv

\* The tables and the ingesters' state have their types in every reachable
\* state, for any deliveries; in particular _resolve_entity always finds a
\* winning version (versions[0] exists) and a history row has its receipt.
THEOREM IngestTypeCorrect == IngestSpec => []IngestTypeOK
<1>1. LedgerInit => IngestTypeInv
  BY IngestTypeInit DEF LedgerInit
<1>2. IngestTypeInv /\ [IngestNext]_<<storeVars, ingestVars>> => IngestTypeInv'
  BY IngestTypeStep
<1>3. IngestTypeInv => IngestTypeOK
  BY DEF IngestTypeInv
<1>. QED  BY <1>1, <1>2, <1>3, PTL DEF IngestSpec
-----------------------------------------------------------------------------
(* Resolutions are canonical *)

Delivered(B) == UNION {DeliveredVariants(d) : d \in B}

\* The variants of one entity among V.
About(V, e) == {v \in V : v.entity = e}

\* source_record_version holds exactly what the committed batches delivered.
HistoryIsDelivered == KnownVariants = Delivered(Committed)

\* What _resolve_entity computed is still right when the transaction commits.
ResolvedIsCurrent ==
    \A w \in Ingester : pc[w] = "commit" =>
        \A e \in Touched(job[w]) : staged[w].resolution[e] =
            ResolveEntity(About(KnownVariants \cup staged[w].variants, e))

\* Every entity_resolution row is what _resolve_entity makes of the history.
ResolutionIsCurrent ==
    \A e \in Entity : resolution[e] =
        IF About(KnownVariants, e) = {} THEN NoResolution
        ELSE ResolveEntity(About(KnownVariants, e))

\* Ingesters exclude each other, so what one reads stays true until it ends.
IngestInv ==
    /\ IngestTypeInv
    /\ LockIsHeld
    /\ DeliveryIsNew
    /\ RetryFindsWholeDelivery
    /\ HistoryIsDelivered
    /\ ResolvedIsCurrent
    /\ ResolutionIsCurrent

\* The SQL ranking of _resolve_entity and the grouping of canonicalize pick
\* the same winner: their two definitions agree on every set of variants.
LEMMA ResolveIsCanonical ==
    ASSUME NEW V \in SUBSET Variant, V # {}
    PROVE  ResolveEntity(V) =
             [state   |-> IF IsConflicted(V) THEN "CONFLICTED" ELSE "ACCEPTED",
              version |-> WinningVersion(V),
              hash    |-> CanonicalHash(V)]
<1>1. /\ HighestVersion(V) \in Versions(V)
      /\ \A n \in Versions(V) : n <= HighestVersion(V)
  BY ResolveEntityType DEF Versions
<1>2. Versions(V) \subseteq Int
  <2>1. \A v \in V : v.version \in Version
    BY DEF Variant
  <2>2. \A n \in Version : n \in Int
    BY StoreAssumption, MaxVersionNat
  <2>. QED  BY <2>1, <2>2 DEF Versions
<1>3. WinningVersion(V) = HighestVersion(V)
  <2>1. /\ WinningVersion(V) \in Versions(V)
        /\ \A n \in Versions(V) : n <= WinningVersion(V)
    BY <1>1 DEF WinningVersion
  <2>. QED  BY <1>1, <1>2, <2>1
<1>. DEFINE H == {v.hash : v \in {u \in V : u.version = HighestVersion(V)}}
            clash == \E g, h \in H : g # h
<1>4. WinningHashes(V) = H
  BY <1>3 DEF WinningHashes
<1>5. ResolveEntity(V) =
         [state   |-> IF clash THEN "CONFLICTED" ELSE "ACCEPTED",
          version |-> HighestVersion(V),
          hash    |-> IF clash THEN NoHash ELSE CHOOSE h \in H : TRUE]
  BY DEF ResolveEntity
<1>. HIDE DEF H
<1>6. IsConflicted(V) = clash
  BY <1>4 DEF IsConflicted
<1>7. CanonicalHash(V) = IF clash THEN NoHash ELSE CHOOSE h \in H : TRUE
  BY <1>4, <1>6 DEF CanonicalHash
<1>. HIDE DEF clash
<1>. QED  BY <1>3, <1>5, <1>6, <1>7

LEMMA VariantsInDelivered ==
    ASSUME NEW B, NEW e  PROVE VariantsIn(B, e) = About(Delivered(B), e)
BY DEF VariantsIn, About, Delivered, DeliveredVariants

LEMMA CanonicalFromInv ==
    ASSUME IngestInv  PROVE ResolutionMatchesCanonical
<1>. SUFFICES ASSUME NEW e \in Entity
              PROVE  LET V == VariantsIn(Committed, e) IN
                IF V = {} THEN resolution[e] = NoResolution
                ELSE resolution[e] =
                       [state   |-> IF IsConflicted(V) THEN "CONFLICTED"
                                    ELSE "ACCEPTED",
                        version |-> WinningVersion(V),
                        hash    |-> CanonicalHash(V)]
  BY DEF ResolutionMatchesCanonical
<1>. DEFINE V == VariantsIn(Committed, e)
<1>1. V = About(KnownVariants, e)
  BY VariantsInDelivered DEF IngestInv, HistoryIsDelivered
<1>2. V \in SUBSET Variant
  <2>1. recordVersion \subseteq [variant : Variant, first : Receipt]
    BY DEF IngestInv, IngestTypeInv, IngestTypeOK
  <2>. QED  BY <1>1, <2>1 DEF KnownVariants, About
<1>3. resolution[e] = IF V = {} THEN NoResolution ELSE ResolveEntity(V)
  BY <1>1 DEF IngestInv, ResolutionIsCurrent
<1>. HIDE DEF V
<1>4. CASE V = {}
  BY <1>3, <1>4 DEF V
<1>5. CASE V # {}
  <2>1. resolution[e] = ResolveEntity(V)
    BY <1>3, <1>5
  <2>. QED  BY <1>2, <1>5, <2>1, ResolveIsCanonical DEF V
<1>. QED  BY <1>4, <1>5

\* Steps that touch neither the history nor a delivery preserve the invariant
\* when they preserve the lock discipline.
LEMMA QuietStep ==
    ASSUME IngestInv, IngestTypeInv', LockIsHeld', DeliveryIsNew',
           UNCHANGED <<recordVersion, resolution>>,
           \A d \in Delivery :
              /\ batch'[d] = batch[d]
              /\ request'[d].status = "NONE" <=> request[d].status = "NONE",
           \A w \in Ingester : pc'[w] = "commit" =>
              /\ pc[w] = "commit"
              /\ job'[w] = job[w] /\ staged'[w] = staged[w]
    PROVE  IngestInv'
<1>1. KnownVariants' = KnownVariants /\ Committed' = Committed
  BY DEF KnownVariants, Committed
<1>2. RetryFindsWholeDelivery'
  BY DEF IngestInv, RetryFindsWholeDelivery, ExistingIsBroken
<1>3. HistoryIsDelivered'
  BY <1>1 DEF IngestInv, HistoryIsDelivered, Delivered
<1>4. ResolvedIsCurrent'
  BY <1>1 DEF IngestInv, ResolvedIsCurrent
<1>5. ResolutionIsCurrent'
  BY <1>1 DEF IngestInv, ResolutionIsCurrent
<1>. QED  BY <1>2, <1>3, <1>4, <1>5 DEF IngestInv

LEMMA NoOneIsFree ==
    ASSUME LockIsHeld, FinancialLockIsFree
    PROVE  \A w \in Ingester : pc[w] \notin Holding
BY IngestionAssumption DEF LockIsHeld, FinancialLockIsFree

\* The end of a transaction that wrote nothing.
LEMMA EndTransactionInv ==
    ASSUME IngestInv, NEW w \in Ingester,
           ReuseExistingBatch(w) \/ AbortIngestion(w)
    PROVE  IngestInv'
<1>1. /\ EndTransaction(w)
      /\ UNCHANGED <<batch, receivedAt, disposition, recordVersion, resolution,
                     request, now>>
  BY DEF ReuseExistingBatch, AbortIngestion
<1>2. IngestTypeInv'
  BY OtherStepsType DEF IngestInv
<1>3. /\ pc'[w] = "idle" /\ job' = job
      /\ \A x \in Ingester \ {w} : pc'[x] = pc[x] /\ staged'[x] = staged[x]
      /\ \A x \in Ingester \ {w} : financialLock = x => financialLock' = x
  BY <1>1, EndTransactionType DEF IngestInv, EndTransaction
<1>4. LockIsHeld'
  BY <1>3 DEF IngestInv, LockIsHeld, Holding
<1>5. DeliveryIsNew'
  BY <1>1, <1>3 DEF IngestInv, DeliveryIsNew
<1>. QED  BY <1>1, <1>2, <1>3, <1>4, <1>5, QuietStep

\* The steps of a transaction before it resolves its entities.
LEMMA EarlyStepsInv ==
    ASSUME IngestInv, NEW w \in Ingester,
           \/ \E d \in Delivery : StartIngestion(w, d)
           \/ LockFinancialState(w)
           \/ AcquireEntityLock(w)
           \/ EntityLocksHeld(w)
           \/ NoExistingBatch(w)
           \/ InsertRows(w)
    PROVE  IngestInv'
<1>1. IngestTypeInv'
  BY StartIngestionType, LockFinancialStateType, EntityLockType, InsertRowsType
     DEF IngestInv
<1>2. /\ UNCHANGED <<batch, receivedAt, disposition, recordVersion, resolution,
                     request, now>>
      /\ \A x \in Ingester \ {w} :
            pc'[x] = pc[x] /\ job'[x] = job[x] /\ staged'[x] = staged[x]
      /\ pc'[w] # "commit"
  BY DEF StartIngestion, LockFinancialState, AcquireEntityLock,
         EntityLocksHeld, NoExistingBatch, InsertRows, storeVars, IngestInv,
         IngestTypeInv, IngestTypeOK
<1>3. LockIsHeld'
  <2>1. CASE LockFinancialState(w)
    BY <2>1, <1>2, NoOneIsFree DEF LockFinancialState, IngestInv, LockIsHeld
  <2>2. CASE \E d \in Delivery : StartIngestion(w, d)
    BY <2>2, <1>2 DEF StartIngestion, storeVars, IngestInv, LockIsHeld, Holding,
                      IngestTypeInv, IngestTypeOK
  <2>3. CASE AcquireEntityLock(w) \/ EntityLocksHeld(w) \/ NoExistingBatch(w)
             \/ InsertRows(w)
    BY <2>3, <1>2 DEF AcquireEntityLock, EntityLocksHeld, NoExistingBatch,
       InsertRows, storeVars, IngestInv, LockIsHeld, Holding
  <2>. QED  BY <2>1, <2>2, <2>3
<1>4. DeliveryIsNew'
  <2>1. pc'[w] \in {"insert", "resolve", "commit"} =>
           batch[job[w]] = "NONE" /\ job'[w] = job[w]
    BY DEF StartIngestion, LockFinancialState, AcquireEntityLock,
           EntityLocksHeld, NoExistingBatch, InsertRows, IngestInv,
           IngestTypeInv, IngestTypeOK, DeliveryIsNew
  <2>. QED  BY <1>2, <2>1 DEF IngestInv, DeliveryIsNew
<1>. QED  BY <1>1, <1>2, <1>3, <1>4, QuietStep

\* _resolve_entity leaves the resolutions its commit will publish.
LEMMA ResolveTouchedInv ==
    ASSUME IngestInv, NEW w \in Ingester, ResolveTouched(w)
    PROVE  IngestInv'
<1>1. IngestTypeInv'
  BY ResolveTouchedType DEF IngestInv
<1>2. /\ UNCHANGED <<storeVars, job>>
      /\ pc[w] = "resolve" /\ pc'[w] = "commit"
      /\ staged'[w].variants = staged[w].variants
      /\ \A x \in Ingester \ {w} : pc'[x] = pc[x] /\ staged'[x] = staged[x]
  BY DEF ResolveTouched, IngestInv, IngestTypeInv, IngestTypeOK
<1>3. KnownVariants' = KnownVariants /\ Committed' = Committed
  BY <1>2 DEF storeVars, KnownVariants, Committed
<1>4. \A e \in Touched(job[w]) : staged'[w].resolution[e] =
         ResolveEntity(About(KnownVariants \cup staged[w].variants, e))
  <2>1. {x.variant : x \in VisibleRows(w)} =
            KnownVariants \cup staged[w].variants
    BY VisibleRowsType DEF IngestInv
  <2>2. Touched(job[w]) \subseteq Entity
    BY ValidReceiptsType DEF IngestInv, IngestTypeInv, IngestTypeOK, Batch
  <2>3. \A e \in Touched(job[w]) : staged'[w].resolution[e] =
           ResolveEntity({v \in {x.variant : x \in VisibleRows(w)} :
                             v.entity = e})
    BY <2>2 DEF ResolveTouched, IngestInv, IngestTypeInv, IngestTypeOK
  <2>. QED  BY <2>1, <2>3 DEF About
<1>5. ResolvedIsCurrent'
  BY <1>2, <1>3, <1>4 DEF IngestInv, ResolvedIsCurrent
<1>6. LockIsHeld' /\ DeliveryIsNew'
  BY <1>2 DEF IngestInv, LockIsHeld, DeliveryIsNew, Holding, storeVars
<1>7. RetryFindsWholeDelivery'
  BY <1>2 DEF IngestInv, RetryFindsWholeDelivery, ExistingIsBroken, storeVars
<1>8. HistoryIsDelivered' /\ ResolutionIsCurrent'
  BY <1>2, <1>3 DEF IngestInv, HistoryIsDelivered, Delivered,
                    ResolutionIsCurrent, storeVars
<1>. QED  BY <1>1, <1>5, <1>6, <1>7, <1>8 DEF IngestInv

\* The commit: history, resolutions and request appear together.
LEMMA CommitIngestionInv ==
    ASSUME IngestInv, NEW w \in Ingester, CommitIngestion(w)
    PROVE  IngestInv'
<1>. DEFINE d == job[w]
            S == staged[w].variants
<1>1. IngestTypeInv'
  BY CommitIngestionType DEF IngestInv
<1>2. /\ d \in Delivery /\ d \in Batch /\ asOf[w] \in Nat
      /\ pc[w] = "commit" /\ EndTransaction(w) /\ job' = job
      /\ batch \in [Batch -> BatchStatus]
      /\ request \in [Delivery -> Request]
  BY DEF CommitIngestion, EndTransaction, IngestInv, IngestTypeInv,
         IngestTypeOK, Batch
<1>3. \A x \in Ingester \ {w} :
         pc'[x] = pc[x] /\ pc[x] \notin Holding /\ staged'[x] = staged[x]
  BY <1>2, EndTransactionType DEF IngestInv, LockIsHeld, Holding
<1>4. pc'[w] = "idle"
  BY <1>2, EndTransactionType DEF IngestInv
<1>5. LockIsHeld' /\ DeliveryIsNew' /\ ResolvedIsCurrent'
  BY <1>3, <1>4 DEF LockIsHeld, DeliveryIsNew, ResolvedIsCurrent, Holding
<1>6. RetryFindsWholeDelivery'
  <2>1. \A c \in Delivery \ {d} :
           batch'[c] = batch[c] /\ request'[c] = request[c]
    BY <1>2 DEF CommitIngestion, Batch
  <2>2. batch'[d] = "COMMITTED" /\ request'[d].status = "PENDING"
    BY <1>2 DEF CommitIngestion, ScheduledRequest, NewRequest, NoRequest
  <2>. QED  BY <2>1, <2>2 DEF IngestInv, RetryFindsWholeDelivery,
                              ExistingIsBroken
<1>7. KnownVariants' = KnownVariants \cup S
  BY VisibleRowsType DEF CommitIngestion, KnownVariants, IngestInv
<1>8. S \subseteq DeliveredVariants(d)
      /\ DeliveredVariants(d) \subseteq KnownVariants \cup S
  BY <1>2 DEF IngestInv, IngestTypeInv, StagedIsDelivered
<1>9. HistoryIsDelivered'
  <2>1. Committed' = Committed \cup {d}
    BY <1>2 DEF CommitIngestion, Committed, Batch
  <2>2. Delivered(Committed)' = Delivered(Committed) \cup DeliveredVariants(d)
    BY <2>1 DEF Delivered
  <2>3. KnownVariants = Delivered(Committed)
    BY DEF IngestInv, HistoryIsDelivered
  <2>. QED  BY <1>7, <1>8, <2>2, <2>3 DEF HistoryIsDelivered
<1>10. ResolutionIsCurrent'
  <2>1. ASSUME NEW e \in Touched(d)
        PROVE  /\ resolution'[e] = ResolveEntity(About(KnownVariants \cup S, e))
               /\ About(KnownVariants \cup S, e) # {}
    <3>1. e \in Entity
      BY <1>2, ValidReceiptsType
    <3>2. resolution'[e] = staged[w].resolution[e]
      BY <3>1, <2>1 DEF CommitIngestion
    <3>3. PICK v \in DeliveredVariants(d) : v.entity = e
      BY <1>2, ValidReceiptsType
    <3>. QED  BY <1>2, <1>8, <3>2, <3>3 DEF IngestInv, ResolvedIsCurrent, About
  <2>2. ASSUME NEW e \in Entity, e \notin Touched(d)
        PROVE  /\ resolution'[e] = resolution[e]
               /\ About(KnownVariants \cup S, e) = About(KnownVariants, e)
    <3>1. resolution'[e] = resolution[e]
      BY <2>2 DEF CommitIngestion
    <3>2. \A v \in S : v.entity # e
      BY <1>2, <1>8, <2>2, ValidReceiptsType
    <3>. QED  BY <3>1, <3>2 DEF About
  <2>. QED  BY <1>7, <2>1, <2>2 DEF IngestInv, ResolutionIsCurrent
<1>. QED  BY <1>1, <1>5, <1>6, <1>9, <1>10 DEF IngestInv

\* The older writer, the clock and stuttering.
LEMMA OtherStepsInv ==
    ASSUME IngestInv,
           \/ \E b \in LedgerDelivery : RecordDelivery(b)
           \/ Tick /\ UNCHANGED ingestVars
           \/ UNCHANGED <<storeVars, ingestVars>>
    PROVE  IngestInv'
<1>1. IngestTypeInv'
  BY OtherStepsType DEF IngestInv
<1>2. UNCHANGED <<recordVersion, resolution, request, financialLock, ingestVars>>
  BY DEF RecordDelivery, Tick, storeVars
<1>3. \A d \in Delivery : batch'[d] = batch[d]
  BY StoreAssumption DEF RecordDelivery, Tick, storeVars, IngestInv,
     IngestTypeInv, IngestTypeOK, Batch
<1>4. LockIsHeld'
  BY <1>2 DEF ingestVars, IngestInv, LockIsHeld
<1>5. DeliveryIsNew'
  BY <1>2, <1>3 DEF ingestVars, IngestInv, DeliveryIsNew, IngestTypeInv,
                    IngestTypeOK
<1>. QED  BY <1>1, <1>2, <1>3, <1>4, <1>5, QuietStep DEF ingestVars

LEMMA IngestInvInit ==
    ASSUME StoreInit, IngestInit  PROVE IngestInv
<1>1. IngestTypeInv
  BY IngestTypeInit
<1>2. LockIsHeld /\ DeliveryIsNew /\ ResolvedIsCurrent
  BY DEF IngestInit, LockIsHeld, DeliveryIsNew, ResolvedIsCurrent, Holding
<1>3. RetryFindsWholeDelivery
  BY DEF StoreInit, RetryFindsWholeDelivery, ExistingIsBroken, NoRequest, Batch
<1>4. KnownVariants = {} /\ Committed = {}
  BY DEF StoreInit, KnownVariants, Committed, Batch
<1>5. HistoryIsDelivered
  BY <1>4 DEF HistoryIsDelivered, Delivered
<1>6. ResolutionIsCurrent
  BY <1>4 DEF StoreInit, ResolutionIsCurrent, About
<1>. QED  BY <1>1, <1>2, <1>3, <1>5, <1>6 DEF IngestInv

\* Every step of IngestSpec preserves the inductive invariant.
LEMMA IngestInvStep ==
    ASSUME IngestInv, [IngestNext]_<<storeVars, ingestVars>>
    PROVE  IngestInv'
BY EarlyStepsInv, EndTransactionInv, ResolveTouchedInv, CommitIngestionInv,
   OtherStepsInv DEF IngestNext, IngesterStep

LEMMA IngestInvariant == IngestSpec => []IngestInv
<1>1. LedgerInit => IngestInv
  BY IngestInvInit DEF LedgerInit
<1>2. IngestInv /\ [IngestNext]_<<storeVars, ingestVars>> => IngestInv'
  BY IngestInvStep
<1>. QED  BY <1>1, <1>2, PTL DEF IngestSpec

\* Whatever the order and the overlap of ingestion transactions, aborts and
\* retries, each entity_resolution row is the one that canonicalize derives
\* from all receipts of all committed batches.
THEOREM ResolutionCorrect == IngestSpec => []ResolutionMatchesCanonical
<1>1. IngestInv => ResolutionMatchesCanonical
  BY CanonicalFromInv
<1>. QED  BY <1>1, IngestInvariant, PTL

\* A retried delivery finds its batch committed with its request, or nothing.
THEOREM RetryCorrect == IngestSpec => []RetryFindsWholeDelivery
<1>1. IngestInv => RetryFindsWholeDelivery
  BY DEF IngestInv
<1>. QED  BY <1>1, IngestInvariant, PTL
-----------------------------------------------------------------------------
(* Dispositions are canonical, and history is immutable *)

\* The receipts of the batches B that carry a variant.
EvidenceOf(B) == UNION {ValidReceipts(b) : b \in B}

\* The history row that names receipt r as the first of its variant.
RowFor(r) == [variant |-> RowOf(r), first |-> r]

\* One history row per variant, introduced by a committed receipt.
HistoryIsUnique ==
    /\ \A x, y \in recordVersion : x.variant = y.variant => x = y
    /\ \A x \in recordVersion :
          x.first \in EvidenceOf(Committed) /\ RowOf(x.first) = x.variant

\* The disposition of a receipt is the one _resolve_entity gave it when it
\* last resolved the receipt's entity, and nothing has outdated it since.
DispositionsAreCurrent ==
    /\ \A d \in Committed : \A r \in ReceiptsOf(d) : disposition[r] =
          IF RowOf(r) = InvalidRow THEN "QUARANTINED"
          ELSE Reclassify(resolution[RowOf(r).entity], RowOf(r),
                          RowFor(r) \in recordVersion)
    /\ \A d \in Delivery \ Committed : \A r \in ReceiptsOf(d) :
          disposition[r] = "NONE"

\* What the transaction of w holds back until it commits.
StagedFor(w) ==
    /\ pc[w] \in {"resolve", "commit"} =>
          staged[w].variants \cap KnownVariants = {}
    /\ pc[w] = "resolve" => \A r \in Receipt : staged[w].disposition[r] =
          IF r \notin ReceiptsOf(job[w]) THEN "NONE"
          ELSE IF RowOf(r) = InvalidRow THEN "QUARANTINED" ELSE "PENDING"
    /\ pc[w] = "commit" => \A r \in Receipt : staged[w].disposition[r] =
          IF /\ r \in EvidenceOf(Committed \cup {job[w]})
             /\ RowOf(r).entity \in Touched(job[w])
          THEN Reclassify(staged[w].resolution[RowOf(r).entity], RowOf(r),
                          RowFor(r) \in VisibleRows(w))
          ELSE IF r \in ReceiptsOf(job[w]) THEN "QUARANTINED" ELSE "NONE"

StagedIsComplete == \A w \in Ingester : StagedFor(w)

DispositionInv == HistoryIsUnique /\ DispositionsAreCurrent /\ StagedIsComplete

LEMMA EvidenceReceipts ==
    ASSUME NEW B \in SUBSET Batch
    PROVE  \A r \in EvidenceOf(B) :
              /\ r \in Receipt /\ r[1] \in B /\ r \in ReceiptsOf(r[1])
              /\ RowOf(r) # InvalidRow /\ RowOf(r) \in Variant
BY ValidReceiptsType, ReceiptBatch DEF EvidenceOf, ValidReceipts

\* Steps that leave the committed rows and a resolving transaction alone.
LEMMA DispositionQuietStep ==
    ASSUME IngestInv, DispositionInv, UNCHANGED <<recordVersion, resolution>>,
           \A d \in Delivery :
              /\ batch'[d] = batch[d]
              /\ \A r \in ReceiptsOf(d) : disposition'[r] = disposition[r],
           \A w \in Ingester : pc'[w] \in {"resolve", "commit"} =>
              pc'[w] = pc[w] /\ job'[w] = job[w] /\ staged'[w] = staged[w]
    PROVE  DispositionInv'
<1>1. Committed' = Committed /\ KnownVariants' = KnownVariants
  BY DEF Committed, KnownVariants
<1>2. HistoryIsUnique'
  BY <1>1 DEF DispositionInv, HistoryIsUnique
<1>3. DispositionsAreCurrent'
  <2>1. Committed \subseteq Delivery
    BY DEF Committed
  <2>. QED  BY <1>1, <2>1 DEF DispositionInv, DispositionsAreCurrent
<1>4. ASSUME NEW w \in Ingester, pc'[w] \in {"resolve", "commit"}
      PROVE  /\ pc'[w] = pc[w] /\ job'[w] = job[w] /\ staged'[w] = staged[w]
             /\ VisibleRows(w)' = VisibleRows(w)
  BY <1>4 DEF VisibleRows
<1>5. ASSUME NEW w \in Ingester  PROVE StagedFor(w)'
  BY <1>1, <1>4 DEF DispositionInv, StagedIsComplete, StagedFor
<1>6. StagedIsComplete'
  BY <1>5 DEF StagedIsComplete
<1>. QED  BY <1>2, <1>3, <1>6 DEF DispositionInv

LEMMA InsertRowsDisposition ==
    ASSUME IngestInv, DispositionInv, NEW w \in Ingester, InsertRows(w)
    PROVE  DispositionInv'
<1>1. /\ UNCHANGED <<storeVars, job>>
      /\ pc'[w] = "resolve" /\ staged'[w].variants = NewVariants(job[w])
      /\ \A x \in Ingester \ {w} : pc'[x] = pc[x] /\ staged'[x] = staged[x]
      /\ \A r \in Receipt : staged'[w].disposition[r] =
            IF r \notin ReceiptsOf(job[w]) THEN "NONE"
            ELSE IF RowOf(r) = InvalidRow THEN "QUARANTINED" ELSE "PENDING"
  BY DEF InsertRows, IngestInv, IngestTypeInv, IngestTypeOK
<1>2. Committed' = Committed /\ KnownVariants' = KnownVariants
  BY <1>1 DEF Committed, KnownVariants, storeVars
<1>3. HistoryIsUnique' /\ DispositionsAreCurrent'
  BY <1>1, <1>2 DEF DispositionInv, HistoryIsUnique, DispositionsAreCurrent,
     storeVars
<1>4. \A x \in Ingester \ {w} : VisibleRows(x)' = VisibleRows(x)
  BY <1>1 DEF VisibleRows, storeVars
<1>5. ASSUME NEW x \in Ingester  PROVE StagedFor(x)'
  BY <1>1, <1>2, <1>4 DEF DispositionInv, StagedIsComplete, StagedFor, NewVariants
<1>. QED  BY <1>3, <1>5 DEF DispositionInv, StagedIsComplete

\* The reclassification covers the receipts of the touched entities.
LEMMA ResolveTouchedDisposition ==
    ASSUME IngestInv, DispositionInv, NEW w \in Ingester, ResolveTouched(w)
    PROVE  DispositionInv'
<1>. DEFINE rows == VisibleRows(w)
            res(e) == ResolveEntity({v \in {x.variant : x \in rows} :
                                        v.entity = e})
            Ranked(r) == \E e \in Touched(job[w]) : r \in RankedReceipts(w, e)
            E == [e \in Entity |->
                    IF e \in Touched(job[w]) THEN res(e) ELSE NoResolution]
            D == [r \in Receipt |->
                   IF Ranked(r)
                   THEN Reclassify(res(RowOf(r).entity), RowOf(r),
                            [variant |-> RowOf(r), first |-> r] \in rows)
                   ELSE staged[w].disposition[r]]
<1>1. /\ UNCHANGED <<storeVars, job>>
      /\ pc[w] = "resolve" /\ pc'[w] = "commit"
      /\ staged'[w].variants = staged[w].variants
      /\ \A x \in Ingester \ {w} : pc'[x] = pc[x] /\ staged'[x] = staged[x]
  BY DEF ResolveTouched, IngestInv, IngestTypeInv, IngestTypeOK
<1>2. staged'[w].disposition = D /\ staged'[w].resolution = E
  BY DEF ResolveTouched, IngestInv, IngestTypeInv, IngestTypeOK
<1>3. Committed' = Committed /\ KnownVariants' = KnownVariants
  BY <1>1 DEF Committed, KnownVariants, storeVars
<1>4. \A x \in Ingester : VisibleRows(x)' = VisibleRows(x)
  BY <1>1 DEF VisibleRows, storeVars
<1>5. HistoryIsUnique' /\ DispositionsAreCurrent'
  BY <1>1, <1>3 DEF DispositionInv, HistoryIsUnique, DispositionsAreCurrent,
     storeVars
<1>6. Touched(job[w]) \subseteq Entity
  BY ValidReceiptsType DEF IngestInv, IngestTypeInv, IngestTypeOK, Batch
<1>7. \A r : Ranked(r) <=>
         /\ r \in EvidenceOf(Committed \cup {job[w]})
         /\ RowOf(r).entity \in Touched(job[w])
  BY DEF RankedReceipts, EvidenceOf
<1>8. \A r \in Receipt : Ranked(r) =>
         D[r] = Reclassify(E[RowOf(r).entity], RowOf(r), RowFor(r) \in rows)
  <2>. HIDE DEF res, rows
  <2>. QED  BY <1>6, <1>7 DEF RowFor
<1>9. ASSUME NEW r \in Receipt, ~Ranked(r)
      PROVE  D[r] = IF r \in ReceiptsOf(job[w]) THEN "QUARANTINED" ELSE "NONE"
  <2>1. D[r] = staged[w].disposition[r]
    BY <1>9
  <2>2. r \in ReceiptsOf(job[w]) => RowOf(r) = InvalidRow
    BY <1>7, <1>9 DEF EvidenceOf, ValidReceipts, Touched
  <2>. QED  BY <1>1, <2>1, <2>2 DEF DispositionInv, StagedIsComplete, StagedFor
<1>. HIDE DEF rows, Ranked, D, E
<1>10. \A r \in Receipt : staged'[w].disposition[r] =
         IF /\ r \in EvidenceOf(Committed \cup {job[w]})
            /\ RowOf(r).entity \in Touched(job[w])
         THEN Reclassify(staged'[w].resolution[RowOf(r).entity], RowOf(r),
                         RowFor(r) \in VisibleRows(w))
         ELSE IF r \in ReceiptsOf(job[w]) THEN "QUARANTINED" ELSE "NONE"
  BY <1>2, <1>7, <1>8, <1>9 DEF rows
<1>11. StagedFor(w)'
  BY <1>1, <1>3, <1>4, <1>10 DEF DispositionInv, StagedIsComplete, StagedFor
<1>12. ASSUME NEW x \in Ingester \ {w}  PROVE StagedFor(x)'
  BY <1>1, <1>3, <1>4 DEF DispositionInv, StagedIsComplete, StagedFor
<1>. QED  BY <1>5, <1>11, <1>12 DEF DispositionInv, StagedIsComplete

\* The rows that a commit adds to the history are about touched entities.
LEMMA NewRowsAreTouched ==
    ASSUME IngestInv, NEW w \in Ingester, NEW x \in VisibleRows(w),
           x \notin recordVersion
    PROVE  /\ x.variant \in staged[w].variants
           /\ x.variant.entity \in Touched(job[w])
           /\ x = FirstRow(job[w], x.variant)
           /\ x.first \in ValidReceipts(job[w]) /\ RowOf(x.first) = x.variant
<1>1. job[w] \in Batch /\ staged[w].variants \subseteq DeliveredVariants(job[w])
  BY DEF IngestInv, IngestTypeInv, IngestTypeOK, StagedIsDelivered, Batch
<1>2. PICK v \in staged[w].variants : x = FirstRow(job[w], v)
  BY DEF VisibleRows
<1>3. /\ x.variant = v /\ x.first \in ValidReceipts(job[w])
      /\ RowOf(x.first) = v
  BY <1>1, <1>2, FirstRowType
<1>4. v.entity \in Touched(job[w])
  BY <1>1, <1>2, ValidReceiptsType
<1>. QED  BY <1>2, <1>3, <1>4

LEMMA CommitIngestionDisposition ==
    ASSUME IngestInv, DispositionInv, NEW w \in Ingester, CommitIngestion(w)
    PROVE  DispositionInv'
<1>. DEFINE d == job[w]
            D == staged[w].disposition
<1>1. /\ pc[w] = "commit" /\ EndTransaction(w) /\ d \in Delivery /\ d \in Batch
      /\ batch' = [batch EXCEPT ![d] = "COMMITTED"]
      /\ recordVersion' = VisibleRows(w)
      /\ \A e \in Entity : resolution'[e] =
            IF e \in Touched(d) THEN staged[w].resolution[e] ELSE resolution[e]
      /\ \A r \in Receipt :
            disposition'[r] = IF D[r] # "NONE" THEN D[r] ELSE disposition[r]
  BY DEF CommitIngestion, IngestInv, IngestTypeInv, IngestTypeOK, Batch
<1>2. Committed' = Committed \cup {d} /\ Committed \subseteq Batch
  BY <1>1 DEF Committed, Batch, IngestInv, IngestTypeInv, IngestTypeOK
<1>3. d \notin Committed
  BY <1>1 DEF IngestInv, DeliveryIsNew, Committed
<1>4. StagedIsComplete'
  <2>1. \A x \in Ingester : pc'[x] \notin {"resolve", "commit"}
    BY <1>1 DEF EndTransaction, IngestInv, IngestTypeInv, IngestTypeOK,
                LockIsHeld, Holding
  <2>. QED  BY <2>1 DEF StagedIsComplete, StagedFor
<1>5. HistoryIsUnique'
  <2>1. staged[w].variants \cap KnownVariants = {}
    BY <1>1 DEF DispositionInv, StagedIsComplete, StagedFor
  <2>2. \A x, y \in VisibleRows(w) : x.variant = y.variant => x = y
    BY <2>1, NewRowsAreTouched DEF DispositionInv, HistoryIsUnique, KnownVariants
  <2>3. \A x \in VisibleRows(w) :
           x.first \in EvidenceOf(Committed') /\ RowOf(x.first) = x.variant
    BY <1>2, NewRowsAreTouched DEF DispositionInv, HistoryIsUnique, EvidenceOf
  <2>. QED  BY <1>1, <2>2, <2>3 DEF HistoryIsUnique
<1>6. \A r \in Receipt : D[r] =
         IF r \in EvidenceOf(Committed') /\ RowOf(r).entity \in Touched(d)
         THEN Reclassify(staged[w].resolution[RowOf(r).entity], RowOf(r),
                         RowFor(r) \in VisibleRows(w))
         ELSE IF r \in ReceiptsOf(d) THEN "QUARANTINED" ELSE "NONE"
  BY <1>1, <1>2 DEF DispositionInv, StagedIsComplete, StagedFor
<1>. HIDE DEF D
<1>7. Touched(d) \subseteq Entity
  BY <1>1, ValidReceiptsType
<1>8. ASSUME NEW c \in Committed', NEW r \in ReceiptsOf(c)
      PROVE  disposition'[r] =
                IF RowOf(r) = InvalidRow THEN "QUARANTINED"
                ELSE Reclassify(resolution'[RowOf(r).entity], RowOf(r),
                                RowFor(r) \in recordVersion')
  <2>1. /\ c \in Batch /\ r \in Receipt /\ r[1] = c
        /\ r \in ReceiptsOf(d) => c = d
    BY <1>1, <1>2, RowsType, ReceiptBatch
  <2>2. CASE RowOf(r) = InvalidRow
    <3>1. r \notin EvidenceOf(Committed')
      BY <2>2 DEF EvidenceOf, ValidReceipts
    <3>2. CASE c = d
      BY <1>1, <1>6, <2>1, <2>2, <3>1, <3>2
    <3>3. CASE c # d
      <4>1. c \in Committed /\ disposition[r] = "QUARANTINED"
        BY <1>2, <2>2, <3>3 DEF DispositionInv, DispositionsAreCurrent
      <4>. QED  BY <1>1, <1>6, <2>1, <2>2, <3>1, <3>3, <4>1
    <3>. QED  BY <3>2, <3>3
  <2>3. CASE RowOf(r) # InvalidRow /\ RowOf(r).entity \in Touched(d)
    <3>1. r \in EvidenceOf(Committed')
      BY <2>3 DEF EvidenceOf, ValidReceipts
    <3>2. D[r] = Reclassify(staged[w].resolution[RowOf(r).entity], RowOf(r),
                            RowFor(r) \in VisibleRows(w))
      BY <1>6, <2>1, <2>3, <3>1
    <3>3. D[r] # "NONE"
      BY <3>2, ReclassifyType
    <3>. QED  BY <1>1, <1>7, <2>1, <2>3, <3>2, <3>3
  <2>4. CASE RowOf(r) # InvalidRow /\ RowOf(r).entity \notin Touched(d)
    <3>1. c # d /\ c \in Committed
      BY <1>2, <2>4 DEF Touched, ValidReceipts
    <3>2. D[r] = "NONE"
      BY <1>6, <2>1, <2>4, <3>1
    <3>3. RowOf(r).entity \in Entity
      BY <2>1, <2>4, RowsType DEF Variant
    <3>4. RowFor(r) \in VisibleRows(w) <=> RowFor(r) \in recordVersion
      <4>1. RowFor(r).variant = RowOf(r)
        BY DEF RowFor
      <4>. QED  BY <2>4, <4>1, NewRowsAreTouched DEF VisibleRows
    <3>. QED  BY <1>1, <2>1, <2>4, <3>1, <3>2, <3>3, <3>4
              DEF DispositionInv, DispositionsAreCurrent
  <2>. QED  BY <2>2, <2>3, <2>4
<1>9. ASSUME NEW c \in Delivery \ Committed', NEW r \in ReceiptsOf(c)
      PROVE  disposition'[r] = "NONE"
  <2>1. /\ c \in Batch /\ c # d /\ c \notin Committed
        /\ r \in Receipt /\ r[1] = c /\ r \notin ReceiptsOf(d)
    BY <1>2, RowsType, ReceiptBatch DEF Batch
  <2>2. r \notin EvidenceOf(Committed')
    <3>1. Committed' \in SUBSET Batch
      BY <1>1, <1>2
    <3>. QED  BY <1>9, <2>1, <3>1, EvidenceReceipts
  <2>. QED  BY <1>1, <1>6, <2>1, <2>2 DEF DispositionInv, DispositionsAreCurrent
<1>10. DispositionsAreCurrent'
  BY <1>8, <1>9 DEF DispositionsAreCurrent
<1>. QED  BY <1>4, <1>5, <1>10 DEF DispositionInv

LEMMA RecordDeliveryDisposition ==
    ASSUME IngestInv, DispositionInv, NEW b \in LedgerDelivery, RecordDelivery(b)
    PROVE  DispositionInv'
<1>1. b \in Batch /\ b \notin Delivery
  BY StoreAssumption DEF Batch
<1>2. /\ UNCHANGED <<recordVersion, resolution, ingestVars>>
      /\ \A d \in Delivery : batch'[d] = batch[d]
      /\ \A r \in Receipt : r \notin ReceiptsOf(b) => disposition'[r] = disposition[r]
  BY <1>1 DEF RecordDelivery, IngestInv, IngestTypeInv, IngestTypeOK, Batch
<1>3. ASSUME NEW d \in Delivery, NEW r \in ReceiptsOf(d)
      PROVE  disposition'[r] = disposition[r]
  <2>1. d \in Batch /\ d # b
    BY <1>1 DEF Batch
  <2>2. r \in Receipt /\ r \notin ReceiptsOf(b)
    BY <2>1, RowsType, ReceiptBatch
  <2>. QED  BY <1>2, <2>2
<1>. QED  BY <1>2, <1>3, DispositionQuietStep DEF ingestVars

LEMMA DispositionInvStep ==
    ASSUME IngestInv, DispositionInv, [IngestNext]_<<storeVars, ingestVars>>
    PROVE  DispositionInv'
<1>1. ASSUME NEW w \in Ingester,
             \/ \E d \in Delivery : StartIngestion(w, d)
             \/ LockFinancialState(w)
             \/ AcquireEntityLock(w)
             \/ EntityLocksHeld(w)
             \/ NoExistingBatch(w)
      PROVE  DispositionInv'
  <2>1. /\ UNCHANGED <<batch, disposition, recordVersion, resolution, staged>>
        /\ pc'[w] \notin {"resolve", "commit"}
        /\ \A x \in Ingester \ {w} : pc'[x] = pc[x] /\ job'[x] = job[x]
    BY <1>1 DEF StartIngestion, LockFinancialState, AcquireEntityLock,
       EntityLocksHeld, NoExistingBatch, storeVars, IngestInv, IngestTypeInv,
       IngestTypeOK
  <2>. QED  BY <2>1, DispositionQuietStep
<1>2. ASSUME NEW w \in Ingester, ReuseExistingBatch(w) \/ AbortIngestion(w)
      PROVE  DispositionInv'
  <2>1. /\ UNCHANGED <<batch, disposition, recordVersion, resolution>>
        /\ EndTransaction(w)
    BY <1>2 DEF ReuseExistingBatch, AbortIngestion
  <2>2. /\ pc'[w] \notin {"resolve", "commit"} /\ job' = job
        /\ \A x \in Ingester \ {w} : pc'[x] = pc[x] /\ staged'[x] = staged[x]
    BY <2>1 DEF EndTransaction, IngestInv, IngestTypeInv, IngestTypeOK
  <2>. QED  BY <2>1, <2>2, DispositionQuietStep
<1>3. CASE (Tick /\ UNCHANGED ingestVars) \/ UNCHANGED <<storeVars, ingestVars>>
  <2>1. UNCHANGED <<batch, disposition, recordVersion, resolution, ingestVars>>
    BY <1>3 DEF Tick, storeVars
  <2>. QED  BY <2>1, DispositionQuietStep DEF ingestVars
<1>. QED  BY <1>1, <1>2, <1>3, InsertRowsDisposition, ResolveTouchedDisposition,
             CommitIngestionDisposition, RecordDeliveryDisposition
          DEF IngestNext, IngesterStep

LEMMA DispositionInvInit ==
    ASSUME StoreInit, IngestInit  PROVE DispositionInv
<1>1. Committed = {}
  BY DEF StoreInit, Committed, Batch
<1>2. DispositionsAreCurrent
  <2>1. \A d \in Delivery : \A r \in ReceiptsOf(d) : r \in Receipt
    BY RowsType DEF Batch
  <2>. QED  BY <1>1, <2>1 DEF StoreInit, DispositionsAreCurrent
<1>3. HistoryIsUnique /\ StagedIsComplete
  BY DEF StoreInit, IngestInit, HistoryIsUnique, StagedIsComplete, StagedFor
<1>. QED  BY <1>2, <1>3 DEF DispositionInv

LEMMA DispositionInvariant == IngestSpec => [](IngestInv /\ DispositionInv)
<1>1. LedgerInit => DispositionInv
  BY DispositionInvInit DEF LedgerInit
<1>2. IngestInv /\ DispositionInv /\ [IngestNext]_<<storeVars, ingestVars>>
         => DispositionInv'
  BY DispositionInvStep
<1>. QED  BY <1>1, <1>2, IngestInvariant, PTL DEF IngestSpec

\* The receipts of an entity and the row that resolves it, put side by side.
LEMMA ResolvedVariants ==
    ASSUME IngestInv, NEW r \in EvidenceOf(Committed)
    PROVE  LET e == RowOf(r).entity
               V == VariantsIn(Committed, e)
           IN  /\ RowOf(r) \in V /\ V \in SUBSET Variant /\ e \in Entity
               /\ resolution[e] =
                     [state   |-> IF IsConflicted(V) THEN "CONFLICTED" ELSE "ACCEPTED",
                      version |-> WinningVersion(V),
                      hash    |-> CanonicalHash(V)]
               /\ WinningVersion(V) \in Int /\ RowOf(r).version \in Int
<1>. DEFINE e == RowOf(r).entity
            V == VariantsIn(Committed, e)
<1>1. Committed \in SUBSET Batch
  BY DEF Committed, Batch
<1>2. RowOf(r) \in Variant /\ e \in Entity
  BY <1>1, EvidenceReceipts DEF Variant
<1>3. RowOf(r) \in V
  BY DEF VariantsIn, EvidenceOf
<1>4. V \in SUBSET Variant
  BY <1>1, ValidReceiptsType DEF VariantsIn
<1>5. ResolutionMatchesCanonical
  BY CanonicalFromInv
<1>6. resolution[e] =
         [state   |-> IF IsConflicted(V) THEN "CONFLICTED" ELSE "ACCEPTED",
          version |-> WinningVersion(V),
          hash    |-> CanonicalHash(V)]
  <2>1. V # {}
    BY <1>3
  <2>2. IF V = {} THEN resolution[e] = NoResolution
        ELSE resolution[e] =
               [state   |-> IF IsConflicted(V) THEN "CONFLICTED" ELSE "ACCEPTED",
                version |-> WinningVersion(V),
                hash    |-> CanonicalHash(V)]
    BY <1>2, <1>5 DEF ResolutionMatchesCanonical
  <2>. HIDE DEF V
  <2>. QED  BY <2>1, <2>2
<1>7. resolution[e] \in Resolution
  BY <1>2 DEF IngestInv, IngestTypeInv, IngestTypeOK
<1>8. WinningVersion(V) \in Int
  <2>. HIDE DEF V, e
  <2>. QED  BY <1>6, <1>7 DEF Resolution
<1>9. RowOf(r).version \in Int
  <2>1. RowOf(r).version \in Version
    BY <1>2 DEF Variant
  <2>2. \A n \in Version : n \in Int
    BY StoreAssumption, MaxVersionNat
  <2>. QED  BY <2>1, <2>2
<1>. QED  BY <1>2, <1>3, <1>4, <1>6, <1>8, <1>9

\* Of the receipts of an accepted entity, exactly the one its history row
\* names is ACCEPTED.
LEMMA OneAcceptedReceipt ==
    ASSUME IngestInv, DispositionInv, NEW e \in Entity,
           resolution[e].state = "ACCEPTED"
    PROVE  \E r \in EvidenceOf(Committed) :
              /\ RowOf(r).entity = e
              /\ RowOf(r).hash = resolution[e].hash
              /\ \A q \in EvidenceOf(Committed) : RowOf(q).entity = e =>
                    (disposition[q] = "ACCEPTED" <=> q = r)
<1>. DEFINE V == VariantsIn(Committed, e)
<1>1. V # {} /\ ~IsConflicted(V)
      /\ resolution[e].version = WinningVersion(V)
      /\ resolution[e].hash = CanonicalHash(V)
  <2>1. IF V = {} THEN resolution[e] = NoResolution
        ELSE resolution[e] =
               [state   |-> IF IsConflicted(V) THEN "CONFLICTED" ELSE "ACCEPTED",
                version |-> WinningVersion(V),
                hash    |-> CanonicalHash(V)]
    BY CanonicalFromInv DEF ResolutionMatchesCanonical
  <2>. HIDE DEF V
  <2>. QED  BY <2>1 DEF NoResolution
<1>2. Committed \in SUBSET Batch
  BY DEF Committed, Batch
<1>3. V \in SUBSET Variant /\ \A v \in V : v.entity = e
  BY <1>2, ValidReceiptsType DEF VariantsIn
<1>4. V = About(KnownVariants, e)
  BY VariantsInDelivered DEF IngestInv, HistoryIsDelivered
<1>. HIDE DEF V
<1>5. PICK u \in V : u.version = WinningVersion(V) /\ u.hash = CanonicalHash(V)
  <2>1. WinningVersion(V) \in {v.version : v \in V}
    <3>1. ResolveEntity(V).version = WinningVersion(V)
      BY <1>1, <1>3, ResolveIsCanonical
    <3>2. ResolveEntity(V).version = HighestVersion(V)
      BY DEF ResolveEntity
    <3>. QED  BY <1>1, <1>3, <3>1, <3>2, ResolveEntityType
  <2>2. WinningHashes(V) # {}
    BY <2>1 DEF WinningHashes
  <2>3. CanonicalHash(V) \in WinningHashes(V)
    BY <1>1, <2>2 DEF CanonicalHash
  <2>. QED  BY <2>3 DEF WinningHashes
<1>6. ASSUME NEW v \in V, v.version = WinningVersion(V)  PROVE v = u
  <2>1. v.hash \in WinningHashes(V) /\ u.hash \in WinningHashes(V)
    BY <1>5, <1>6 DEF WinningHashes
  <2>2. v.hash = u.hash
    BY <1>1, <2>1 DEF IsConflicted
  <2>. QED  BY <1>3, <1>5, <1>6, <2>2 DEF Variant
<1>7. PICK x \in recordVersion : x.variant = u
  BY <1>4, <1>5 DEF About, KnownVariants
<1>8. /\ x.first \in EvidenceOf(Committed) /\ RowOf(x.first) = u
      /\ x \in [variant : Variant, first : Receipt]
  BY <1>7 DEF DispositionInv, HistoryIsUnique, IngestInv, IngestTypeInv, IngestTypeOK
<1>9. ASSUME NEW q \in EvidenceOf(Committed), RowOf(q).entity = e
      PROVE  disposition[q] = "ACCEPTED" <=> q = x.first
  <2>1. disposition[q] = Reclassify(resolution[e], RowOf(q), RowFor(q) \in recordVersion)
    <3>1. q[1] \in Committed /\ q \in ReceiptsOf(q[1]) /\ RowOf(q) # InvalidRow
      BY <1>2, EvidenceReceipts
    <3>. QED  BY <1>9, <3>1 DEF DispositionInv, DispositionsAreCurrent
  <2>2. RowOf(q) \in V /\ RowOf(q).version \in Int /\ WinningVersion(V) \in Int
    BY <1>9, ResolvedVariants DEF V
  <2>3. RowOf(q).version <= WinningVersion(V)
    <3>1. WinningVersion(V) = HighestVersion(V)
      <4>1. ResolveEntity(V).version = WinningVersion(V)
        BY <1>1, <1>3, ResolveIsCanonical
      <4>. QED  BY <4>1 DEF ResolveEntity
    <3>. QED  BY <1>1, <1>3, <2>2, <3>1, ResolveEntityType
  <2>4. disposition[q] = "ACCEPTED" <=>
           RowOf(q).version = WinningVersion(V) /\ RowFor(q) \in recordVersion
    <3>1. RowOf(q).version < WinningVersion(V) \/ RowOf(q).version = WinningVersion(V)
      BY <2>2, <2>3
    <3>2. ~(WinningVersion(V) < WinningVersion(V))
      BY <2>2
    <3>. QED  BY <1>1, <2>1, <2>2, <3>1, <3>2 DEF Reclassify
  <2>5. RowFor(q).variant = RowOf(q) /\ RowFor(q).first = q
    BY DEF RowFor
  <2>6. ASSUME disposition[q] = "ACCEPTED"  PROVE q = x.first
    <3>1. RowOf(q) = u
      BY <1>6, <2>2, <2>4, <2>6
    <3>2. RowFor(q) = x
      BY <1>7, <2>4, <2>5, <2>6, <3>1 DEF DispositionInv, HistoryIsUnique
    <3>. QED  BY <2>5, <3>2
  <2>7. ASSUME q = x.first  PROVE disposition[q] = "ACCEPTED"
    <3>1. RowFor(q) = x
      BY <1>7, <1>8, <2>7 DEF RowFor
    <3>. QED  BY <1>5, <1>7, <1>8, <2>4, <2>7, <3>1
  <2>. QED  BY <2>6, <2>7
<1>. QED  BY <1>1, <1>3, <1>5, <1>8, <1>9

LEMMA DispositionsFromInv ==
    ASSUME IngestInv, DispositionInv  PROVE DispositionsMatchCanonical
<1>1. ASSUME NEW d \in Committed, NEW r \in ReceiptsOf(d), RowOf(r) # InvalidRow
      PROVE  disposition[r] \in
                {EvidenceDisposition(VariantsIn(Committed, RowOf(r).entity),
                                     RowOf(r), b) : b \in BOOLEAN}
  <2>. DEFINE e == RowOf(r).entity
              V == VariantsIn(Committed, e)
              b == RowFor(r) \in recordVersion
  <2>1. r \in EvidenceOf(Committed)
    BY <1>1 DEF EvidenceOf, ValidReceipts
  <2>2. /\ resolution[e] =
              [state   |-> IF IsConflicted(V) THEN "CONFLICTED" ELSE "ACCEPTED",
               version |-> WinningVersion(V),
               hash    |-> CanonicalHash(V)]
        /\ WinningVersion(V) \in Int /\ RowOf(r).version \in Int
    BY <2>1, ResolvedVariants
  <2>3. disposition[r] = Reclassify(resolution[e], RowOf(r), b)
    BY <1>1 DEF DispositionInv, DispositionsAreCurrent
  <2>. HIDE DEF V, e
  <2>4. /\ resolution[e].version = WinningVersion(V)
        /\ resolution[e].state = "CONFLICTED" <=> IsConflicted(V)
    BY <2>2
  <2>5. Reclassify(resolution[e], RowOf(r), b) = EvidenceDisposition(V, RowOf(r), b)
    <3>1. CASE RowOf(r).version < WinningVersion(V)
      BY <2>2, <2>4, <3>1 DEF Reclassify, EvidenceDisposition
    <3>2. CASE ~(RowOf(r).version < WinningVersion(V))
      <4>1. RowOf(r).version >= WinningVersion(V)
        BY <2>2, <3>2
      <4>. QED  BY <2>4, <3>2, <4>1 DEF Reclassify, EvidenceDisposition
    <3>. QED  BY <3>1, <3>2
  <2>6. b \in BOOLEAN
    OBVIOUS
  <2>. HIDE DEF b
  <2>. QED  BY <2>3, <2>5, <2>6 DEF V, e
<1>2. \A d \in Committed : \A r \in ReceiptsOf(d) :
         RowOf(r) = InvalidRow => disposition[r] = "QUARANTINED"
  BY DEF DispositionInv, DispositionsAreCurrent
<1>3. \A d \in Delivery \ Committed : \A r \in ReceiptsOf(d) : disposition[r] = "NONE"
  BY DEF DispositionInv, DispositionsAreCurrent
<1>. QED  BY <1>1, <1>2, <1>3, OneAcceptedReceipt
          DEF DispositionsMatchCanonical, EvidenceOf

\* However often later deliveries reclassify it, each receipt of a committed
\* delivery has the disposition canonicalize assigns to it now, exactly one
\* receipt of an accepted entity is ACCEPTED, and an uncommitted delivery has
\* left no receipt.
THEOREM DispositionsCorrect == IngestSpec => []DispositionsMatchCanonical
<1>1. IngestInv /\ DispositionInv => DispositionsMatchCanonical
  BY DispositionsFromInv
<1>. QED  BY <1>1, DispositionInvariant, PTL

ImmutableStep ==
    /\ recordVersion \subseteq recordVersion'
    /\ \A x, y \in recordVersion' : x.variant = y.variant => x = y
    /\ \A d \in Committed :
          batch'[d] = "COMMITTED" /\ receivedAt'[d] = receivedAt[d]

LEMMA EveryStepIsImmutable ==
    ASSUME IngestInv, DispositionInv, DispositionInv',
           [IngestNext]_<<storeVars, ingestVars>>
    PROVE  ImmutableStep
<1>1. \A x, y \in recordVersion' : x.variant = y.variant => x = y
  BY DEF DispositionInv, HistoryIsUnique
<1>2. ASSUME NEW w \in Ingester, CommitIngestion(w)
      PROVE  /\ recordVersion \subseteq recordVersion'
             /\ \A d \in Committed :
                   batch'[d] = "COMMITTED" /\ receivedAt'[d] = receivedAt[d]
  <2>1. /\ recordVersion' = VisibleRows(w) /\ pc[w] = "commit"
        /\ batch' = [batch EXCEPT ![job[w]] = "COMMITTED"]
        /\ receivedAt' = [receivedAt EXCEPT ![job[w]] = asOf[w]]
    BY <1>2 DEF CommitIngestion
  <2>2. job[w] \notin Committed
    BY <2>1 DEF IngestInv, DeliveryIsNew, Committed
  <2>. QED  BY <2>1, <2>2 DEF VisibleRows, Committed, Batch, IngestInv,
               IngestTypeInv, IngestTypeOK
<1>3. ASSUME NEW b \in LedgerDelivery, RecordDelivery(b)
      PROVE  /\ recordVersion' = recordVersion
             /\ \A d \in Committed :
                   batch'[d] = "COMMITTED" /\ receivedAt'[d] = receivedAt[d]
  BY <1>3 DEF RecordDelivery, Committed, Batch, IngestInv, IngestTypeInv,
     IngestTypeOK
<1>4. CASE UNCHANGED <<recordVersion, batch, receivedAt>>
  BY <1>1, <1>4 DEF ImmutableStep, Committed
<1>5. \/ UNCHANGED <<recordVersion, batch, receivedAt>>
      \/ \E w \in Ingester : CommitIngestion(w)
      \/ \E b \in LedgerDelivery : RecordDelivery(b)
  BY DEF IngestNext, IngesterStep, StartIngestion, LockFinancialState,
     AcquireEntityLock, EntityLocksHeld, ReuseExistingBatch, NoExistingBatch,
     InsertRows, ResolveTouched, AbortIngestion, Tick, storeVars
<1>. QED  BY <1>1, <1>2, <1>3, <1>4, <1>5 DEF ImmutableStep

\* No step of an ingester or of the older writer withdraws a committed batch,
\* changes its receipt time, or drops, changes or doubles a row of the history.
THEOREM HistoryCorrect == IngestSpec => HistoryIsImmutable
<1>1. IngestInv /\ DispositionInv /\ DispositionInv'
      /\ [IngestNext]_<<storeVars, ingestVars>> => ImmutableStep
  BY EveryStepIsImmutable
<1>. QED  BY <1>1, DispositionInvariant, PTL
          DEF IngestSpec, HistoryIsImmutable, ImmutableStep
=============================================================================
