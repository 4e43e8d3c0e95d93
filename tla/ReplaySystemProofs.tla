------------------------- MODULE ReplaySystemProofs -------------------------
(***************************************************************************)
(* Proofs about the composition of ingestion and recovery.                 *)
(***************************************************************************)
EXTENDS ReplaySystem, DurableIngestionProofs

\* A recovery worker holds the financial lock from pg_advisory_lock to the
\* end of its session.
WorkerHoldsLock == \A w \in Recoverer : rpc[w] # "idle" => financialLock = w

ReplayTypeInv ==
    /\ IngestInv
    /\ RecoveryTypeOK
    /\ financialLock \in Ingester \cup Recoverer \cup {NoOne}
    /\ WorkerHoldsLock

-----------------------------------------------------------------------------
(* Typing *)

LEMMA RequestRowTypes ==
    ASSUME NEW q \in Request, now \in Nat
    PROVE  /\ RequeuedRow(q) \in Request
           /\ FailedRow(q) \in Request
           /\ RequeuedRow(q).status # "NONE"
           /\ FailedRow(q).status # "NONE"
<1>1. NextAttemptAt(q.attempts + 1) \in Nat
  <2>1. q.attempts \in Nat
    BY DEF Request
  <2>2. RetryDelay(q.attempts + 1) \in Nat
    <3>1. \A i \in 1 .. 13 : PowersOfTwo[i] \in Nat
      BY DEF PowersOfTwo
    <3>2. (IF q.attempts + 1 <= 13 THEN q.attempts + 1 ELSE 13) \in 1 .. 13
      BY <2>1
    <3>. DEFINE p == PowersOfTwo[IF q.attempts + 1 <= 13 THEN q.attempts + 1 ELSE 13]
    <3>3. p \in Nat
      BY <3>1, <3>2
    <3>. HIDE DEF p
    <3>4. BaseDelay * p \in Nat /\ MaxRetryDelay \in Nat
      BY <3>3, QueueAssumption
    <3>. QED  BY <3>4 DEF RetryDelay, p
  <2>. QED  BY <2>2, StoreAssumption DEF NextAttemptAt
<1>2. RequeuedRow(q) \in Request /\ RequeuedRow(q).status # "NONE"
  <2>1. q.attempts + ExtraAttempts \in Nat
    BY QueueAssumption DEF Request
  <2>. QED  BY <2>1 DEF Request, RequeuedRow
<1>3. FailedRow(q) \in Request /\ FailedRow(q).status # "NONE"
  <2>. DEFINE x == q.attempts + 1 >= q.max
              n == NextAttemptAt(q.attempts + 1)
  <2>1. q.attempts + 1 \in Nat /\ x \in BOOLEAN
    BY DEF Request
  <2>2. FailedRow(q) =
          [status |-> IF x THEN "FAILED" ELSE "PENDING", asOf |-> q.asOf,
           attempts |-> q.attempts + 1, max |-> q.max, nextAt |-> n,
           run |-> q.run, completed |-> x, error |-> TRUE]
    BY DEF FailedRow
  <2>. HIDE DEF x, n
  <2>. QED  BY <1>1, <2>1, <2>2 DEF Request, n
<1>. QED  BY <1>2, <1>3

\* The part of the state that recovery workers leave to ingesters stays
\* correct under every step of a worker.
LEMMA WorkerKeepsIngestInv ==
    ASSUME ReplayTypeInv, UNCHANGED ingestVars,
           UNCHANGED <<batch, receivedAt, disposition, recordVersion,
                       resolution, now>>,
           request' \in [Delivery -> Request],
           \A d \in Delivery :
              request'[d].status = "NONE" <=> request[d].status = "NONE",
           \A w \in Ingester : financialLock = w => financialLock' = w
    PROVE  IngestInv'
<1>1. IngestTypeInv'
  BY DEF ReplayTypeInv, IngestInv, IngestTypeInv, IngestTypeOK,
         StagedIsDelivered, ingestVars, KnownVariants
<1>2. LockIsHeld' /\ DeliveryIsNew'
  BY DEF ReplayTypeInv, IngestInv, LockIsHeld, DeliveryIsNew, ingestVars
<1>. QED  BY <1>1, <1>2, QuietStep DEF ReplayTypeInv, ingestVars
-----------------------------------------------------------------------------
(* Which receipts are evidence *)

\* Exactly the rows that violate their contract are quarantined.
Sorted(D, d) ==
    \A r \in ReceiptsOf(d) : D[r] = "QUARANTINED" <=> RowOf(r) = InvalidRow

\* Reclassification reaches receipts of committed deliveries only.
StagedIsSorted ==
    \A w \in Ingester : pc[w] \in {"resolve", "commit"} =>
        /\ Sorted(staged[w].disposition, job[w])
        /\ \A r \in ReceiptsOf(job[w]) : staged[w].disposition[r] # "NONE"
        /\ \A r \in Receipt \ ReceiptsOf(job[w]) :
              staged[w].disposition[r] # "NONE" =>
                 /\ staged[w].disposition[r] # "QUARANTINED"
                 /\ RowOf(r) # InvalidRow
                 /\ r[1] \in Committed

EvidenceInv ==
    /\ \A d \in Committed : Sorted(disposition, d)
    /\ \A b \in LedgerDelivery :
          /\ batch[b] # "COMMITTED"
          /\ batch[b] = "FAILED" =>
                \A r \in ReceiptsOf(b) : disposition[r] = "QUARANTINED"
    /\ StagedIsSorted

\* What build_candidate reads is what the committed deliveries hold.
LEMMA EnvelopesAreDelivered ==
    ASSUME IngestInv, EvidenceInv, NEW e
    PROVE  EnvelopesOf(e) = VariantsIn(Committed, e)
<1>1. ASSUME NEW r, NEW b \in FinalBatches, r \in ReceiptsOf(b),
             disposition[r] # "QUARANTINED"
      PROVE  b \in Committed /\ r \in ValidReceipts(b)
  <2>1. b \in Delivery => b \in Committed
    BY DEF FinalBatches, Committed, IngestInv, RetryFindsWholeDelivery,
           ExistingIsBroken
  <2>2. b \notin LedgerDelivery
    BY <1>1 DEF FinalBatches, EvidenceInv
  <2>3. b \in Committed
    BY <2>1, <2>2 DEF FinalBatches, Batch
  <2>. QED  BY <1>1, <2>3 DEF EvidenceInv, Sorted, ValidReceipts
<1>2. ASSUME NEW b \in Committed, NEW r \in ValidReceipts(b)
      PROVE  b \in FinalBatches /\ r \in ReceiptsOf(b) /\
             disposition[r] # "QUARANTINED"
  BY DEF Committed, FinalBatches, Batch, EvidenceInv, Sorted, ValidReceipts
<1>3. {q \in UNION {ReceiptsOf(b) : b \in FinalBatches} :
          disposition[q] # "QUARANTINED" /\ RowOf(q).entity = e} =
      {q \in UNION {ValidReceipts(b) : b \in Committed} : RowOf(q).entity = e}
  BY <1>1, <1>2
<1>. QED  BY <1>3 DEF EnvelopesOf, VariantsIn

LEMMA ViewType ==
    ASSUME NEW B \in SUBSET Batch
    PROVE  [e \in Entity |-> CanonicalHash(VariantsIn(B, e))] \in View
<1>. SUFFICES ASSUME NEW e \in Entity
              PROVE  CanonicalHash(VariantsIn(B, e)) \in Hash \cup {NoHash}
  BY DEF View
<1>. DEFINE V == VariantsIn(B, e)
<1>1. V \in SUBSET Variant
  BY ValidReceiptsType DEF VariantsIn
<1>2. CASE V = {}
  BY <1>2 DEF CanonicalHash
<1>3. CASE V # {}
  <2>1. ResolveEntity(V) \in Resolution
    BY <1>1, <1>3, ResolveEntityType
  <2>2. ResolveEntity(V).hash = CanonicalHash(V)
    BY <1>1, <1>3, ResolveIsCanonical
  <2>. QED  BY <2>1, <2>2 DEF Resolution
<1>. QED  BY <1>2, <1>3

\* Steps that leave dispositions, batches and a resolving transaction alone.
LEMMA EvidenceQuietStep ==
    ASSUME IngestInv, EvidenceInv, UNCHANGED <<batch, disposition>>,
           \A w \in Ingester : pc'[w] \in {"resolve", "commit"} =>
              /\ pc[w] \in {"resolve", "commit"}
              /\ job'[w] = job[w] /\ staged'[w] = staged[w]
    PROVE  EvidenceInv'
<1>1. Committed' = Committed
  BY DEF Committed
<1>. QED  BY <1>1 DEF EvidenceInv, StagedIsSorted, Sorted

LEMMA InsertRowsEvidence ==
    ASSUME IngestInv, EvidenceInv, NEW w \in Ingester, InsertRows(w)
    PROVE  EvidenceInv'
<1>. DEFINE D == staged'[w].disposition
<1>1. /\ UNCHANGED <<batch, disposition, job>>
      /\ \A x \in Ingester \ {w} : pc'[x] = pc[x] /\ staged'[x] = staged[x]
      /\ \A r \in Receipt : D[r] =
            IF r \notin ReceiptsOf(job[w]) THEN "NONE"
            ELSE IF RowOf(r) = InvalidRow THEN "QUARANTINED" ELSE "PENDING"
  BY DEF InsertRows, storeVars, IngestInv, IngestTypeInv, IngestTypeOK
<1>2. Committed' = Committed
  BY <1>1 DEF Committed
<1>3. job[w] \in Batch /\ ReceiptsOf(job[w]) \subseteq Receipt
  BY RowsType DEF IngestInv, IngestTypeInv, IngestTypeOK, Batch
<1>4. Sorted(D, job[w]) /\ \A r \in ReceiptsOf(job[w]) : D[r] # "NONE"
  BY <1>1, <1>3 DEF Sorted
<1>5. \A r \in Receipt \ ReceiptsOf(job[w]) : D[r] = "NONE"
  BY <1>1
<1>. HIDE DEF D
<1>6. StagedIsSorted'
  BY <1>1, <1>2, <1>4, <1>5 DEF EvidenceInv, StagedIsSorted, Sorted, D
<1>. QED  BY <1>1, <1>2, <1>6 DEF EvidenceInv, Sorted

LEMMA ResolveTouchedEvidence ==
    ASSUME IngestInv, EvidenceInv, NEW w \in Ingester, ResolveTouched(w)
    PROVE  EvidenceInv'
<1>. DEFINE D == staged'[w].disposition
            Ranked(r) == \E e \in Touched(job[w]) : r \in RankedReceipts(w, e)
<1>1. /\ UNCHANGED <<batch, disposition, job>>
      /\ pc[w] = "resolve"
      /\ \A x \in Ingester \ {w} : pc'[x] = pc[x] /\ staged'[x] = staged[x]
  BY DEF ResolveTouched, storeVars, IngestInv, IngestTypeInv, IngestTypeOK
<1>2. Committed' = Committed
  BY <1>1 DEF Committed
<1>3. \A r \in Receipt :
         /\ Ranked(r) => D[r] \in {"STALE", "CONFLICTED", "ACCEPTED", "DUPLICATE"}
         /\ ~Ranked(r) => D[r] = staged[w].disposition[r]
  BY ReclassifyType DEF ResolveTouched, IngestInv, IngestTypeInv, IngestTypeOK
<1>4. ASSUME NEW r \in Receipt, Ranked(r)
      PROVE  /\ RowOf(r) # InvalidRow
             /\ r \notin ReceiptsOf(job[w]) => r[1] \in Committed
  BY <1>4, ReceiptBatch DEF RankedReceipts, ValidReceipts
<1>5. job[w] \in Batch /\ ReceiptsOf(job[w]) \subseteq Receipt
  BY RowsType DEF IngestInv, IngestTypeInv, IngestTypeOK, Batch
<1>6. /\ Sorted(staged[w].disposition, job[w])
      /\ \A r \in ReceiptsOf(job[w]) : staged[w].disposition[r] # "NONE"
      /\ \A r \in Receipt \ ReceiptsOf(job[w]) :
            staged[w].disposition[r] # "NONE" =>
                 /\ staged[w].disposition[r] # "QUARANTINED"
                 /\ RowOf(r) # InvalidRow
                 /\ r[1] \in Committed
  BY <1>1 DEF EvidenceInv, StagedIsSorted
<1>. HIDE DEF D, Ranked
<1>7. Sorted(D, job[w]) /\ \A r \in ReceiptsOf(job[w]) : D[r] # "NONE"
  BY <1>3, <1>4, <1>5, <1>6 DEF Sorted
<1>8. \A r \in Receipt \ ReceiptsOf(job[w]) : D[r] # "NONE" =>
         /\ D[r] # "QUARANTINED"
         /\ RowOf(r) # InvalidRow
         /\ r[1] \in Committed
  BY <1>3, <1>4, <1>6
<1>9. StagedIsSorted'
  BY <1>1, <1>2, <1>7, <1>8 DEF EvidenceInv, StagedIsSorted, Sorted, D
<1>. QED  BY <1>1, <1>2, <1>9 DEF EvidenceInv, Sorted

LEMMA CommitIngestionEvidence ==
    ASSUME IngestInv, EvidenceInv, NEW w \in Ingester, CommitIngestion(w)
    PROVE  EvidenceInv'
<1>. DEFINE d == job[w]
            D == staged[w].disposition
<1>1. /\ pc[w] = "commit" /\ EndTransaction(w) /\ d \in Delivery /\ d \in Batch
      /\ batch' = [batch EXCEPT ![d] = "COMMITTED"]
      /\ \A r \in Receipt :
            disposition'[r] = IF D[r] # "NONE" THEN D[r] ELSE disposition[r]
  BY DEF CommitIngestion, IngestInv, IngestTypeInv, IngestTypeOK, Batch
<1>2. \A x \in Ingester : pc'[x] \notin {"resolve", "commit"}
  BY <1>1 DEF EndTransaction, IngestInv, IngestTypeInv, IngestTypeOK,
              LockIsHeld, Holding
<1>3. Committed' = Committed \cup {d}
  BY <1>1 DEF Committed, Batch, IngestInv, IngestTypeInv, IngestTypeOK
<1>4. /\ Sorted(D, d)
      /\ \A r \in ReceiptsOf(d) : D[r] # "NONE"
      /\ \A r \in Receipt \ ReceiptsOf(d) : D[r] # "NONE" =>
            /\ D[r] # "QUARANTINED"
            /\ RowOf(r) # InvalidRow
            /\ r[1] \in Committed
  BY <1>1 DEF EvidenceInv, StagedIsSorted
<1>. HIDE DEF D
<1>5. Sorted(disposition', d)
  \* d is new: its receipts have no older disposition of their own.
  <2>1. \A r \in ReceiptsOf(d) : r \in Receipt
    BY <1>1, RowsType
  <2>. QED  BY <1>1, <1>4, <2>1 DEF Sorted
<1>6. ASSUME NEW c \in Committed, c # d  PROVE Sorted(disposition', c)
  <2>1. c \in Batch /\ ReceiptsOf(c) \subseteq Receipt
    BY RowsType DEF Committed, Batch
  <2>2. \A r \in ReceiptsOf(c) : r \notin ReceiptsOf(d)
    BY <1>6, ReceiptBatch
  <2>. QED  BY <1>1, <1>4, <2>1, <2>2 DEF EvidenceInv, Sorted
<1>7. ASSUME NEW b \in LedgerDelivery
      PROVE  /\ batch'[b] = batch[b] /\ b \in Batch
             /\ \A r \in ReceiptsOf(b) : disposition'[r] = disposition[r]
  <2>1. b # d /\ b \notin Committed /\ b \in Batch
    BY <1>1, StoreAssumption DEF Committed, Batch
  <2>2. ReceiptsOf(b) \subseteq Receipt
    BY <2>1, RowsType
  <2>3. \A r \in ReceiptsOf(b) : D[r] = "NONE"
    BY <1>4, <2>1, <2>2, ReceiptBatch
  <2>. QED  BY <1>1, <2>1, <2>2, <2>3 DEF IngestInv, IngestTypeInv, IngestTypeOK
<1>. QED  BY <1>2, <1>3, <1>5, <1>6, <1>7 DEF EvidenceInv, StagedIsSorted, Sorted

\* The older ledger writer adds batches whose receipts nothing else holds.
LEMMA RecordDeliveryEvidence ==
    ASSUME IngestInv, EvidenceInv, NEW b \in LedgerDelivery, RecordDelivery(b)
    PROVE  EvidenceInv'
<1>1. b \in Batch /\ b \notin Delivery /\ ReceiptsOf(b) \subseteq Receipt
  BY RowsType, StoreAssumption DEF Batch
<1>2. /\ UNCHANGED ingestVars
      /\ batch' = [batch EXCEPT
            ![b] = IF b \in DefectiveDelivery THEN "FAILED" ELSE "PROCESSING"]
      /\ \A r \in Receipt : r \notin ReceiptsOf(b) => disposition'[r] = disposition[r]
      /\ \A r \in ReceiptsOf(b) : b \in DefectiveDelivery =>
            disposition'[r] = "QUARANTINED"
  BY <1>1 DEF RecordDelivery
<1>3. Committed' = Committed
  BY <1>1, <1>2 DEF Committed, IngestInv, IngestTypeInv, IngestTypeOK, Batch
<1>4. ASSUME NEW c \in Batch, c # b
      PROVE  /\ batch'[c] = batch[c]
             /\ \A r \in ReceiptsOf(c) : disposition'[r] = disposition[r]
  <2>1. \A r \in ReceiptsOf(c) : r \in Receipt /\ r \notin ReceiptsOf(b)
    BY <1>4, RowsType, ReceiptBatch
  <2>. QED  BY <1>2, <1>4, <2>1 DEF IngestInv, IngestTypeInv, IngestTypeOK
<1>5. \A d \in Committed : Sorted(disposition', d)
  <2>1. \A d \in Committed : d \in Batch /\ d # b
    BY <1>1 DEF Committed, Batch
  <2>. QED  BY <1>4, <2>1 DEF EvidenceInv, Sorted
<1>6. \A c \in LedgerDelivery :
         /\ batch'[c] # "COMMITTED"
         /\ batch'[c] = "FAILED" =>
               \A r \in ReceiptsOf(c) : disposition'[r] = "QUARANTINED"
  <2>1. /\ batch'[b] # "COMMITTED"
        /\ batch'[b] = "FAILED" => b \in DefectiveDelivery
    BY <1>1, <1>2 DEF IngestInv, IngestTypeInv, IngestTypeOK
  <2>2. ASSUME NEW c \in LedgerDelivery, c # b
        PROVE  /\ batch'[c] # "COMMITTED"
               /\ batch'[c] = "FAILED" =>
                     \A r \in ReceiptsOf(c) : disposition'[r] = "QUARANTINED"
    BY <1>4, <2>2 DEF EvidenceInv, Batch
  <2>. QED  BY <1>2, <2>1, <2>2
<1>7. StagedIsSorted'
  BY <1>2, <1>3 DEF EvidenceInv, StagedIsSorted, Sorted, ingestVars
<1>. QED  BY <1>3, <1>5, <1>6, <1>7 DEF EvidenceInv, Sorted

LEMMA IngesterStepEvidence ==
    ASSUME IngestInv, EvidenceInv, NEW w \in Ingester, IngesterStep(w)
    PROVE  EvidenceInv'
<1>1. ASSUME \/ \E d \in Delivery : StartIngestion(w, d)
             \/ LockFinancialState(w)
             \/ AcquireEntityLock(w)
             \/ EntityLocksHeld(w)
             \/ NoExistingBatch(w)
      PROVE  EvidenceInv'
  <2>1. /\ UNCHANGED <<batch, disposition, staged>>
        /\ pc'[w] \notin {"resolve", "commit"}
        /\ \A x \in Ingester \ {w} : pc'[x] = pc[x] /\ job'[x] = job[x]
    BY <1>1 DEF StartIngestion, LockFinancialState, AcquireEntityLock,
       EntityLocksHeld, NoExistingBatch, storeVars, IngestInv, IngestTypeInv,
       IngestTypeOK
  <2>. QED  BY <2>1, EvidenceQuietStep
<1>2. ASSUME ReuseExistingBatch(w) \/ AbortIngestion(w)
      PROVE  EvidenceInv'
  <2>1. UNCHANGED <<batch, disposition>> /\ EndTransaction(w)
    BY <1>2 DEF ReuseExistingBatch, AbortIngestion
  <2>2. /\ pc'[w] \notin {"resolve", "commit"} /\ job' = job
        /\ \A x \in Ingester \ {w} : pc'[x] = pc[x] /\ staged'[x] = staged[x]
    BY <2>1 DEF EndTransaction, IngestInv, IngestTypeInv, IngestTypeOK
  <2>. QED  BY <2>1, <2>2, EvidenceQuietStep
<1>. QED  BY <1>1, <1>2, InsertRowsEvidence, ResolveTouchedEvidence,
             CommitIngestionEvidence DEF IngesterStep

LEMMA EvidenceInit ==
    ASSUME StoreInit, IngestInit  PROVE EvidenceInv
BY StoreAssumption DEF StoreInit, IngestInit, EvidenceInv, StagedIsSorted,
   Committed, Batch
-----------------------------------------------------------------------------
(* Refinement *)

CurrentView == [e \in Entity |-> CanonicalHash(VariantsIn(Committed, e))]

\* While a worker holds the financial lock no ingestion commits, so that the
\* view it computed stays the canonical view of what is committed.
CandidateIsCurrent ==
    \A w \in Recoverer : rpc[w] \in {"completeness", "fingerprint", "publish"}
        => candidate[w].view = CurrentView

ReplayInv == ReplayTypeInv /\ EvidenceInv /\ CandidateIsCurrent

\* The engine's canonical view is the one the components compute.
LEMMA EngineView ==
    ASSUME NEW B
    PROVE  Engine!CanonicalView(B) =
             [e \in Entity |-> CanonicalHash(VariantsIn(B, e))]
<1>1. \A e : Engine!VariantsIn(B, e) = VariantsIn(B, e)
  BY DEF Engine!VariantsIn, VariantsIn, Engine!ValidReceipts, ValidReceipts,
         Engine!ReceiptsOf, ReceiptsOf, Engine!RowOf, RowOf
<1>2. \A V : Engine!CanonicalHash(V) = CanonicalHash(V)
  BY DEF Engine!CanonicalHash, CanonicalHash, Engine!IsConflicted, IsConflicted,
         Engine!WinningHashes, WinningHashes, Engine!WinningVersion, WinningVersion,
         Engine!Versions, Versions
<1>. QED  BY <1>1, <1>2 DEF Engine!CanonicalView
-----------------------------------------------------------------------------
(* The steps of a worker *)

LEMMA NoCandidateType == NoCandidate \in Candidate
<1>1. EmptyView \in View
  BY DEF EmptyView, View
<1>. QED  BY <1>1 DEF NoCandidate, Candidate

LEMMA SucceededRowType ==
    ASSUME NEW q \in Request, NEW n \in Nat
    PROVE  SucceededRow(q, n) \in Request /\ SucceededRow(q, n).status = "SUCCEEDED"
<1>1. q.attempts + 1 \in Nat
  BY DEF Request
<1>. QED  BY <1>1 DEF SucceededRow, Request

\* What Release leaves: the worker is idle and the lock is not with it.
LEMMA ReleaseType ==
    ASSUME ReplayTypeInv, NEW w \in Recoverer, Release(w), rpc[w] # "idle"
    PROVE  /\ rpc' = [rpc EXCEPT ![w] = "idle"]
           /\ financialLock = w /\ financialLock' = NoOne
           /\ target' = target
           /\ candidate' \in [Recoverer -> Candidate]
           /\ \A x \in Recoverer \ {w} : candidate'[x] = candidate[x]
BY NoCandidateType DEF Release, ReplayTypeInv, WorkerHoldsLock, RecoveryTypeOK

\* The candidate that each of the three reads extends.
LEMMA BuildCandidateType ==
    ASSUME ReplayTypeInv, EvidenceInv, NEW w \in Recoverer, BuildCandidate(w)
    PROVE  /\ candidate' \in [Recoverer -> Candidate]
           /\ candidate'[w].view = CurrentView
           /\ \A x \in Recoverer \ {w} : candidate'[x] = candidate[x]
<1>. DEFINE V == [e \in Entity |-> CanonicalHash(EnvelopesOf(e))]
            C == [candidate[w] EXCEPT !.used = FinalBatches, !.view = V]
<1>1. V = CurrentView
  BY EnvelopesAreDelivered DEF CurrentView, ReplayTypeInv
<1>2. Committed \in SUBSET Batch
  BY DEF Committed, Batch
<1>3. V \in View
  BY <1>1, <1>2, ViewType DEF CurrentView
<1>4. candidate' = [candidate EXCEPT ![w] = C] /\ candidate[w] \in Candidate
  BY DEF BuildCandidate, ReplayTypeInv, RecoveryTypeOK
<1>5. FinalBatches \in SUBSET Batch
  BY DEF FinalBatches
<1>. HIDE DEF V
<1>6. C \in Candidate /\ C.view = V
  BY <1>3, <1>4, <1>5 DEF Candidate
<1>. HIDE DEF C
<1>. QED  BY <1>1, <1>4, <1>6 DEF ReplayTypeInv, RecoveryTypeOK

LEMMA LoadCompletenessType ==
    ASSUME ReplayTypeInv, NEW w \in Recoverer, LoadCompleteness(w)
    PROVE  /\ candidate' \in [Recoverer -> Candidate]
           /\ \A x \in Recoverer : candidate'[x].view = candidate[x].view
<1>. DEFINE S == {d \in Committed : receivedAt[d] <= request[target[w]].asOf}
            C == [candidate[w] EXCEPT !.seen = S]
<1>1. candidate' = [candidate EXCEPT ![w] = C] /\ candidate[w] \in Candidate
  BY DEF LoadCompleteness, ReplayTypeInv, RecoveryTypeOK
<1>2. S \in SUBSET Delivery
  BY DEF Committed
<1>. HIDE DEF S
<1>3. C \in Candidate /\ C.view = candidate[w].view
  BY <1>1, <1>2 DEF Candidate
<1>. HIDE DEF C
<1>. QED  BY <1>1, <1>3 DEF ReplayTypeInv, RecoveryTypeOK

LEMMA InputFingerprintType ==
    ASSUME ReplayTypeInv, NEW w \in Recoverer, InputFingerprint(w)
    PROVE  /\ candidate' \in [Recoverer -> Candidate]
           /\ \A x \in Recoverer : candidate'[x].view = candidate[x].view
<1>. DEFINE V == [e \in Entity |-> resolution[e].hash]
            C == [candidate[w] EXCEPT !.evidence = FinalBatches,
                                      !.evidenceView = V]
<1>1. candidate' = [candidate EXCEPT ![w] = C] /\ candidate[w] \in Candidate
  BY DEF InputFingerprint, ReplayTypeInv, RecoveryTypeOK
<1>2. V \in View
  BY DEF View, Resolution, ReplayTypeInv, IngestInv, IngestTypeInv, IngestTypeOK
<1>3. FinalBatches \in SUBSET Batch
  BY DEF FinalBatches
<1>. HIDE DEF V
<1>4. C \in Candidate /\ C.view = candidate[w].view
  BY <1>1, <1>2, <1>3 DEF Candidate
<1>. HIDE DEF C
<1>. QED  BY <1>1, <1>4 DEF ReplayTypeInv, RecoveryTypeOK

\* What every step of a worker has in common.
LEMMA WorkerFrame ==
    ASSUME ReplayInv, NEW w \in Recoverer, UNCHANGED ingestVars, tablesUnchanged,
           request' \in [Delivery -> Request],
           \A d \in Delivery :
              request'[d].status = "NONE" <=> request[d].status = "NONE",
           RecoveryTypeOK',
           financialLock \in {NoOne, w}, financialLock' \in {NoOne, w},
           rpc'[w] # "idle" => financialLock' = w,
           rpc'[w] \in {"completeness", "fingerprint", "publish"} =>
              candidate'[w].view = CurrentView,
           \A x \in Recoverer \ {w} :
              rpc'[x] = rpc[x] /\ candidate'[x].view = candidate[x].view
    PROVE  ReplayInv'
<1>1. IngestInv'
  <2>1. \A x \in Ingester : financialLock # x
    BY SystemAssumption, IngestionAssumption
  <2>. QED  BY <2>1, WorkerKeepsIngestInv DEF ReplayInv, tablesUnchanged
<1>2. WorkerHoldsLock'
  BY RecoveryAssumption DEF ReplayInv, ReplayTypeInv, WorkerHoldsLock
<1>3. EvidenceInv'
  BY EvidenceQuietStep DEF ReplayInv, ReplayTypeInv, tablesUnchanged, ingestVars
<1>4. CurrentView' = CurrentView
  BY DEF CurrentView, Committed, tablesUnchanged
<1>5. CandidateIsCurrent'
  BY <1>4 DEF ReplayInv, CandidateIsCurrent
<1>. QED  BY <1>1, <1>2, <1>3, <1>5 DEF ReplayInv, ReplayTypeInv

\* The three reads of the candidate, in one place.
LEMMA CandidateStepInv ==
    ASSUME ReplayInv, NEW w \in Recoverer, UNCHANGED ingestVars,
           BuildCandidate(w) \/ LoadCompleteness(w) \/ InputFingerprint(w)
    PROVE  ReplayInv'
<1>1. /\ tablesUnchanged
      /\ UNCHANGED <<request, financialLock, attempt, target, runs, pointer>>
      /\ rpc[w] \in InTransaction
      /\ \E s \in {"completeness", "fingerprint", "publish"} :
            rpc' = [rpc EXCEPT ![w] = s]
  BY DEF BuildCandidate, LoadCompleteness, InputFingerprint, InTransaction
<1>2. financialLock = w
  BY <1>1 DEF ReplayInv, ReplayTypeInv, WorkerHoldsLock, InTransaction
<1>3. /\ candidate' \in [Recoverer -> Candidate]
      /\ candidate'[w].view = CurrentView
      /\ \A x \in Recoverer \ {w} : candidate'[x].view = candidate[x].view
  <2>1. CASE BuildCandidate(w)
    BY <2>1, BuildCandidateType DEF ReplayInv
  <2>2. CASE LoadCompleteness(w)
    <3>1. candidate[w].view = CurrentView
      BY <2>2 DEF LoadCompleteness, ReplayInv, CandidateIsCurrent
    <3>. QED  BY <2>2, <3>1, LoadCompletenessType DEF ReplayInv
  <2>3. CASE InputFingerprint(w)
    <3>1. candidate[w].view = CurrentView
      BY <2>3 DEF InputFingerprint, ReplayInv, CandidateIsCurrent
    <3>. QED  BY <2>3, <3>1, InputFingerprintType DEF ReplayInv
  <2>. QED  BY <2>1, <2>2, <2>3
<1>4. RecoveryTypeOK'
  BY <1>1, <1>3 DEF ReplayInv, ReplayTypeInv, RecoveryTypeOK, InTransaction
<1>5. request' \in [Delivery -> Request]
  BY <1>1 DEF ReplayInv, ReplayTypeInv, IngestInv, IngestTypeInv, IngestTypeOK
<1>6. \A x \in Recoverer \ {w} : rpc'[x] = rpc[x]
  BY <1>1 DEF ReplayInv, ReplayTypeInv, RecoveryTypeOK
<1>. QED  BY <1>1, <1>2, <1>3, <1>4, <1>5, <1>6, WorkerFrame

\* Steps that change neither the request nor the publication.
LEMMA ControlStepInv ==
    ASSUME ReplayInv, NEW w \in Recoverer, UNCHANGED ingestVars,
           \/ AcquireFinancialLock(w)
           \/ TakeRequest(w)
           \/ NoReadyRequest(w)
           \/ FinishPublished(w)
           \/ FailCandidate(w)
           \/ CrashRecovery(w)
    PROVE  ReplayInv'
<1>1. tablesUnchanged /\ UNCHANGED <<request, attempt, runs, pointer>>
  BY DEF AcquireFinancialLock, TakeRequest, NoReadyRequest, FinishPublished,
         FailCandidate, CrashRecovery
<1>2. request' \in [Delivery -> Request]
  BY <1>1 DEF ReplayInv, ReplayTypeInv, IngestInv, IngestTypeInv, IngestTypeOK
<1>3. CASE NoReadyRequest(w) \/ FinishPublished(w) \/ CrashRecovery(w)
  <2>1. Release(w) /\ rpc[w] # "idle"
    BY <1>3 DEF NoReadyRequest, FinishPublished, CrashRecovery
  <2>2. /\ rpc' = [rpc EXCEPT ![w] = "idle"] /\ target' = target
        /\ financialLock = w /\ financialLock' = NoOne
        /\ candidate' \in [Recoverer -> Candidate]
        /\ \A x \in Recoverer \ {w} : candidate'[x] = candidate[x]
    BY <2>1, ReleaseType DEF ReplayInv
  <2>3. RecoveryTypeOK'
    BY <1>1, <2>2 DEF ReplayInv, ReplayTypeInv, RecoveryTypeOK
  <2>4. rpc'[w] = "idle" /\ \A x \in Recoverer \ {w} : rpc'[x] = rpc[x]
    BY <2>2 DEF ReplayInv, ReplayTypeInv, RecoveryTypeOK
  <2>. QED  BY <1>1, <1>2, <2>2, <2>3, <2>4, WorkerFrame
<1>4. CASE AcquireFinancialLock(w) \/ TakeRequest(w) \/ FailCandidate(w)
  <2>1. /\ candidate' = candidate
        /\ financialLock \in {NoOne, w} /\ financialLock' = w
        /\ \E s \in {"next", "build", "failed"} : rpc' = [rpc EXCEPT ![w] = s]
    BY <1>4 DEF AcquireFinancialLock, TakeRequest, FailCandidate, ReplayInv,
       ReplayTypeInv, WorkerHoldsLock, FinancialLockIsFree, InTransaction
  <2>2. target' \in [Recoverer -> Delivery]
    BY <1>4 DEF AcquireFinancialLock, TakeRequest, FailCandidate, NextReady,
       ReplayInv, ReplayTypeInv, RecoveryTypeOK
  <2>3. RecoveryTypeOK'
    BY <1>1, <2>1, <2>2 DEF ReplayInv, ReplayTypeInv, RecoveryTypeOK, InTransaction
  <2>4. /\ rpc'[w] \in {"next", "build", "failed"}
        /\ \A x \in Recoverer \ {w} : rpc'[x] = rpc[x]
    BY <2>1 DEF ReplayInv, ReplayTypeInv, RecoveryTypeOK
  <2>. QED  BY <1>1, <1>2, <2>1, <2>3, <2>4, WorkerFrame
<1>. QED  BY <1>3, <1>4

LEMMA PublishRunInv ==
    ASSUME ReplayInv, NEW w \in Recoverer, UNCHANGED ingestVars, PublishRun(w)
    PROVE  /\ ReplayInv'
           /\ PublishedView' = CurrentView
<1>. DEFINE d == target[w]
            q == request[d]
            r == [request |-> d, asOf |-> q.asOf, result |-> candidate[w]]
            n == Len(runs) + 1
<1>1. /\ tablesUnchanged /\ UNCHANGED <<financialLock, target, candidate>>
      /\ rpc[w] = "publish" /\ rpc' = [rpc EXCEPT ![w] = "published"]
      /\ runs' = Append(runs, r) /\ pointer' = n
      /\ MaySucceed(d) /\ MarkSucceeded(d, n)
  BY DEF PublishRun
<1>2. /\ d \in Delivery /\ q \in Request /\ candidate[w] \in Candidate
      /\ request \in [Delivery -> Request] /\ runs \in Seq(Run)
      /\ attempt \in [Delivery -> SUBSET Attempt]
  BY DEF ReplayInv, ReplayTypeInv, RecoveryTypeOK, IngestInv, IngestTypeInv,
         IngestTypeOK
<1>3. financialLock = w
  BY <1>1 DEF ReplayInv, ReplayTypeInv, WorkerHoldsLock
<1>4. r \in Run
  BY <1>2 DEF Run, Request
<1>5. n \in Nat /\ runs' \in Seq(Run) /\ Len(runs') = n /\ runs'[n] = r
  <2>. HIDE DEF r
  <2>. QED  BY <1>1, <1>2, <1>4
<1>6. /\ request' \in [Delivery -> Request]
      /\ \A c \in Delivery :
            request'[c].status = "NONE" <=> request[c].status = "NONE"
  <2>1. request' = [request EXCEPT ![d] = SucceededRow(q, n)]
    BY <1>1 DEF MarkSucceeded
  <2>2. q.status = "PENDING"
    BY <1>1 DEF MaySucceed
  <2>3. /\ SucceededRow(q, n) \in Request
        /\ SucceededRow(q, n).status = "SUCCEEDED"
    BY <1>2, <1>5, SucceededRowType
  <2>. QED  BY <1>2, <2>1, <2>2, <2>3
<1>7. attempt' \in [Delivery -> SUBSET Attempt]
  <2>. DEFINE a == [number |-> q.attempts + 1, outcome |-> "SUCCEEDED", run |-> n]
  <2>1. a \in Attempt
    BY <1>2, <1>5 DEF Attempt, Request
  <2>2. attempt' = [attempt EXCEPT ![d] = attempt[d] \cup {a}]
    BY <1>1, <1>2 DEF MarkSucceeded
  <2>. HIDE DEF a
  <2>. QED  BY <1>2, <2>1, <2>2
<1>8. RecoveryTypeOK'
  BY <1>1, <1>5, <1>7 DEF ReplayInv, ReplayTypeInv, RecoveryTypeOK
<1>9. rpc'[w] = "published" /\ \A x \in Recoverer \ {w} : rpc'[x] = rpc[x]
  BY <1>1 DEF ReplayInv, ReplayTypeInv, RecoveryTypeOK
<1>10. ReplayInv'
  BY <1>1, <1>3, <1>6, <1>8, <1>9, WorkerFrame
<1>11. candidate[w].view = CurrentView
  BY <1>1 DEF ReplayInv, CandidateIsCurrent
<1>12. PublishedView' = CurrentView
  BY <1>1, <1>2, <1>5, <1>11 DEF PublishedView
<1>. QED  BY <1>10, <1>12

LEMMA RecordCandidateFailureInv ==
    ASSUME ReplayInv, NEW w \in Recoverer, UNCHANGED ingestVars,
           RecordCandidateFailure(w)
    PROVE  ReplayInv'
<1>. DEFINE d == target[w]
            q == request[d]
<1>1. /\ tablesUnchanged /\ UNCHANGED <<runs, pointer>>
      /\ rpc[w] = "failed" /\ Release(w) /\ RecordFailure(d)
  BY DEF RecordCandidateFailure
<1>2. /\ d \in Delivery /\ q \in Request /\ now \in Nat
      /\ request \in [Delivery -> Request]
      /\ attempt \in [Delivery -> SUBSET Attempt]
  BY DEF ReplayInv, ReplayTypeInv, RecoveryTypeOK, IngestInv, IngestTypeInv,
         IngestTypeOK
<1>3. /\ rpc' = [rpc EXCEPT ![w] = "idle"] /\ target' = target
      /\ financialLock = w /\ financialLock' = NoOne
      /\ candidate' \in [Recoverer -> Candidate]
      /\ \A x \in Recoverer \ {w} : candidate'[x] = candidate[x]
  BY <1>1, ReleaseType DEF ReplayInv
<1>4. /\ request' \in [Delivery -> Request]
      /\ \A c \in Delivery :
            request'[c].status = "NONE" <=> request[c].status = "NONE"
  <2>1. CASE q.status # "PENDING"
    BY <1>1, <1>2, <2>1 DEF RecordFailure
  <2>2. CASE q.status = "PENDING"
    <3>1. request' = [request EXCEPT ![d] = FailedRow(q)]
      BY <1>1, <2>2 DEF RecordFailure
    <3>2. FailedRow(q) \in Request /\ FailedRow(q).status # "NONE"
      BY <1>2, RequestRowTypes
    <3>. QED  BY <1>2, <2>2, <3>1, <3>2
  <2>. QED  BY <2>1, <2>2
<1>5. attempt' \in [Delivery -> SUBSET Attempt]
  <2>. DEFINE a == [number |-> q.attempts + 1, outcome |-> "FAILED", run |-> 0]
  <2>1. a \in Attempt
    BY <1>2 DEF Attempt, Request
  <2>2. attempt' = attempt \/ attempt' = [attempt EXCEPT ![d] = attempt[d] \cup {a}]
    BY <1>1, <1>2 DEF RecordFailure
  <2>. HIDE DEF a
  <2>. QED  BY <1>2, <2>1, <2>2
<1>6. RecoveryTypeOK'
  BY <1>1, <1>3, <1>5 DEF ReplayInv, ReplayTypeInv, RecoveryTypeOK
<1>7. rpc'[w] = "idle" /\ \A x \in Recoverer \ {w} : rpc'[x] = rpc[x]
  BY <1>3 DEF ReplayInv, ReplayTypeInv, RecoveryTypeOK
<1>. QED  BY <1>1, <1>3, <1>4, <1>6, <1>7, WorkerFrame

LEMMA RequeueFailedInv ==
    ASSUME ReplayInv, NEW d \in Delivery, RequeueFailed(d),
           UNCHANGED <<ingestVars, workerVars, runs, pointer>>
    PROVE  ReplayInv'
<1>. DEFINE q == request[d]
<1>1. /\ UNCHANGED <<batch, receivedAt, disposition, recordVersion, resolution,
                     financialLock, now, attempt>>
      /\ q.status = "FAILED" /\ request' = [request EXCEPT ![d] = RequeuedRow(q)]
  BY DEF RequeueFailed
<1>2. q \in Request /\ now \in Nat /\ request \in [Delivery -> Request]
  BY DEF ReplayInv, ReplayTypeInv, IngestInv, IngestTypeInv, IngestTypeOK
<1>3. RequeuedRow(q) \in Request /\ RequeuedRow(q).status # "NONE"
  BY <1>2, RequestRowTypes
<1>4. /\ request' \in [Delivery -> Request]
      /\ \A c \in Delivery :
            request'[c].status = "NONE" <=> request[c].status = "NONE"
  BY <1>1, <1>2, <1>3
<1>5. IngestInv'
  BY <1>1, <1>4, WorkerKeepsIngestInv DEF ReplayInv
<1>6. EvidenceInv'
  BY <1>1, EvidenceQuietStep DEF ReplayInv, ReplayTypeInv, ingestVars
<1>7. CandidateIsCurrent' /\ WorkerHoldsLock' /\ RecoveryTypeOK'
  BY <1>1 DEF ReplayInv, ReplayTypeInv, CandidateIsCurrent, CurrentView,
     Committed, WorkerHoldsLock, RecoveryTypeOK, workerVars
<1>. QED  BY <1>1, <1>5, <1>6, <1>7 DEF ReplayInv, ReplayTypeInv
-----------------------------------------------------------------------------
(* The steps of ingesters, of the older writer and of the clock *)

\* Only the commit of an ingestion changes what is committed, and it holds
\* the financial lock.
LEMMA IngesterStepCommitted ==
    ASSUME IngestInv, NEW w \in Ingester, IngesterStep(w)
    PROVE  \/ Committed' = Committed
           \/ /\ financialLock = w
              /\ job[w] \in Delivery \ Committed
              /\ Committed' = Committed \cup {job[w]}
<1>1. CASE CommitIngestion(w)
  <2>1. /\ pc[w] = "commit" /\ job[w] \in Delivery /\ job[w] \in Batch
        /\ batch' = [batch EXCEPT ![job[w]] = "COMMITTED"]
    BY <1>1 DEF CommitIngestion, IngestInv, IngestTypeInv, IngestTypeOK, Batch
  <2>2. financialLock = w /\ batch[job[w]] = "NONE"
    BY <2>1 DEF IngestInv, LockIsHeld, DeliveryIsNew, Holding
  <2>3. Committed' = Committed \cup {job[w]}
    BY <2>1 DEF Committed, Batch, IngestInv, IngestTypeInv, IngestTypeOK
  <2>. QED  BY <2>1, <2>2, <2>3 DEF Committed
<1>2. CASE ~CommitIngestion(w)
  <2>1. batch' = batch
    BY <1>2 DEF IngesterStep, StartIngestion, LockFinancialState,
       AcquireEntityLock, EntityLocksHeld, ReuseExistingBatch, NoExistingBatch,
       InsertRows, ResolveTouched, AbortIngestion, storeVars
  <2>. QED  BY <2>1 DEF Committed
<1>. QED  BY <1>1, <1>2

LEMMA IngesterStepLock ==
    ASSUME NEW w \in Ingester, IngesterStep(w)
    PROVE  \/ financialLock' = financialLock
           \/ financialLock = NoOne /\ financialLock' = w
           \/ financialLock = w /\ financialLock' = NoOne
<1>1. CASE LockFinancialState(w)
  BY <1>1 DEF LockFinancialState, FinancialLockIsFree
<1>2. CASE ReuseExistingBatch(w) \/ CommitIngestion(w) \/ AbortIngestion(w)
  BY <1>2 DEF ReuseExistingBatch, CommitIngestion, AbortIngestion, EndTransaction
<1>3. CASE \/ \E d \in Delivery : StartIngestion(w, d)
           \/ AcquireEntityLock(w)
           \/ EntityLocksHeld(w)
           \/ NoExistingBatch(w)
           \/ InsertRows(w)
           \/ ResolveTouched(w)
  BY <1>3 DEF StartIngestion, AcquireEntityLock, EntityLocksHeld,
     NoExistingBatch, InsertRows, ResolveTouched, storeVars
<1>. QED  BY <1>1, <1>2, <1>3 DEF IngesterStep

LEMMA IngesterStepInv ==
    ASSUME ReplayInv, NEW w \in Ingester, IngesterStep(w), UNCHANGED recoveryVars
    PROVE  ReplayInv'
<1>1. IngestInv'
  BY IngestInvStep DEF ReplayInv, ReplayTypeInv, IngestNext
<1>2. EvidenceInv'
  BY IngesterStepEvidence DEF ReplayInv, ReplayTypeInv
<1>3. RecoveryTypeOK'
  BY DEF ReplayInv, ReplayTypeInv, RecoveryTypeOK, recoveryVars
<1>4. financialLock' \in Ingester \cup Recoverer \cup {NoOne}
  BY IngesterStepLock DEF ReplayInv, ReplayTypeInv
<1>5. ASSUME NEW x \in Recoverer, rpc[x] # "idle"
      PROVE  financialLock = x /\ financialLock' = x /\ financialLock # w
  <2>1. financialLock = x /\ x # w /\ x # NoOne
    BY <1>5, SystemAssumption, RecoveryAssumption
       DEF ReplayInv, ReplayTypeInv, WorkerHoldsLock
  <2>. QED  BY <2>1, IngesterStepLock
<1>6. WorkerHoldsLock'
  BY <1>5 DEF WorkerHoldsLock, recoveryVars
<1>7. CandidateIsCurrent'
  <2>1. SUFFICES ASSUME NEW x \in Recoverer,
                        rpc[x] \in {"completeness", "fingerprint", "publish"}
                 PROVE  candidate[x].view = CurrentView'
    BY DEF CandidateIsCurrent, recoveryVars
  <2>2. Committed' = Committed
    BY <1>5, <2>1, IngesterStepCommitted DEF ReplayInv, ReplayTypeInv
  <2>. QED  BY <2>1, <2>2 DEF ReplayInv, CandidateIsCurrent, CurrentView
<1>. QED  BY <1>1, <1>2, <1>3, <1>4, <1>6, <1>7 DEF ReplayInv, ReplayTypeInv

\* The older writer, the clock and stuttering steps.
LEMMA OtherStepInv ==
    ASSUME ReplayInv, UNCHANGED recoveryVars,
           \/ \E b \in LedgerDelivery : RecordDelivery(b)
           \/ Tick /\ UNCHANGED ingestVars
           \/ UNCHANGED <<storeVars, ingestVars>>
    PROVE  ReplayInv' /\ Committed' = Committed
<1>1. IngestInv'
  BY OtherStepsInv DEF ReplayInv, ReplayTypeInv
<1>2. EvidenceInv'
  <2>1. ASSUME UNCHANGED <<batch, disposition, ingestVars>>  PROVE EvidenceInv'
    BY <2>1, EvidenceQuietStep DEF ReplayInv, ReplayTypeInv, ingestVars
  <2>. QED  BY <2>1, RecordDeliveryEvidence
            DEF ReplayInv, ReplayTypeInv, Tick, storeVars
<1>3. financialLock' = financialLock
  BY DEF RecordDelivery, Tick, storeVars
<1>4. Committed' = Committed
  <2>1. ASSUME NEW b \in LedgerDelivery, RecordDelivery(b)
        PROVE  \A d \in Delivery : batch'[d] = batch[d]
    BY <2>1, StoreAssumption DEF RecordDelivery, Batch, ReplayInv, ReplayTypeInv,
       IngestInv, IngestTypeInv, IngestTypeOK
  <2>2. \A d \in Delivery : batch'[d] = batch[d]
    BY <2>1 DEF Tick, storeVars
  <2>. QED  BY <2>2 DEF Committed
<1>5. RecoveryTypeOK' /\ WorkerHoldsLock' /\ CandidateIsCurrent'
  BY <1>3, <1>4 DEF ReplayInv, ReplayTypeInv, RecoveryTypeOK, recoveryVars,
     WorkerHoldsLock, CandidateIsCurrent, CurrentView
<1>. QED  BY <1>1, <1>2, <1>3, <1>4, <1>5 DEF ReplayInv, ReplayTypeInv
-----------------------------------------------------------------------------
(* Theorems *)

LEMMA RecovererStepInv ==
    ASSUME ReplayInv, NEW w \in Recoverer, RecovererStep(w), UNCHANGED ingestVars
    PROVE  ReplayInv'
BY CandidateStepInv, ControlStepInv, PublishRunInv, RecordCandidateFailureInv
   DEF RecovererStep, WorkerProgress

LEMMA ReplayInvStep ==
    ASSUME ReplayInv, [Next]_vars  PROVE ReplayInv'
<1>1. CASE UNCHANGED vars
  BY <1>1, OtherStepInv DEF vars
<1>. QED  BY <1>1, IngesterStepInv, OtherStepInv, RecovererStepInv,
             RequeueFailedInv DEF Next

LEMMA ReplayInvInit ==
    ASSUME Init  PROVE ReplayInv
<1>1. IngestInv /\ EvidenceInv
  BY IngestInvInit, EvidenceInit DEF Init
<1>2. (CHOOSE d \in Delivery : TRUE) \in Delivery
  BY StoreAssumption
<1>3. RecoveryTypeOK
  BY <1>2, NoCandidateType DEF Init, RecoveryInit, QueueInit, RecoveryTypeOK
<1>4. WorkerHoldsLock /\ CandidateIsCurrent /\ financialLock = NoOne
  BY DEF Init, RecoveryInit, StoreInit, WorkerHoldsLock, CandidateIsCurrent
<1>. QED  BY <1>1, <1>3, <1>4 DEF ReplayInv, ReplayTypeInv

LEMMA ReplayInvariant == Spec => []ReplayInv
<1>1. Init => ReplayInv
  BY ReplayInvInit
<1>2. ReplayInv /\ [Next]_vars => ReplayInv'
  BY ReplayInvStep
<1>. QED  BY <1>1, <1>2, PTL DEF Spec

\* Every variable of the composed system keeps its type: in particular the
\* publication pointer always names a published run (or none), and the
\* financial lock is with one ingester, one recovery worker or nobody.
THEOREM ReplayTypeCorrect == Spec => []ReplayTypeOK
<1>1. ReplayInv => ReplayTypeOK
  BY DEF ReplayInv, ReplayTypeInv, IngestInv, IngestTypeInv, ReplayTypeOK
<1>. QED  BY <1>1, ReplayInvariant, PTL

\* A step of the composed system accepts a delivery, publishes the canonical
\* view of all accepted deliveries, or changes neither.
LEMMA EngineStep ==
    ASSUME ReplayInv, [Next]_vars
    PROVE  [Engine!EngineNext]_<<Committed, PublishedView>>
<1>1. ASSUME NEW w \in Ingester, IngesterStep(w), UNCHANGED recoveryVars
      PROVE  [Engine!EngineNext]_<<Committed, PublishedView>>
  <2>1. PublishedView' = PublishedView
    BY <1>1 DEF PublishedView, recoveryVars
  <2>2. CASE Committed' = Committed
    BY <2>1, <2>2
  <2>3. CASE /\ job[w] \in Delivery \ Committed
             /\ Committed' = Committed \cup {job[w]}
    <3>1. Engine!Accept(job[w])
      BY <2>1, <2>3 DEF Engine!Accept
    <3>. QED  BY <2>3, <3>1 DEF Engine!EngineNext
  <2>. QED  BY <1>1, <2>2, <2>3, IngesterStepCommitted DEF ReplayInv, ReplayTypeInv
<1>2. ASSUME UNCHANGED recoveryVars,
             \/ \E b \in LedgerDelivery : RecordDelivery(b)
             \/ Tick /\ UNCHANGED ingestVars
             \/ UNCHANGED <<storeVars, ingestVars>>
      PROVE  [Engine!EngineNext]_<<Committed, PublishedView>>
  BY <1>2, OtherStepInv DEF PublishedView, recoveryVars
<1>3. ASSUME NEW w \in Recoverer, RecovererStep(w), UNCHANGED ingestVars
      PROVE  [Engine!EngineNext]_<<Committed, PublishedView>>
  <2>1. Committed' = Committed
    BY <1>3 DEF RecovererStep, WorkerProgress, AcquireFinancialLock, TakeRequest,
       NoReadyRequest, BuildCandidate, LoadCompleteness, InputFingerprint,
       PublishRun, FinishPublished, RecordCandidateFailure, FailCandidate,
       CrashRecovery, tablesUnchanged, Committed
  <2>2. CASE PublishRun(w)
    <3>1. PublishedView' = Engine!CanonicalView(Committed)
      BY <1>3, <2>2, PublishRunInv, EngineView DEF CurrentView
    <3>. QED  BY <2>1, <3>1 DEF Engine!EngineNext, Engine!Publish
  <2>3. CASE ~PublishRun(w)
    <3>1. UNCHANGED <<runs, pointer>>
      BY <1>3, <2>3 DEF RecovererStep, WorkerProgress, AcquireFinancialLock,
         TakeRequest, NoReadyRequest, BuildCandidate, LoadCompleteness,
         InputFingerprint, FinishPublished, RecordCandidateFailure,
         FailCandidate, CrashRecovery
    <3>. QED  BY <2>1, <3>1 DEF PublishedView
  <2>. QED  BY <2>2, <2>3
<1>4. ASSUME NEW d \in Delivery, RequeueFailed(d),
             UNCHANGED <<ingestVars, workerVars, runs, pointer>>
      PROVE  [Engine!EngineNext]_<<Committed, PublishedView>>
  BY <1>4 DEF RequeueFailed, Committed, PublishedView
<1>5. CASE UNCHANGED vars
  BY <1>2, <1>5 DEF vars
<1>. QED  BY <1>1, <1>2, <1>3, <1>4, <1>5 DEF Next

LEMMA EngineInitially ==
    ASSUME Init  PROVE Engine!EngineInit
<1>1. Committed = {}
  BY DEF Init, StoreInit, Committed, Batch
<1>2. PublishedView = [e \in Entity |-> NoHash]
  BY DEF Init, RecoveryInit, PublishedView, EmptyView
<1>3. \A e : CanonicalHash(VariantsIn({}, e)) = NoHash
  <2>1. \A e : VariantsIn({}, e) = {}
    BY DEF VariantsIn
  <2>. QED  BY <2>1 DEF CanonicalHash
<1>4. Engine!CanonicalView({}) = [e \in Entity |-> NoHash]
  BY <1>3, EngineView
<1>. QED  BY <1>1, <1>2, <1>4 DEF Engine!EngineInit

\* Ingestion, recovery, retries, crashes, requeues and the older writer
\* together implement the replay engine: for any deliveries, ingesters and
\* workers, whatever the pointer moves to is the canonical view of every
\* delivery committed at that moment.
THEOREM EngineImplemented == Spec => ImplementsEngine
<1>1. Init => Engine!EngineInit
  BY EngineInitially
<1>2. ReplayInv /\ [Next]_vars => [Engine!EngineNext]_<<Committed, PublishedView>>
  BY EngineStep
<1>. QED  BY <1>1, <1>2, ReplayInvariant, PTL
          DEF Spec, ImplementsEngine, Engine!EngineSpec
-----------------------------------------------------------------------------
(* Usable evidence *)

\* Recovery workers, requeues and the clock leave the dispositions alone.
LEMMA DispositionInvNext ==
    ASSUME ReplayInv, DispositionInv, [Next]_vars  PROVE DispositionInv'
<1>1. IngestInv
  BY DEF ReplayInv, ReplayTypeInv
<1>2. ASSUME UNCHANGED <<batch, disposition, recordVersion, resolution, ingestVars>>
      PROVE  DispositionInv'
  BY <1>1, <1>2, DispositionQuietStep DEF ingestVars
<1>3. \/ [IngestNext]_<<storeVars, ingestVars>>
      \/ UNCHANGED <<batch, disposition, recordVersion, resolution, ingestVars>>
  BY DEF Next, vars, IngestNext, RecovererStep, WorkerProgress,
     AcquireFinancialLock, TakeRequest, NoReadyRequest, BuildCandidate,
     LoadCompleteness, InputFingerprint, PublishRun, FinishPublished,
     RecordCandidateFailure, FailCandidate, CrashRecovery, tablesUnchanged,
     RequeueFailed
<1>. QED  BY <1>1, <1>2, <1>3, DispositionInvStep

LEMMA UsableFromInv ==
    ASSUME ReplayInv, DispositionInv  PROVE EvidenceIsUsable
<1>. SUFFICES ASSUME NEW b \in FinalBatches, NEW r \in ReceiptsOf(b)
              PROVE  \/ disposition[r] = "QUARANTINED"
                     \/ batch[b] = "COMMITTED" /\ disposition[r] \in
                           {"ACCEPTED", "STALE", "DUPLICATE", "CONFLICTED"}
  BY DEF EvidenceIsUsable
<1>1. CASE b \in Delivery
  <2>1. b \in Committed
    BY <1>1 DEF FinalBatches, Committed, ReplayInv, ReplayTypeInv, IngestInv,
       RetryFindsWholeDelivery, ExistingIsBroken
  <2>. QED  BY <2>1, ReclassifyType DEF DispositionInv, DispositionsAreCurrent, Committed
<1>2. CASE b \in LedgerDelivery
  BY <1>2 DEF FinalBatches, ReplayInv, EvidenceInv
<1>. QED  BY <1>1, <1>2 DEF FinalBatches, Batch

\* build_candidate never refuses its evidence: whenever a worker reads them,
\* the receipts of finalized batches are classified or quarantined, so that
\* neither RuntimeError about unresolved receipts can exhaust a request.
THEOREM EvidenceAlwaysUsable == Spec => []EvidenceIsUsable
<1>1. Init => DispositionInv
  BY DispositionInvInit DEF Init
<1>2. ReplayInv /\ DispositionInv /\ [Next]_vars => DispositionInv'
  BY DispositionInvNext
<1>3. ReplayInv /\ DispositionInv => EvidenceIsUsable
  BY UsableFromInv
<1>. QED  BY <1>1, <1>2, <1>3, ReplayInvariant, PTL DEF Spec
=============================================================================
