---------------------------- MODULE ReplaySystem ----------------------------
(***************************************************************************)
(* Ingestion and recovery together: ingesters, recovery workers, the older *)
(* ledger writer, the operator and the clock over one PostgreSQL store.    *)
(***************************************************************************)
EXTENDS DurableIngestion, RecoveryBehavior

ASSUME SystemAssumption == Ingester \cap Recoverer = {}

vars == <<storeVars, ingestVars, recoveryVars>>

ReplayTypeOK ==
    /\ IngestTypeOK
    /\ RecoveryTypeOK
    /\ financialLock \in Ingester \cup Recoverer \cup {NoOne}

Init == StoreInit /\ IngestInit /\ RecoveryInit

Next ==
    \/ \E w \in Ingester : IngesterStep(w) /\ UNCHANGED recoveryVars
    \/ \E b \in LedgerDelivery : RecordDelivery(b) /\ UNCHANGED recoveryVars
    \/ \E w \in Recoverer : RecovererStep(w) /\ UNCHANGED ingestVars
    \/ \E d \in Delivery :
          RequeueFailed(d) /\ UNCHANGED <<ingestVars, workerVars, runs, pointer>>
    \/ Tick /\ UNCHANGED <<ingestVars, recoveryVars>>

Spec == Init /\ [][Next]_vars

\* An ingester that has started makes progress: its statements return, and
\* PostgreSQL grants advisory locks to waiters in turn.
IngesterProgress(w) ==
    \/ AcquireEntityLock(w)
    \/ EntityLocksHeld(w)
    \/ ReuseExistingBatch(w)
    \/ NoExistingBatch(w)
    \/ InsertRows(w)
    \/ ResolveTouched(w)
    \/ CommitIngestion(w)

\* Airflow starts a drain every minute, and the lock queue is first come,
\* first served, hence strong fairness for a worker that asks for the lock.
Fairness ==
    /\ \A w \in Ingester : WF_vars(IngesterProgress(w) /\ UNCHANGED recoveryVars)
    /\ \A w \in Recoverer :
          /\ SF_vars(AcquireFinancialLock(w) /\ UNCHANGED ingestVars)
          /\ WF_vars(WorkerProgress(w) /\ UNCHANGED ingestVars)
    /\ WF_vars(Tick /\ UNCHANGED <<ingestVars, recoveryVars>>)

FairSpec == Spec /\ Fairness
-----------------------------------------------------------------------------
(* Properties *)

PublishedView == IF pointer = 0 THEN EmptyView ELSE runs[pointer].result.view

Engine == INSTANCE ReplayEngine WITH accepted <- Committed, view <- PublishedView

\* Ingestion and recovery implement the replay engine: although the worker
\* reads its evidence in several statements and commits much later, each
\* publication is the canonical view of all deliveries committed when the
\* pointer moves, whichever request, retry or worker publishes.
ImplementsEngine == Engine!EngineSpec

\* The input fingerprint stored with a published run identifies the batches
\* and resolutions its candidate was built from, although a later statement
\* reads them.
FingerprintIdentifiesInput ==
    \A i \in 1 .. Len(runs) :
        /\ runs[i].result.used = runs[i].result.evidence
        /\ runs[i].result.view = runs[i].result.evidenceView

\* The attempt history of a request has one row per counted attempt, within
\* its budget; a request succeeded exactly when its last attempt did, and
\* every published run is the result of exactly one request: two workers,
\* retries, crashes and requeues never publish one request twice.
AttemptsMatchQueue ==
    /\ \A d \in Delivery :
         /\ {x.number : x \in attempt[d]} = 1 .. request[d].attempts
         /\ \A x, y \in attempt[d] : x.number = y.number => x = y
         /\ request[d].attempts <= request[d].max
         /\ \A x \in attempt[d] : x.outcome = "SUCCEEDED" <=>
               /\ request[d].status = "SUCCEEDED"
               /\ x.number = request[d].attempts
    /\ \A i \in 1 .. Len(runs) : request[runs[i].request].run = i

\* A request with at least one receipt can always be inspected: no reachable
\* combination of status, budget, completion, run and batch raises a
\* RecoveryStateError.
InspectionIsTotal ==
    \A d \in Delivery : Rows[d] # <<>> => InspectRecovery(d) # "ERROR"

\* The request a worker took with next_ready is still pending, with an attempt
\* left, until the worker settles it: mark_succeeded finds nothing to raise about
\* and record_failure never drops a failure.  The row lock protects it only until
\* the rollback, record_failure reads the row again in a second transaction, and
\* requeue_failed needs no financial lock; two workers that both fail are kept
\* apart by the session lock alone.
TakenStaysPending ==
    \A w \in Recoverer :
        rpc[w] \in InTransaction \cup {"failed"} => MaySucceed(target[w])

\* The evidence behind the published result never shrinks, even when the
\* retry of an old request, with an old as_of_utc, publishes after a newer one.
PublishedEvidenceGrows ==
    [][pointer # 0 =>
         runs[pointer].result.used \subseteq runs'[pointer'].result.used]_vars

\* A crash that costs work: a crash of a worker that has nothing ready to do,
\* or has published, is no different from its normal end.
CrashLosesWork(w) ==
    /\ CrashRecovery(w)
    /\ rpc[w] = "next" => NextReady # {}
    /\ rpc[w] # "published"

CrashesEnd == <>[][~ \E w \in Recoverer : CrashLosesWork(w)]_vars

\* If worker crashes come to an end, every pending request is settled:
\* it succeeds or exhausts its attempts.
RequestsSettle ==
    CrashesEnd => \A d \in Delivery :
        request[d].status = "PENDING" ~> request[d].status # "PENDING"

\* If worker crashes come to an end, every committed delivery is part of the
\* published result or its request waits for an operator as FAILED.
CommittedIsPublished ==
    CrashesEnd => \A d \in Delivery :
        batch[d] = "COMMITTED" ~>
            \/ pointer # 0 /\ d \in runs[pointer].result.used
            \/ request[d].status = "FAILED"

\* docs/financial-contracts.md:29: "`evaluation_cutoff_utc` says which received
\* evidence a reconciliation run may use": the deliveries a run computes its
\* amounts from are those its completeness evaluation counts as received.
OneEvaluationCutoff ==
    \A i \in 1 .. Len(runs) :
        runs[i].result.used \cap Delivery = runs[i].result.seen
=============================================================================
