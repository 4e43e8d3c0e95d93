------------------------ MODULE FullRebuildRecovery -------------------------
(***************************************************************************)
(* FullRebuildRecovery.run_next (full_rebuild_recovery.py) with the        *)
(* candidate builder of recovery_rebuild.py: concurrent recovery workers   *)
(* that rebuild the financial result from the durable evidence and publish *)
(* it.  Each statement of the candidate transaction that reads evidence is *)
(* a step of its own: under READ COMMITTED it sees what is committed when  *)
(* it runs.                                                                *)
(***************************************************************************)
EXTENDS RecoveryQueue

CONSTANT Recoverer

ASSUME RecoveryAssumption == NoOne \notin Recoverer

VARIABLES
    rpc,        \* where each worker is
    target,     \* the request it works on
    candidate,  \* the candidate it builds
    runs,       \* reconciliation_run/recovery_result: published runs in order
    pointer     \* publication_pointer: an index of runs, 0 before the first

workerVars   == <<rpc, target, candidate>>
recoveryVars == <<attempt, rpc, target, candidate, runs, pointer>>

\* used: the batches whose receipts the candidate was built from; view: the
\* canonical payload it uses per entity; seen: the deliveries its completeness
\* evaluation counts as received; evidence and evidenceView: the batches and
\* resolutions its input fingerprint identifies.
View == [Entity -> Hash \cup {NoHash}]
Candidate ==
    [used : SUBSET Batch, view : View, seen : SUBSET Delivery,
     evidence : SUBSET Batch, evidenceView : View]

EmptyView == [e \in Entity |-> NoHash]
NoCandidate ==
    [used |-> {}, view |-> EmptyView, seen |-> {}, evidence |-> {},
     evidenceView |-> EmptyView]

Run == [request : Delivery, asOf : Nat, result : Candidate]

InTransaction == {"build", "completeness", "fingerprint", "publish"}

RecoveryTypeOK ==
    /\ attempt \in [Delivery -> SUBSET Attempt]
    /\ rpc \in [Recoverer -> InTransaction \cup
                    {"idle", "next", "failed", "published"}]
    /\ target \in [Recoverer -> Delivery]
    /\ candidate \in [Recoverer -> Candidate]
    /\ runs \in Seq(Run)
    /\ pointer \in 0 .. Len(runs)

RecoveryInit ==
    /\ QueueInit
    /\ rpc = [w \in Recoverer |-> "idle"]
    /\ target = [w \in Recoverer |-> CHOOSE d \in Delivery : TRUE]
    /\ candidate = [w \in Recoverer |-> NoCandidate]
    /\ runs = <<>>
    /\ pointer = 0
-----------------------------------------------------------------------------
tablesUnchanged ==
    UNCHANGED <<batch, receivedAt, disposition, recordVersion, resolution, now>>

\* The session ends or unlocks: the session-level advisory lock is released.
Release(w) ==
    /\ rpc' = [rpc EXCEPT ![w] = "idle"]
    /\ financialLock' = IF financialLock = w THEN NoOne ELSE financialLock
    /\ candidate' = [candidate EXCEPT ![w] = NoCandidate]
    /\ UNCHANGED target

\* pg_advisory_lock on a new session.
AcquireFinancialLock(w) ==
    /\ rpc[w] = "idle"
    /\ FinancialLockIsFree
    /\ financialLock' = w
    /\ rpc' = [rpc EXCEPT ![w] = "next"]
    /\ UNCHANGED <<request, attempt, target, candidate, runs, pointer>>
    /\ tablesUnchanged

\* queue.next_ready returned a request; its row stays locked, and as every
\* worker holds the financial lock here, SKIP LOCKED has nothing to skip.
TakeRequest(w) ==
    /\ rpc[w] = "next"
    /\ \E d \in NextReady : target' = [target EXCEPT ![w] = d]
    /\ rpc' = [rpc EXCEPT ![w] = "build"]
    /\ UNCHANGED <<request, financialLock, attempt, candidate, runs, pointer>>
    /\ tablesUnchanged

\* queue.next_ready returned None: run_next returns and unlocks.
NoReadyRequest(w) ==
    /\ rpc[w] = "next"
    /\ NextReady = {}
    /\ Release(w)
    /\ UNCHANGED <<request, attempt, runs, pointer>>
    /\ tablesUnchanged

FinalBatches == {b \in Batch : batch[b] \in {"COMMITTED", "FAILED"}}

\* build_candidate refuses unresolved receipts of a committed batch and
\* receipts of a failed batch that are not quarantined.
EvidenceIsUsable ==
    \A b \in FinalBatches : \A r \in ReceiptsOf(b) :
        \/ disposition[r] = "QUARANTINED"
        \/ batch[b] = "COMMITTED" /\ disposition[r] \in
              {"ACCEPTED", "STALE", "DUPLICATE", "CONFLICTED"}

\* The variants of e in the receipts that are not quarantined.
EnvelopesOf(e) ==
    {RowOf(r) : r \in {q \in UNION {ReceiptsOf(b) : b \in FinalBatches} :
        disposition[q] # "QUARANTINED" /\ RowOf(q).entity = e}}

\* Mutant: the receipts statement is restricted to as_of_utc.
BuildCandidateAsOf(w) ==
    /\ rpc[w] = "build"
    /\ EvidenceIsUsable
    /\ candidate' = [candidate EXCEPT
         ![w].used = {x \in FinalBatches :
                        receivedAt[x] <= request[target[w]].asOf},
         ![w].view = [e \in Entity |-> CanonicalHash(EnvelopesOf(e))]]
    /\ rpc' = [rpc EXCEPT ![w] = "completeness"]
    /\ UNCHANGED <<request, financialLock, attempt, target, runs, pointer>>
    /\ tablesUnchanged

\* The receipts statement of build_candidate, canonicalize and reconcile.
\* It reads every finalized batch: as_of_utc does not restrict it.
BuildCandidate(w) ==
    /\ rpc[w] = "build"
    /\ EvidenceIsUsable
    /\ candidate' = [candidate EXCEPT
         ![w].used = FinalBatches,
         ![w].view = [e \in Entity |-> CanonicalHash(EnvelopesOf(e))]]
    /\ rpc' = [rpc EXCEPT ![w] = "completeness"]
    /\ UNCHANGED <<request, financialLock, attempt, target, runs, pointer>>
    /\ tablesUnchanged

\* load_completeness: committed batches received by the frozen as_of_utc.
LoadCompleteness(w) ==
    /\ rpc[w] = "completeness"
    /\ candidate' = [candidate EXCEPT
         ![w].seen = {d \in Committed :
                        receivedAt[d] <= request[target[w]].asOf}]
    /\ rpc' = [rpc EXCEPT ![w] = "fingerprint"]
    /\ UNCHANGED <<request, financialLock, attempt, target, runs, pointer>>
    /\ tablesUnchanged

\* Validation passed; input_fingerprint reads the evidence it identifies.
InputFingerprint(w) ==
    /\ rpc[w] = "fingerprint"
    /\ candidate' = [candidate EXCEPT
         ![w].evidence = FinalBatches,
         ![w].evidenceView = [e \in Entity |-> resolution[e].hash]]
    /\ rpc' = [rpc EXCEPT ![w] = "publish"]
    /\ UNCHANGED <<request, financialLock, attempt, target, runs, pointer>>
    /\ tablesUnchanged

\* Run, result rows, pointer, attempt and request, in one commit.
PublishRun(w) ==
    /\ rpc[w] = "publish"
    /\ MaySucceed(target[w])
    /\ runs' = Append(runs, [request |-> target[w],
                             asOf |-> request[target[w]].asOf,
                             result |-> candidate[w]])
    /\ pointer' = Len(runs) + 1
    /\ MarkSucceeded(target[w], Len(runs) + 1)
    /\ rpc' = [rpc EXCEPT ![w] = "published"]
    /\ UNCHANGED <<financialLock, target, candidate>>
    /\ tablesUnchanged

\* The after_commit hook, raising or not, and the finally clause.
FinishPublished(w) ==
    /\ rpc[w] = "published"
    /\ Release(w)
    /\ UNCHANGED <<request, attempt, runs, pointer>>
    /\ tablesUnchanged

\* Mutant: the session unlocks before the failure is recorded.
FailCandidateUnlocking(w) ==
    /\ rpc[w] \in InTransaction
    /\ rpc' = [rpc EXCEPT ![w] = "failed"]
    /\ financialLock' = NoOne
    /\ UNCHANGED <<request, attempt, target, candidate, runs, pointer>>
    /\ tablesUnchanged

\* Any exception inside the candidate transaction: it rolls back, the
\* session keeps the financial lock.
FailCandidate(w) ==
    /\ rpc[w] \in InTransaction
    /\ rpc' = [rpc EXCEPT ![w] = "failed"]
    /\ UNCHANGED <<request, financialLock, attempt, target, candidate, runs,
                   pointer>>
    /\ tablesUnchanged

\* record_failure in a transaction of its own, then the finally clause.
RecordCandidateFailure(w) ==
    /\ rpc[w] = "failed"
    /\ RecordFailure(target[w])
    /\ Release(w)
    /\ UNCHANGED <<runs, pointer>>
    /\ tablesUnchanged

\* The process or its connection dies (or record_failure itself fails): the
\* server rolls back and releases the session's lock; nothing is recorded.
CrashRecovery(w) ==
    /\ rpc[w] # "idle"
    /\ Release(w)
    /\ UNCHANGED <<request, attempt, runs, pointer>>
    /\ tablesUnchanged

WorkerProgress(w) ==
    \/ TakeRequest(w)
    \/ NoReadyRequest(w)
    \/ BuildCandidate(w)
    \/ LoadCompleteness(w)
    \/ InputFingerprint(w)
    \/ PublishRun(w)
    \/ FinishPublished(w)
    \/ RecordCandidateFailure(w)

RecovererStep(w) ==
    \/ AcquireFinancialLock(w)
    \/ WorkerProgress(w)
    \/ FailCandidate(w)
    \/ CrashRecovery(w)
=============================================================================
