------------------------ MODULE RecoveryQueueProofs -------------------------
(***************************************************************************)
(* Proofs about the queue of recovery requests and the published runs,     *)
(* for any deliveries, workers and numbers of attempts.                    *)
(***************************************************************************)
EXTENDS ReplaySystemProofs

\* The states of a worker whose candidate holds the receipts it has read.
HasCandidate == {"completeness", "fingerprint", "publish"}

\* A step that reads or writes neither the queue nor the publication.
QuietForQueue ==
    /\ UNCHANGED <<batch, request, attempt, runs, pointer>>
    /\ \A w \in Recoverer : rpc'[w] \in HasCandidate =>
          rpc[w] = rpc'[w] /\ candidate'[w] = candidate[w]

\* The steps that matter to the queue and the publication.
LEMMA StepShape ==
    ASSUME ReplayInv, [Next]_vars
    PROVE  \/ QuietForQueue
           \/ \E w \in Ingester : CommitIngestion(w) /\ UNCHANGED recoveryVars
           \/ \E b \in LedgerDelivery : RecordDelivery(b) /\ UNCHANGED recoveryVars
           \/ \E w \in Recoverer :
                 \/ BuildCandidate(w)
                 \/ LoadCompleteness(w)
                 \/ InputFingerprint(w)
                 \/ PublishRun(w)
                 \/ RecordCandidateFailure(w)
           \/ \E d \in Delivery :
                 RequeueFailed(d) /\ UNCHANGED <<workerVars, runs, pointer>>
<1>1. ASSUME NEW w \in Ingester, IngesterStep(w), ~CommitIngestion(w),
             UNCHANGED recoveryVars
      PROVE  QuietForQueue
  BY <1>1 DEF IngesterStep, StartIngestion, LockFinancialState,
     AcquireEntityLock, EntityLocksHeld, ReuseExistingBatch, NoExistingBatch,
     InsertRows, ResolveTouched, AbortIngestion, storeVars, recoveryVars,
     QuietForQueue
<1>2. ASSUME NEW w \in Recoverer,
             \/ NoReadyRequest(w)
             \/ FinishPublished(w)
             \/ CrashRecovery(w)
      PROVE  QuietForQueue
  <2>1. /\ UNCHANGED <<batch, request, attempt, runs, pointer>>
        /\ Release(w) /\ rpc[w] # "idle"
    BY <1>2 DEF NoReadyRequest, FinishPublished, CrashRecovery, tablesUnchanged
  <2>2. /\ rpc'[w] = "idle"
        /\ \A x \in Recoverer \ {w} : rpc'[x] = rpc[x] /\ candidate'[x] = candidate[x]
    BY <2>1, ReleaseType DEF ReplayInv, ReplayTypeInv, RecoveryTypeOK
  <2>. QED  BY <2>1, <2>2 DEF QuietForQueue, HasCandidate
<1>3. ASSUME NEW w \in Recoverer,
             AcquireFinancialLock(w) \/ TakeRequest(w) \/ FailCandidate(w)
      PROVE  QuietForQueue
  <2>1. /\ UNCHANGED <<batch, request, attempt, runs, pointer, candidate>>
        /\ \E s \in {"next", "build", "failed"} : rpc' = [rpc EXCEPT ![w] = s]
    BY <1>3 DEF AcquireFinancialLock, TakeRequest, FailCandidate, tablesUnchanged
  <2>2. /\ rpc'[w] \notin HasCandidate
        /\ \A x \in Recoverer \ {w} : rpc'[x] = rpc[x]
    BY <2>1 DEF ReplayInv, ReplayTypeInv, RecoveryTypeOK, HasCandidate
  <2>. QED  BY <2>1, <2>2 DEF QuietForQueue
<1>4. CASE (Tick /\ UNCHANGED <<ingestVars, recoveryVars>>) \/ UNCHANGED vars
  BY <1>4 DEF Tick, vars, storeVars, recoveryVars, QuietForQueue
<1>. QED  BY <1>1, <1>2, <1>3, <1>4 DEF Next, RecovererStep, WorkerProgress

-----------------------------------------------------------------------------
(* The rows of one request *)

\* The attempt history A of the request row q.
HistoryMatches(q, A) ==
    /\ {x.number : x \in A} = 1 .. q.attempts
    /\ \A x, y \in A : x.number = y.number => x = y
    /\ q.attempts <= q.max
    /\ \A x \in A : x.outcome = "SUCCEEDED" <=>
          q.status = "SUCCEEDED" /\ x.number = q.attempts

\* What the columns of a request row owe each other: a pending request has
\* attempts left, and only a success names a run.
RowIsConsistent(q) ==
    /\ q.status = "NONE" => q.attempts = 0
    /\ q.status = "PENDING" => q.attempts < q.max /\ ~q.completed
    /\ q.status = "FAILED" => q.completed /\ q.error
    /\ q.status = "SUCCEEDED" => q.completed
    /\ q.status # "SUCCEEDED" => q.run = 0

\* One more attempt, whatever its outcome, extends the history by its row.
LEMMA OneMoreAttempt ==
    ASSUME NEW q \in Request, NEW A \in SUBSET Attempt, HistoryMatches(q, A),
           q.status = "PENDING", q.attempts < q.max,
           NEW a \in Attempt, a.number = q.attempts + 1,
           NEW p \in Request, p.attempts = q.attempts + 1, p.max = q.max,
           a.outcome = "SUCCEEDED" <=> p.status = "SUCCEEDED"
    PROVE  HistoryMatches(p, A \cup {a})
<1>1. q.attempts \in Nat /\ q.max \in Nat
  BY DEF Request
<1>2. \A x \in A : x.number \in 1 .. q.attempts /\ x.outcome # "SUCCEEDED"
  BY DEF HistoryMatches
<1>3. 1 .. q.attempts + 1 = (1 .. q.attempts) \cup {q.attempts + 1}
  BY <1>1
<1>4. {x.number : x \in A \cup {a}} = 1 .. p.attempts
  <2>1. {x.number : x \in A \cup {a}} = {x.number : x \in A} \cup {a.number}
    OBVIOUS
  <2>. QED  BY <1>3, <2>1 DEF HistoryMatches
<1>5. \A x \in A : x.number # a.number /\ x.number # p.attempts
  BY <1>1, <1>2
<1>6. \A x, y \in A \cup {a} : x.number = y.number => x = y
  BY <1>5 DEF HistoryMatches
<1>7. p.attempts <= p.max
  BY <1>1
<1>8. \A x \in A \cup {a} : x.outcome = "SUCCEEDED" <=>
          p.status = "SUCCEEDED" /\ x.number = p.attempts
  BY <1>2, <1>5
<1>. QED  BY <1>4, <1>6, <1>7, <1>8 DEF HistoryMatches

LEMMA SucceededRowMatches ==
    ASSUME NEW q \in Request, NEW A \in SUBSET Attempt, HistoryMatches(q, A),
           RowIsConsistent(q), q.status = "PENDING", NEW n \in Nat
    PROVE  LET a == [number |-> q.attempts + 1, outcome |-> "SUCCEEDED", run |-> n]
           IN  /\ HistoryMatches(SucceededRow(q, n), A \cup {a})
               /\ RowIsConsistent(SucceededRow(q, n))
               /\ SucceededRow(q, n).run = n
<1>. DEFINE a == [number |-> q.attempts + 1, outcome |-> "SUCCEEDED", run |-> n]
            p == SucceededRow(q, n)
<1>1. p \in Request /\ p.status = "SUCCEEDED"
  BY SucceededRowType
<1>2. /\ p.attempts = q.attempts + 1 /\ p.max = q.max /\ p.run = n
      /\ p.completed
  BY DEF SucceededRow
<1>3. a \in Attempt /\ a.number = q.attempts + 1 /\ a.outcome = "SUCCEEDED"
  BY DEF Attempt, Request
<1>4. q.attempts < q.max
  BY DEF RowIsConsistent
<1>. HIDE DEF a, p
<1>5. HistoryMatches(p, A \cup {a})
  BY <1>1, <1>2, <1>3, <1>4, OneMoreAttempt
<1>6. RowIsConsistent(p)
  BY <1>1, <1>2 DEF RowIsConsistent
<1>. QED  BY <1>2, <1>5, <1>6 DEF a, p

LEMMA FailedRowMatches ==
    ASSUME NEW q \in Request, NEW A \in SUBSET Attempt, HistoryMatches(q, A),
           RowIsConsistent(q), q.status = "PENDING", now \in Nat
    PROVE  LET a == [number |-> q.attempts + 1, outcome |-> "FAILED", run |-> 0]
           IN  /\ HistoryMatches(FailedRow(q), A \cup {a})
               /\ RowIsConsistent(FailedRow(q))
               /\ FailedRow(q).status # "SUCCEEDED"
               /\ FailedRow(q).run = 0
<1>. DEFINE a == [number |-> q.attempts + 1, outcome |-> "FAILED", run |-> 0]
            p == FailedRow(q)
            x == q.attempts + 1 >= q.max
<1>1. p \in Request /\ p.status # "NONE"
  BY RequestRowTypes
<1>2. /\ p.attempts = q.attempts + 1 /\ p.max = q.max /\ p.run = q.run
      /\ p.status = (IF x THEN "FAILED" ELSE "PENDING")
      /\ p.completed = x /\ p.error
  BY DEF FailedRow
<1>3. a \in Attempt /\ a.number = q.attempts + 1 /\ a.outcome = "FAILED"
  BY DEF Attempt, Request
<1>4. q.attempts < q.max /\ q.run = 0
  BY DEF RowIsConsistent
<1>5. q.attempts \in Nat /\ q.max \in Nat
  BY DEF Request
<1>6. ~x => q.attempts + 1 < q.max
  BY <1>5
<1>. HIDE DEF a, p, x
<1>7. p.status # "SUCCEEDED"
  BY <1>2
<1>8. HistoryMatches(p, A \cup {a})
  BY <1>1, <1>2, <1>3, <1>4, <1>7, OneMoreAttempt
<1>9. RowIsConsistent(p)
  BY <1>1, <1>2, <1>4, <1>6 DEF RowIsConsistent
<1>. QED  BY <1>2, <1>4, <1>7, <1>8, <1>9 DEF a, p

LEMMA RequeuedRowMatches ==
    ASSUME NEW q \in Request, NEW A \in SUBSET Attempt, HistoryMatches(q, A),
           RowIsConsistent(q), q.status = "FAILED"
    PROVE  /\ HistoryMatches(RequeuedRow(q), A)
           /\ RowIsConsistent(RequeuedRow(q))
           /\ RequeuedRow(q).status = "PENDING"
           /\ RequeuedRow(q).run = 0
<1>1. /\ q.attempts \in Nat /\ q.run = 0
      /\ q.attempts < q.attempts + ExtraAttempts
      /\ q.attempts <= q.attempts + ExtraAttempts
  BY QueueAssumption DEF Request, RowIsConsistent
<1>2. /\ RequeuedRow(q).attempts = q.attempts
      /\ RequeuedRow(q).max = q.attempts + ExtraAttempts
      /\ RequeuedRow(q).status = "PENDING" /\ ~RequeuedRow(q).completed
      /\ RequeuedRow(q).run = q.run
  BY DEF RequeuedRow
<1>3. HistoryMatches(RequeuedRow(q), A)
  BY <1>1, <1>2 DEF HistoryMatches
<1>. QED  BY <1>1, <1>2, <1>3 DEF RowIsConsistent

LEMMA NewRowMatches ==
    ASSUME NEW t \in Nat
    PROVE  /\ HistoryMatches(NoRequest, {}) /\ RowIsConsistent(NoRequest)
           /\ HistoryMatches(NewRequest(t), {}) /\ RowIsConsistent(NewRequest(t))
           /\ NewRequest(t).status = "PENDING" /\ NewRequest(t).run = 0
           /\ NoRequest.status = "NONE" /\ NoRequest.run = 0
BY StoreAssumption DEF NewRequest, NoRequest, HistoryMatches, RowIsConsistent
-----------------------------------------------------------------------------
(* The inductive invariant of the queue *)

RowsAreSound ==
    \A d \in Delivery :
        HistoryMatches(request[d], attempt[d]) /\ RowIsConsistent(request[d])

\* Requests and published runs name each other.
RunsMatchRequests ==
    /\ \A i \in 1 .. Len(runs) : request[runs[i].request].run = i
    /\ \A d \in Delivery : request[d].status = "SUCCEEDED" =>
          request[d].run \in 1 .. Len(runs) /\ runs[request[d].run].request = d

QueueInv == RowsAreSound /\ RunsMatchRequests
-----------------------------------------------------------------------------
(* The queue, step by step *)

LEMMA TypesFromInv ==
    ASSUME ReplayInv
    PROVE  /\ request \in [Delivery -> Request]
           /\ attempt \in [Delivery -> SUBSET Attempt]
           /\ batch \in [Batch -> BatchStatus]
           /\ rpc \in [Recoverer -> InTransaction \cup
                          {"idle", "next", "failed", "published"}]
           /\ target \in [Recoverer -> Delivery]
           /\ candidate \in [Recoverer -> Candidate]
           /\ runs \in Seq(Run) /\ Len(runs) \in Nat
           /\ pointer \in 0 .. Len(runs)
           /\ \A i \in 1 .. Len(runs) : runs[i] \in Run /\ runs[i].request \in Delivery
           /\ now \in Nat
<1>1. runs \in Seq(Run)
  BY DEF ReplayInv, ReplayTypeInv, RecoveryTypeOK
<1>2. Len(runs) \in Nat /\ \A i \in 1 .. Len(runs) : runs[i] \in Run
  BY <1>1
<1>3. \A r \in Run : r.request \in Delivery
  BY DEF Run
<1>. QED  BY <1>1, <1>2, <1>3 DEF ReplayInv, ReplayTypeInv, RecoveryTypeOK,
                                  IngestInv, IngestTypeInv, IngestTypeOK

LEMMA CommitIngestionQueue ==
    ASSUME ReplayInv, QueueInv, NEW w \in Ingester, CommitIngestion(w),
           UNCHANGED recoveryVars
    PROVE  QueueInv'
<1>. DEFINE d == job[w]
            p == NewRequest(asOf[w])
<1>1. /\ pc[w] = "commit" /\ d \in Delivery /\ asOf[w] \in Nat
      /\ request' = [request EXCEPT ![d] = p]
      /\ UNCHANGED <<attempt, runs>>
  BY DEF CommitIngestion, ScheduledRequest, recoveryVars, ReplayInv,
         ReplayTypeInv, IngestInv, IngestTypeInv, IngestTypeOK
<1>2. batch[d] = "NONE"
  BY <1>1 DEF ReplayInv, ReplayTypeInv, IngestInv, DeliveryIsNew
<1>3. request[d].status = "NONE"
  BY <1>1, <1>2 DEF ReplayInv, ReplayTypeInv, IngestInv, RetryFindsWholeDelivery
<1>4. request[d].attempts = 0 /\ request[d].run = 0
  BY <1>1, <1>3 DEF QueueInv, RowsAreSound, RowIsConsistent
<1>5. attempt[d] = {}
  <2>1. {x.number : x \in attempt[d]} = {}
    BY <1>1, <1>4 DEF QueueInv, RowsAreSound, HistoryMatches
  <2>. QED  BY <2>1
<1>6. /\ HistoryMatches(p, {}) /\ RowIsConsistent(p)
      /\ p.status = "PENDING" /\ p.run = 0
  BY <1>1, NewRowMatches
<1>. HIDE DEF p
<1>7. request'[d] = p /\ \A c \in Delivery \ {d} : request'[c] = request[c]
  BY <1>1, TypesFromInv
<1>8. RowsAreSound'
  BY <1>1, <1>5, <1>6, <1>7 DEF QueueInv, RowsAreSound
<1>9. \A i \in 1 .. Len(runs) : runs[i].request # d
  BY <1>4 DEF QueueInv, RunsMatchRequests
<1>10. RunsMatchRequests'
  BY <1>1, <1>6, <1>7, <1>9, TypesFromInv DEF QueueInv, RunsMatchRequests
<1>. QED  BY <1>8, <1>10 DEF QueueInv

LEMMA PublishRunQueue ==
    ASSUME ReplayInv, QueueInv, NEW w \in Recoverer, PublishRun(w)
    PROVE  QueueInv'
<1>. DEFINE d == target[w]
            q == request[d]
            n == Len(runs) + 1
            r == [request |-> d, asOf |-> q.asOf, result |-> candidate[w]]
            a == [number |-> q.attempts + 1, outcome |-> "SUCCEEDED", run |-> n]
            p == SucceededRow(q, n)
<1>1. /\ d \in Delivery /\ q \in Request /\ attempt[d] \in SUBSET Attempt
      /\ n \in Nat
  BY TypesFromInv
<1>2. /\ runs' = Append(runs, r) /\ q.status = "PENDING"
      /\ request' = [request EXCEPT ![d] = p]
      /\ attempt' = [attempt EXCEPT ![d] = attempt[d] \cup {a}]
  BY <1>1, TypesFromInv DEF PublishRun, MaySucceed, MarkSucceeded
<1>3. HistoryMatches(q, attempt[d]) /\ RowIsConsistent(q) /\ q.run = 0
  BY <1>1, <1>2 DEF QueueInv, RowsAreSound, RowIsConsistent
<1>4. /\ HistoryMatches(p, attempt[d] \cup {a}) /\ RowIsConsistent(p)
      /\ p.run = n /\ p.status = "SUCCEEDED"
  BY <1>1, <1>2, <1>3, SucceededRowMatches, SucceededRowType
<1>5. r.request = d
  OBVIOUS
<1>. HIDE DEF p, a, r
<1>6. /\ request'[d] = p /\ attempt'[d] = attempt[d] \cup {a}
      /\ \A c \in Delivery \ {d} : request'[c] = request[c] /\ attempt'[c] = attempt[c]
  BY <1>1, <1>2, TypesFromInv
<1>7. RowsAreSound'
  BY <1>4, <1>6 DEF QueueInv, RowsAreSound
<1>8. /\ Len(runs') = n /\ runs'[n] = r
      /\ \A i \in 1 .. Len(runs) : runs'[i] = runs[i]
  BY <1>2, TypesFromInv
<1>9. \A i \in 1 .. Len(runs) : runs[i].request # d
  BY <1>3 DEF QueueInv, RunsMatchRequests
<1>10. 1 .. n = (1 .. Len(runs)) \cup {n}
  BY TypesFromInv
<1>11. \A i \in 1 .. n : request'[runs'[i].request].run = i
  BY <1>4, <1>5, <1>6, <1>8, <1>9, <1>10, TypesFromInv DEF QueueInv, RunsMatchRequests
<1>12. ASSUME NEW c \in Delivery, request'[c].status = "SUCCEEDED"
       PROVE  request'[c].run \in 1 .. n /\ runs'[request'[c].run].request = c
  <2>1. CASE c = d
    BY <1>4, <1>5, <1>6, <1>8, <1>10, <2>1
  <2>2. CASE c # d
    BY <1>6, <1>8, <1>10, <1>12, <2>2 DEF QueueInv, RunsMatchRequests
  <2>. QED  BY <2>1, <2>2
<1>13. RunsMatchRequests'
  BY <1>8, <1>11, <1>12 DEF RunsMatchRequests
<1>. QED  BY <1>7, <1>13 DEF QueueInv

\* A row of a request that has no run is replaced by another without one.
LEMMA UnpublishedRowStep ==
    ASSUME ReplayInv, QueueInv, UNCHANGED runs, NEW d \in Delivery,
           \A c \in Delivery \ {d} :
              request'[c] = request[c] /\ attempt'[c] = attempt[c],
           request[d].run = 0, request'[d].run = 0,
           request'[d].status # "SUCCEEDED",
           HistoryMatches(request'[d], attempt'[d]),
           RowIsConsistent(request'[d])
    PROVE  QueueInv'
<1>1. RowsAreSound'
  BY DEF QueueInv, RowsAreSound
<1>2. \A i \in 1 .. Len(runs) : runs[i].request \in Delivery \ {d}
  BY TypesFromInv DEF QueueInv, RunsMatchRequests
<1>3. RunsMatchRequests'
  BY <1>2 DEF QueueInv, RunsMatchRequests
<1>. QED  BY <1>1, <1>3 DEF QueueInv

LEMMA RecordFailureQueue ==
    ASSUME ReplayInv, QueueInv, NEW w \in Recoverer, RecordCandidateFailure(w)
    PROVE  QueueInv'
<1>. DEFINE d == target[w]
            q == request[d]
            a == [number |-> q.attempts + 1, outcome |-> "FAILED", run |-> 0]
            p == FailedRow(q)
<1>1. /\ d \in Delivery /\ q \in Request /\ attempt[d] \in SUBSET Attempt
      /\ now \in Nat
  BY TypesFromInv
<1>2. UNCHANGED runs /\ RecordFailure(d)
  BY DEF RecordCandidateFailure
<1>3. CASE q.status # "PENDING"
  BY <1>2, <1>3 DEF RecordFailure, QueueInv, RowsAreSound, RunsMatchRequests
<1>4. CASE q.status = "PENDING"
  <2>1. /\ request' = [request EXCEPT ![d] = p]
        /\ attempt' = [attempt EXCEPT ![d] = attempt[d] \cup {a}]
    BY <1>1, <1>2, <1>4, TypesFromInv DEF RecordFailure
  <2>2. HistoryMatches(q, attempt[d]) /\ RowIsConsistent(q) /\ q.run = 0
    BY <1>1, <1>4 DEF QueueInv, RowsAreSound, RowIsConsistent
  <2>3. /\ HistoryMatches(p, attempt[d] \cup {a}) /\ RowIsConsistent(p)
        /\ p.run = 0 /\ p.status # "SUCCEEDED"
    BY <1>1, <1>4, <2>2, FailedRowMatches
  <2>. HIDE DEF p, a
  <2>4. /\ request'[d] = p /\ attempt'[d] = attempt[d] \cup {a}
        /\ \A c \in Delivery \ {d} :
              request'[c] = request[c] /\ attempt'[c] = attempt[c]
    BY <1>1, <2>1, TypesFromInv
  <2>. QED  BY <1>1, <1>2, <2>2, <2>3, <2>4, UnpublishedRowStep
<1>. QED  BY <1>3, <1>4

LEMMA RequeueQueue ==
    ASSUME ReplayInv, QueueInv, NEW d \in Delivery, RequeueFailed(d), UNCHANGED runs
    PROVE  QueueInv'
<1>. DEFINE q == request[d]
            p == RequeuedRow(q)
<1>1. /\ q \in Request /\ attempt[d] \in SUBSET Attempt /\ q.status = "FAILED"
      /\ request' = [request EXCEPT ![d] = p] /\ attempt' = attempt
  BY TypesFromInv DEF RequeueFailed
<1>2. HistoryMatches(q, attempt[d]) /\ RowIsConsistent(q) /\ q.run = 0
  BY <1>1 DEF QueueInv, RowsAreSound, RowIsConsistent
<1>3. /\ HistoryMatches(p, attempt[d]) /\ RowIsConsistent(p)
      /\ p.status = "PENDING" /\ p.run = 0
  BY <1>1, <1>2, RequeuedRowMatches
<1>. HIDE DEF p
<1>4. request'[d] = p /\ \A c \in Delivery \ {d} : request'[c] = request[c]
  BY <1>1, TypesFromInv
<1>. QED  BY <1>1, <1>2, <1>3, <1>4, UnpublishedRowStep

LEMMA QueueInvStep ==
    ASSUME ReplayInv, QueueInv, [Next]_vars  PROVE QueueInv'
<1>1. ASSUME UNCHANGED <<request, attempt, runs>>  PROVE QueueInv'
  BY <1>1 DEF QueueInv, RowsAreSound, RunsMatchRequests
<1>2. CASE QuietForQueue
  BY <1>1, <1>2 DEF QuietForQueue
<1>3. ASSUME NEW b \in LedgerDelivery, RecordDelivery(b), UNCHANGED recoveryVars
      PROVE  QueueInv'
  BY <1>1, <1>3 DEF RecordDelivery, recoveryVars
<1>4. ASSUME NEW w \in Recoverer,
             BuildCandidate(w) \/ LoadCompleteness(w) \/ InputFingerprint(w)
      PROVE  QueueInv'
  BY <1>1, <1>4 DEF BuildCandidate, LoadCompleteness, InputFingerprint
<1>. QED  BY <1>2, <1>3, <1>4, StepShape, CommitIngestionQueue, PublishRunQueue,
             RecordFailureQueue, RequeueQueue

LEMMA QueueInvInit == Init => QueueInv
<1>. SUFFICES ASSUME Init  PROVE QueueInv
  OBVIOUS
<1>1. /\ request = [d \in Delivery |-> NoRequest]
      /\ attempt = [d \in Delivery |-> {}] /\ runs = <<>>
  BY DEF Init, StoreInit, RecoveryInit, QueueInit
<1>2. /\ HistoryMatches(NoRequest, {}) /\ RowIsConsistent(NoRequest)
      /\ NoRequest.status = "NONE"
  BY NewRowMatches, 0 \in Nat
<1>3. RowsAreSound
  BY <1>1, <1>2 DEF RowsAreSound
<1>4. RunsMatchRequests
  BY <1>1, <1>2 DEF RunsMatchRequests
<1>. QED  BY <1>3, <1>4 DEF QueueInv

LEMMA QueueInvariant == Spec => [](ReplayInv /\ QueueInv)
<1>1. ReplayInv /\ QueueInv /\ [Next]_vars => QueueInv'
  BY QueueInvStep
<1>. QED  BY <1>1, QueueInvInit, ReplayInvariant, PTL DEF Spec

\* The attempt history of every request is the one its row counts, and every
\* published run belongs to exactly one request, for any number of workers,
\* retries, crashes and requeues: no request is ever published twice.
THEOREM QueueCorrect == Spec => []AttemptsMatchQueue
<1>1. QueueInv => AttemptsMatchQueue
  BY DEF QueueInv, RowsAreSound, RunsMatchRequests, HistoryMatches,
         AttemptsMatchQueue
<1>. QED  BY <1>1, QueueInvariant, PTL

LEMMA InspectionFromInv ==
    ASSUME ReplayInv, QueueInv  PROVE InspectionIsTotal
<1>. SUFFICES ASSUME NEW d \in Delivery, Rows[d] # <<>>
              PROVE  InspectRecovery(d) # "ERROR"
  BY DEF InspectionIsTotal
<1>. DEFINE q == request[d]
<1>1. q \in Request /\ q.status \in {"NONE", "PENDING", "SUCCEEDED", "FAILED"}
  BY TypesFromInv DEF Request
<1>2. q.status # "NONE" => SourceBatchStatus(d) = "COMMITTED"
  BY DEF SourceBatchStatus, ReplayInv, ReplayTypeInv, IngestInv,
         RetryFindsWholeDelivery, ExistingIsBroken
<1>3. q.status = "SUCCEEDED" => HasCommittedResult(d)
  BY DEF HasCommittedResult, QueueInv, RowsAreSound, RunsMatchRequests,
         RowIsConsistent
<1>4. q.status = "FAILED" => HasConsistentFailure(d)
  BY DEF HasConsistentFailure, QueueInv, RowsAreSound, RowIsConsistent
<1>5. q.status = "PENDING" => HasConsistentBudget(d)
  BY DEF HasConsistentBudget, QueueInv, RowsAreSound, RowIsConsistent
<1>. QED  BY <1>1, <1>2, <1>3, <1>4, <1>5 DEF InspectRecovery

\* No reachable state of a request with a receipt makes inspect_recovery raise
\* a RecoveryStateError.
THEOREM InspectionCorrect == Spec => []InspectionIsTotal
<1>1. ReplayInv /\ QueueInv => InspectionIsTotal
  BY InspectionFromInv
<1>. QED  BY <1>1, QueueInvariant, PTL
-----------------------------------------------------------------------------
(* Publication *)

\* Only PublishRun touches the runs and the pointer.
LEMMA OnlyPublishRunPublishes ==
    ASSUME ReplayInv, [Next]_vars, ~(\E w \in Recoverer : PublishRun(w))
    PROVE  UNCHANGED <<runs, pointer>>
BY StepShape DEF QuietForQueue, recoveryVars, BuildCandidate, LoadCompleteness,
   InputFingerprint, RecordCandidateFailure

\* What PublishRun does to the runs and the pointer.
LEMMA PublishRunAppends ==
    ASSUME ReplayInv, NEW w \in Recoverer, PublishRun(w)
    PROVE  /\ Len(runs') = Len(runs) + 1 /\ pointer' = Len(runs')
           /\ \A i \in 1 .. Len(runs) : runs'[i] = runs[i]
           /\ runs'[Len(runs) + 1].result = candidate[w]
           /\ 1 .. Len(runs') = (1 .. Len(runs)) \cup {Len(runs) + 1}
           /\ rpc[w] = "publish" /\ rpc'[w] = "published"
           /\ candidate' = candidate /\ batch' = batch
           /\ \A x \in Recoverer \ {w} : rpc[x] = "idle" /\ rpc'[x] = "idle"
<1>. DEFINE r == [request |-> target[w], asOf |-> request[target[w]].asOf,
                  result |-> candidate[w]]
<1>1. /\ runs' = Append(runs, r) /\ pointer' = Len(runs) + 1
      /\ rpc[w] = "publish" /\ rpc' = [rpc EXCEPT ![w] = "published"]
      /\ candidate' = candidate /\ batch' = batch
  BY DEF PublishRun, tablesUnchanged
<1>2. r.result = candidate[w]
  OBVIOUS
<1>. HIDE DEF r
<1>3. /\ Len(runs') = Len(runs) + 1 /\ runs'[Len(runs) + 1] = r
      /\ \A i \in 1 .. Len(runs) : runs'[i] = runs[i]
  BY <1>1, TypesFromInv
<1>4. \A x \in Recoverer \ {w} : rpc[x] = "idle" /\ rpc'[x] = "idle"
  BY <1>1, TypesFromInv DEF ReplayInv, ReplayTypeInv, WorkerHoldsLock
<1>5. 1 .. Len(runs) + 1 = (1 .. Len(runs)) \cup {Len(runs) + 1}
  BY TypesFromInv
<1>. QED  BY <1>1, <1>2, <1>3, <1>4, <1>5, TypesFromInv
-----------------------------------------------------------------------------
(* The request a worker has taken *)

Settling == InTransaction \cup {"failed"}

\* A worker at work is the only one, and nobody ingests meanwhile.
LEMMA WorkerIsAlone ==
    ASSUME ReplayInv, NEW w \in Recoverer, rpc[w] # "idle"
    PROVE  /\ \A x \in Recoverer \ {w} : rpc[x] = "idle"
           /\ \A v \in Ingester : ~CommitIngestion(v)
<1>1. financialLock = w
  BY DEF ReplayInv, ReplayTypeInv, WorkerHoldsLock
<1>2. \A x \in Recoverer \ {w} : rpc[x] = "idle"
  BY <1>1 DEF ReplayInv, ReplayTypeInv, WorkerHoldsLock
<1>3. ASSUME NEW v \in Ingester, CommitIngestion(v)
      PROVE  FALSE
  <2>1. pc[v] = "commit"
    BY <1>3 DEF CommitIngestion
  <2>2. financialLock = v
    BY <2>1 DEF ReplayInv, ReplayTypeInv, IngestInv, LockIsHeld, Holding
  <2>. QED  BY <1>1, <2>2, SystemAssumption
<1>. QED  BY <1>2, <1>3

\* A step of a worker: it takes a request, goes on with it, or is done with it.
LEMMA WorkerStepKeepsTaken ==
    ASSUME ReplayInv, TakenStaysPending, NEW w \in Recoverer, RecovererStep(w)
    PROVE  TakenStaysPending'
<1>1. /\ rpc \in [Recoverer -> InTransaction \cup
                     {"idle", "next", "failed", "published"}]
      /\ target \in [Recoverer -> Delivery]
      /\ request \in [Delivery -> Request]
  BY TypesFromInv
<1>2. ASSUME rpc[w] # "idle", \A x \in Recoverer \ {w} : rpc'[x] = rpc[x],
             rpc'[w] \in Settling => MaySucceed(target[w])'
      PROVE  TakenStaysPending'
  BY <1>2, WorkerIsAlone DEF TakenStaysPending, Settling, InTransaction
<1>3. CASE AcquireFinancialLock(w)
  BY <1>1, <1>3 DEF AcquireFinancialLock, TakenStaysPending, MaySucceed,
     InTransaction
<1>4. CASE TakeRequest(w)
  <2>1. PICK d \in NextReady : target' = [target EXCEPT ![w] = d]
    BY <1>4 DEF TakeRequest
  <2>2. /\ d \in Delivery /\ request[d].status = "PENDING"
        /\ request[d].attempts < request[d].max
    BY <2>1 DEF NextReady, IsReady
  <2>3. request[d].attempts \in Nat /\ request[d].max \in Nat
    BY <1>1, <2>2 DEF Request
  <2>4. MaySucceed(d)
    BY <2>2, <2>3 DEF MaySucceed
  <2>5. /\ rpc' = [rpc EXCEPT ![w] = "build"] /\ rpc[w] = "next"
        /\ UNCHANGED request /\ target'[w] = d
    BY <1>1, <1>4, <2>1 DEF TakeRequest
  <2>. QED  BY <1>1, <1>2, <2>4, <2>5 DEF MaySucceed
<1>5. CASE \/ BuildCandidate(w) \/ LoadCompleteness(w) \/ InputFingerprint(w)
           \/ FailCandidate(w)
  <2>1. /\ rpc[w] \in InTransaction /\ UNCHANGED <<request, target>>
        /\ \E s : rpc' = [rpc EXCEPT ![w] = s]
    BY <1>5 DEF BuildCandidate, LoadCompleteness, InputFingerprint, FailCandidate,
       InTransaction
  <2>2. MaySucceed(target[w]) /\ rpc[w] # "idle"
    BY <2>1 DEF TakenStaysPending, InTransaction
  <2>. QED  BY <1>1, <1>2, <2>1, <2>2 DEF MaySucceed
<1>6. CASE PublishRun(w)
  BY <1>1, <1>2, <1>6 DEF PublishRun, Settling, InTransaction
<1>7. CASE \/ NoReadyRequest(w) \/ FinishPublished(w) \/ CrashRecovery(w)
           \/ RecordCandidateFailure(w)
  <2>1. rpc[w] # "idle" /\ rpc' = [rpc EXCEPT ![w] = "idle"]
    BY <1>7 DEF NoReadyRequest, FinishPublished, CrashRecovery,
       RecordCandidateFailure, Release
  <2>. QED  BY <1>1, <1>2, <2>1 DEF Settling, InTransaction
<1>. QED  BY <1>3, <1>4, <1>5, <1>6, <1>7 DEF RecovererStep, WorkerProgress

LEMMA NextKeepsTaken ==
    ASSUME ReplayInv, TakenStaysPending, [Next]_vars
    PROVE  TakenStaysPending'
<1>1. ASSUME NEW w \in Recoverer, RecovererStep(w)
      PROVE  TakenStaysPending'
  BY <1>1, WorkerStepKeepsTaken
<1>2. ASSUME NEW d \in Delivery, RequeueFailed(d), UNCHANGED workerVars
      PROVE  TakenStaysPending'
  <2>1. UNCHANGED <<rpc, target>>
    BY <1>2 DEF workerVars
  <2>. SUFFICES ASSUME NEW w \in Recoverer, rpc[w] \in Settling
                PROVE  MaySucceed(target[w])'
    BY <2>1 DEF TakenStaysPending, Settling
  <2>2. MaySucceed(target[w]) /\ target[w] \in Delivery
    BY TypesFromInv DEF TakenStaysPending, Settling
  <2>3. target[w] # d
    BY <1>2, <2>2 DEF RequeueFailed, MaySucceed
  <2>4. request'[target[w]] = request[target[w]]
    BY <1>2, <2>2, <2>3, TypesFromInv DEF RequeueFailed
  <2>. QED  BY <2>1, <2>2, <2>4 DEF MaySucceed
<1>3. ASSUME NEW v \in Ingester, CommitIngestion(v), UNCHANGED recoveryVars
      PROVE  TakenStaysPending'
  <2>1. \A w \in Recoverer : rpc[w] = "idle"
    BY <1>3, WorkerIsAlone
  <2>. QED  BY <1>3, <2>1 DEF TakenStaysPending, recoveryVars, InTransaction
<1>4. CASE UNCHANGED <<request, rpc, target>>
  BY <1>4 DEF TakenStaysPending, MaySucceed
<1>5. ASSUME NEW v \in Ingester, IngesterStep(v), ~CommitIngestion(v)
      PROVE  UNCHANGED request
  BY <1>5 DEF IngesterStep, StartIngestion, LockFinancialState,
     AcquireEntityLock, EntityLocksHeld, ReuseExistingBatch, NoExistingBatch,
     InsertRows, ResolveTouched, AbortIngestion, storeVars
<1>6. ASSUME NEW b \in LedgerDelivery, RecordDelivery(b)
      PROVE  UNCHANGED request
  BY <1>6 DEF RecordDelivery
<1>7. Tick \/ UNCHANGED vars => UNCHANGED request
  BY DEF Tick, vars, storeVars
<1>. QED  BY <1>1, <1>2, <1>3, <1>4, <1>5, <1>6, <1>7
          DEF Next, vars, recoveryVars

\* For any number of workers, ingesters, operators and crashes: the request a
\* worker has taken is still pending when run_next settles it, also between the
\* rollback of its candidate and the transaction of record_failure.
THEOREM TakenCorrect == Spec => []TakenStaysPending
<1>1. Init => TakenStaysPending
  BY DEF Init, RecoveryInit, TakenStaysPending, InTransaction
<1>2. ReplayInv /\ TakenStaysPending /\ [Next]_vars => TakenStaysPending'
  BY NextKeepsTaken
<1>. QED  BY <1>1, <1>2, ReplayInvariant, PTL DEF Spec
-----------------------------------------------------------------------------
(* Evidence *)

\* The publications and the candidates on their way: no run and no candidate
\* uses a batch that is not final, and a candidate uses all that the
\* published run uses, because the pointer only moves under the lock.
EvidenceIsCovered ==
    /\ \A i \in 1 .. Len(runs) : runs[i].result.used \subseteq FinalBatches
    /\ \A w \in Recoverer : rpc[w] \in HasCandidate =>
          /\ candidate[w].used \subseteq FinalBatches
          /\ pointer # 0 => runs[pointer].result.used \subseteq candidate[w].used

\* The later statement that reads the fingerprint's evidence finds at least
\* what the candidate used, and the same resolutions.
FingerprintCoversInput ==
    \A i \in 1 .. Len(runs) :
        /\ runs[i].result.used \subseteq runs[i].result.evidence
        /\ runs[i].result.view = runs[i].result.evidenceView

CandidateIsCovered ==
    \A w \in Recoverer : rpc[w] = "publish" =>
        /\ candidate[w].used \subseteq candidate[w].evidence
        /\ candidate[w].view = candidate[w].evidenceView

\* The older writer has recorded no delivery with batch-level issues yet.
NothingDefective == \A b \in LedgerDelivery : batch[b] # "FAILED"

\* Until it does, nothing is finalized while a worker holds the financial lock.
CandidateIsFinal ==
    \A w \in Recoverer :
        /\ rpc[w] \in HasCandidate => candidate[w].used = FinalBatches
        /\ rpc[w] = "publish" => candidate[w].evidence = FinalBatches

EvidenceGrowthInv == EvidenceIsCovered /\ FingerprintCoversInput /\ CandidateIsCovered

\* Batches are finalized and stay so; while a worker works only the older
\* writer finalizes one, a defective delivery.
LEMMA FinalBatchesStep ==
    ASSUME ReplayInv, [Next]_vars
    PROVE  /\ FinalBatches \subseteq FinalBatches'
           /\ NothingDefective' => NothingDefective
           /\ \A w \in Recoverer : rpc[w] # "idle" /\ NothingDefective' =>
                 FinalBatches' = FinalBatches
<1>1. ASSUME batch' = batch
      PROVE  FinalBatches' = FinalBatches /\ NothingDefective' = NothingDefective
  BY <1>1 DEF FinalBatches, NothingDefective
<1>2. ASSUME NEW w \in Ingester, CommitIngestion(w), UNCHANGED recoveryVars
      PROVE  /\ FinalBatches \subseteq FinalBatches'
             /\ NothingDefective' => NothingDefective
             /\ \A x \in Recoverer : rpc[x] = "idle"
  <2>1. pc[w] = "commit" /\ batch' = [batch EXCEPT ![job[w]] = "COMMITTED"]
    BY <1>2 DEF CommitIngestion
  <2>2. financialLock = w
    BY <2>1 DEF ReplayInv, ReplayTypeInv, IngestInv, LockIsHeld, Holding
  <2>3. \A x \in Recoverer : rpc[x] = "idle"
    BY <2>2, SystemAssumption DEF ReplayInv, ReplayTypeInv, WorkerHoldsLock
  <2>4. job[w] \in Delivery /\ job[w] \notin LedgerDelivery
    BY StoreAssumption DEF ReplayInv, ReplayTypeInv, IngestInv, IngestTypeInv,
       IngestTypeOK
  <2>. QED  BY <2>1, <2>3, <2>4, TypesFromInv DEF FinalBatches, NothingDefective
<1>3. ASSUME NEW b \in LedgerDelivery, RecordDelivery(b)
      PROVE  /\ FinalBatches \subseteq FinalBatches'
             /\ NothingDefective' => NothingDefective
             /\ NothingDefective' => FinalBatches' = FinalBatches
  <2>1. /\ batch[b] = "NONE" /\ b \in Batch
        /\ batch' = [batch EXCEPT
              ![b] = IF b \in DefectiveDelivery THEN "FAILED" ELSE "PROCESSING"]
    BY <1>3 DEF RecordDelivery, Batch
  <2>. QED  BY <2>1, TypesFromInv DEF FinalBatches, NothingDefective
<1>4. CASE batch' = batch
  BY <1>1, <1>4
<1>5. \/ batch' = batch
      \/ \E w \in Ingester : CommitIngestion(w) /\ UNCHANGED recoveryVars
      \/ \E b \in LedgerDelivery : RecordDelivery(b)
  BY StepShape DEF QuietForQueue, BuildCandidate, LoadCompleteness,
     InputFingerprint, PublishRun, RecordCandidateFailure, tablesUnchanged,
     RequeueFailed
<1>. QED  BY <1>2, <1>3, <1>4, <1>5

\* A step that neither publishes nor reads evidence for a candidate.
LEMMA OtherCandidates ==
    ASSUME ReplayInv, [Next]_vars,
           ~ \E w \in Recoverer :
                \/ BuildCandidate(w)
                \/ LoadCompleteness(w)
                \/ InputFingerprint(w)
                \/ PublishRun(w)
    PROVE  \A w \in Recoverer : rpc'[w] \in HasCandidate =>
              rpc[w] = rpc'[w] /\ candidate'[w] = candidate[w]
<1>1. ASSUME NEW w \in Recoverer, RecordCandidateFailure(w)
      PROVE  \A x \in Recoverer : rpc'[x] \in HasCandidate =>
                rpc[x] = rpc'[x] /\ candidate'[x] = candidate[x]
  <2>1. Release(w) /\ rpc[w] # "idle"
    BY <1>1 DEF RecordCandidateFailure
  <2>2. /\ rpc'[w] = "idle"
        /\ \A x \in Recoverer \ {w} : rpc'[x] = rpc[x] /\ candidate'[x] = candidate[x]
    BY <2>1, ReleaseType, TypesFromInv DEF ReplayInv
  <2>. QED  BY <2>2 DEF HasCandidate
<1>. QED  BY <1>1, StepShape DEF QuietForQueue, recoveryVars, workerVars

\* What each of the three reads leaves in the worker's candidate.
LEMMA CandidateReads ==
    ASSUME ReplayInv, NEW w \in Recoverer
    PROVE  /\ BuildCandidate(w) =>
                /\ rpc'[w] = "completeness"
                /\ candidate'[w].used = FinalBatches
           /\ LoadCompleteness(w) =>
                /\ rpc[w] = "completeness" /\ rpc'[w] = "fingerprint"
                /\ candidate'[w].used = candidate[w].used
           /\ InputFingerprint(w) =>
                /\ rpc[w] = "fingerprint" /\ rpc'[w] = "publish"
                /\ candidate'[w].used = candidate[w].used
                /\ candidate'[w].view = candidate[w].view
                /\ candidate'[w].evidence = FinalBatches
                /\ candidate'[w].evidenceView = [e \in Entity |-> resolution[e].hash]
           /\ BuildCandidate(w) \/ LoadCompleteness(w) \/ InputFingerprint(w) =>
                /\ UNCHANGED <<batch, runs, pointer>>
                /\ rpc[w] # "idle"
                /\ \A x \in Recoverer \ {w} : rpc'[x] = "idle"
<1>1. candidate[w] \in Candidate
  BY TypesFromInv
<1>2. BuildCandidate(w) =>
         /\ rpc'[w] = "completeness"
         /\ candidate'[w].used = FinalBatches
  BY <1>1, TypesFromInv DEF BuildCandidate, Candidate
<1>3. LoadCompleteness(w) =>
         /\ rpc[w] = "completeness" /\ rpc'[w] = "fingerprint"
         /\ candidate'[w].used = candidate[w].used
  BY <1>1, TypesFromInv DEF LoadCompleteness, Candidate
<1>4. InputFingerprint(w) =>
         /\ rpc[w] = "fingerprint" /\ rpc'[w] = "publish"
         /\ candidate'[w].used = candidate[w].used
         /\ candidate'[w].view = candidate[w].view
         /\ candidate'[w].evidence = FinalBatches
         /\ candidate'[w].evidenceView = [e \in Entity |-> resolution[e].hash]
  BY <1>1, TypesFromInv DEF InputFingerprint, Candidate
<1>5. ASSUME BuildCandidate(w) \/ LoadCompleteness(w) \/ InputFingerprint(w)
      PROVE  /\ UNCHANGED <<batch, runs, pointer>>
             /\ rpc[w] # "idle"
             /\ \A x \in Recoverer \ {w} : rpc'[x] = "idle"
  <2>1. /\ UNCHANGED <<batch, runs, pointer>> /\ rpc[w] # "idle"
        /\ \A x \in Recoverer \ {w} : rpc'[x] = rpc[x]
    BY <1>5, TypesFromInv DEF BuildCandidate, LoadCompleteness,
       InputFingerprint, tablesUnchanged
  <2>. QED  BY <2>1 DEF ReplayInv, ReplayTypeInv, WorkerHoldsLock
<1>. QED  BY <1>2, <1>3, <1>4, <1>5

\* The resolutions hold the canonical payloads that the candidate computed.
LEMMA ResolutionsAreCurrentView ==
    ASSUME ReplayInv  PROVE [e \in Entity |-> resolution[e].hash] = CurrentView
<1>1. ResolutionMatchesCanonical
  BY CanonicalFromInv DEF ReplayInv, ReplayTypeInv
<1>2. ASSUME NEW e \in Entity
      PROVE  resolution[e].hash = CanonicalHash(VariantsIn(Committed, e))
  <2>. DEFINE V == VariantsIn(Committed, e)
  <2>1. IF V = {} THEN resolution[e] = NoResolution
        ELSE resolution[e] =
               [state   |-> IF IsConflicted(V) THEN "CONFLICTED" ELSE "ACCEPTED",
                version |-> WinningVersion(V),
                hash    |-> CanonicalHash(V)]
    BY <1>1 DEF ResolutionMatchesCanonical
  <2>. HIDE DEF V
  <2>2. V = {} => CanonicalHash(V) = NoHash
    BY DEF CanonicalHash
  <2>3. resolution[e].hash = CanonicalHash(V)
    BY <2>1, <2>2 DEF NoResolution
  <2>. QED  BY <2>3 DEF V
<1>. QED  BY <1>2 DEF CurrentView

LEMMA EvidenceIsCoveredStep ==
    ASSUME ReplayInv, EvidenceIsCovered, [Next]_vars  PROVE EvidenceIsCovered'
<1>1. FinalBatches \subseteq FinalBatches'
  BY FinalBatchesStep
<1>2. ASSUME NEW w \in Recoverer, PublishRun(w)  PROVE EvidenceIsCovered'
  BY <1>1, <1>2, PublishRunAppends DEF EvidenceIsCovered, HasCandidate
<1>3. ASSUME NEW w \in Recoverer,
             BuildCandidate(w) \/ LoadCompleteness(w) \/ InputFingerprint(w)
      PROVE  EvidenceIsCovered'
  <2>1. /\ UNCHANGED <<batch, runs, pointer>>
        /\ \A x \in Recoverer \ {w} : rpc'[x] \notin HasCandidate
        /\ \/ candidate'[w].used = FinalBatches
           \/ rpc[w] \in HasCandidate /\ candidate'[w].used = candidate[w].used
    BY <1>3, CandidateReads DEF HasCandidate
  <2>2. FinalBatches' = FinalBatches
    BY <2>1 DEF FinalBatches
  <2>3. pointer # 0 => pointer \in 1 .. Len(runs)
    BY TypesFromInv
  <2>4. /\ candidate'[w].used \subseteq FinalBatches
        /\ pointer # 0 => runs[pointer].result.used \subseteq candidate'[w].used
    BY <2>1, <2>3 DEF EvidenceIsCovered
  <2>. QED  BY <2>1, <2>2, <2>4 DEF EvidenceIsCovered
<1>4. CASE ~ \E w \in Recoverer :
                \/ BuildCandidate(w)
                \/ LoadCompleteness(w)
                \/ InputFingerprint(w)
                \/ PublishRun(w)
  <2>1. UNCHANGED <<runs, pointer>>
    BY <1>4, OnlyPublishRunPublishes
  <2>2. \A w \in Recoverer : rpc'[w] \in HasCandidate =>
              rpc[w] = rpc'[w] /\ candidate'[w] = candidate[w]
    BY <1>4, OtherCandidates
  <2>. QED  BY <1>1, <2>1, <2>2 DEF EvidenceIsCovered
<1>. QED  BY <1>2, <1>3, <1>4

LEMMA FingerprintCoversStep ==
    ASSUME ReplayInv, EvidenceGrowthInv, [Next]_vars
    PROVE  (FingerprintCoversInput /\ CandidateIsCovered)'
<1>1. ASSUME NEW w \in Recoverer, PublishRun(w)
      PROVE  (FingerprintCoversInput /\ CandidateIsCovered)'
  BY <1>1, PublishRunAppends DEF EvidenceGrowthInv, FingerprintCoversInput,
     CandidateIsCovered
<1>2. ASSUME NEW w \in Recoverer, BuildCandidate(w) \/ LoadCompleteness(w)
      PROVE  (FingerprintCoversInput /\ CandidateIsCovered)'
  BY <1>2, CandidateReads DEF EvidenceGrowthInv, FingerprintCoversInput,
     CandidateIsCovered
<1>3. ASSUME NEW w \in Recoverer, InputFingerprint(w)
      PROVE  (FingerprintCoversInput /\ CandidateIsCovered)'
  <2>1. /\ candidate'[w].used = candidate[w].used
        /\ candidate'[w].view = candidate[w].view
        /\ candidate'[w].evidence = FinalBatches
        /\ candidate'[w].evidenceView = CurrentView
        /\ rpc[w] = "fingerprint" /\ UNCHANGED runs
        /\ \A x \in Recoverer \ {w} : rpc'[x] = "idle"
    BY <1>3, CandidateReads, ResolutionsAreCurrentView
  <2>2. candidate[w].used \subseteq FinalBatches /\ candidate[w].view = CurrentView
    BY <2>1 DEF EvidenceGrowthInv, EvidenceIsCovered, HasCandidate, ReplayInv,
       CandidateIsCurrent
  <2>. QED  BY <2>1, <2>2 DEF EvidenceGrowthInv, FingerprintCoversInput,
               CandidateIsCovered
<1>4. CASE ~ \E w \in Recoverer :
                \/ BuildCandidate(w)
                \/ LoadCompleteness(w)
                \/ InputFingerprint(w)
                \/ PublishRun(w)
  <2>1. UNCHANGED <<runs, pointer>>
    BY <1>4, OnlyPublishRunPublishes
  <2>2. \A w \in Recoverer : rpc'[w] = "publish" =>
              rpc[w] = rpc'[w] /\ candidate'[w] = candidate[w]
    BY <1>4, OtherCandidates DEF HasCandidate
  <2>. QED  BY <2>1, <2>2 DEF EvidenceGrowthInv, FingerprintCoversInput,
               CandidateIsCovered
<1>. QED  BY <1>1, <1>2, <1>3, <1>4

LEMMA EvidenceGrowthInit ==
    Init => EvidenceGrowthInv /\ CandidateIsFinal /\ FingerprintIdentifiesInput
BY DEF Init, RecoveryInit, EvidenceGrowthInv, EvidenceIsCovered,
   FingerprintCoversInput, CandidateIsCovered, HasCandidate, CandidateIsFinal,
   FingerprintIdentifiesInput

LEMMA EvidenceInvariant == Spec => [](ReplayInv /\ EvidenceGrowthInv)
<1>1. Init => EvidenceGrowthInv
  BY EvidenceGrowthInit
<1>2. ReplayInv /\ EvidenceGrowthInv /\ [Next]_vars => EvidenceGrowthInv'
  BY EvidenceIsCoveredStep, FingerprintCoversStep DEF EvidenceGrowthInv
<1>. QED  BY <1>1, <1>2, ReplayInvariant, PTL DEF Spec

PublishedEvidenceStep ==
    pointer # 0 => runs[pointer].result.used \subseteq runs'[pointer'].result.used

LEMMA EvidenceNeverShrinks ==
    ASSUME ReplayInv, EvidenceGrowthInv, [Next]_vars  PROVE PublishedEvidenceStep
<1>1. ASSUME NEW w \in Recoverer, PublishRun(w)  PROVE PublishedEvidenceStep
  <2>1. runs'[pointer'].result = candidate[w] /\ rpc[w] \in HasCandidate
    BY <1>1, PublishRunAppends DEF HasCandidate
  <2>. QED  BY <2>1 DEF EvidenceGrowthInv, EvidenceIsCovered, PublishedEvidenceStep
<1>2. CASE UNCHANGED <<runs, pointer>>
  BY <1>2 DEF PublishedEvidenceStep
<1>. QED  BY <1>1, <1>2, OnlyPublishRunPublishes

\* The evidence behind the published result never shrinks, whichever old
\* request is retried and whichever worker publishes.
THEOREM EvidenceGrows == Spec => PublishedEvidenceGrows
<1>1. ReplayInv /\ EvidenceGrowthInv /\ [Next]_vars => PublishedEvidenceStep
  BY EvidenceNeverShrinks
<1>. QED  BY <1>1, EvidenceInvariant, PTL
          DEF Spec, PublishedEvidenceGrows, PublishedEvidenceStep

\* Whatever the older writer records meanwhile, the input fingerprint of a
\* published run covers every batch the run used and identifies exactly the
\* resolutions its amounts came from.
THEOREM FingerprintCovers == Spec => []FingerprintCoversInput
<1>1. EvidenceGrowthInv => FingerprintCoversInput
  BY DEF EvidenceGrowthInv
<1>. QED  BY <1>1, EvidenceInvariant, PTL

LEMMA FingerprintExactStep ==
    ASSUME ReplayInv, EvidenceGrowthInv, CandidateIsFinal,
           FingerprintIdentifiesInput, [Next]_vars, NothingDefective'
    PROVE  (CandidateIsFinal /\ FingerprintIdentifiesInput)'
<1>1. \A w \in Recoverer : rpc[w] # "idle" => FinalBatches' = FinalBatches
  BY FinalBatchesStep
<1>2. ASSUME NEW w \in Recoverer, PublishRun(w)
      PROVE  (CandidateIsFinal /\ FingerprintIdentifiesInput)'
  <2>1. /\ candidate[w].used = candidate[w].evidence
        /\ candidate[w].view = candidate[w].evidenceView
    BY <1>2, PublishRunAppends DEF CandidateIsFinal, HasCandidate,
       EvidenceGrowthInv, CandidateIsCovered
  <2>. QED  BY <1>2, <2>1, PublishRunAppends
            DEF CandidateIsFinal, HasCandidate, FingerprintIdentifiesInput
<1>3. ASSUME NEW w \in Recoverer,
             BuildCandidate(w) \/ LoadCompleteness(w) \/ InputFingerprint(w)
      PROVE  (CandidateIsFinal /\ FingerprintIdentifiesInput)'
  <2>1. FinalBatches' = FinalBatches /\ UNCHANGED runs
    BY <1>1, <1>3, CandidateReads
  <2>2. /\ \A x \in Recoverer \ {w} : rpc'[x] \notin HasCandidate /\ rpc'[x] # "publish"
        /\ candidate'[w].used = FinalBatches
        /\ rpc'[w] = "publish" => candidate'[w].evidence = FinalBatches
    BY <1>3, CandidateReads DEF CandidateIsFinal, HasCandidate
  <2>. QED  BY <2>1, <2>2 DEF CandidateIsFinal, FingerprintIdentifiesInput
<1>4. CASE ~ \E w \in Recoverer :
                \/ BuildCandidate(w)
                \/ LoadCompleteness(w)
                \/ InputFingerprint(w)
                \/ PublishRun(w)
  <2>1. UNCHANGED <<runs, pointer>>
    BY <1>4, OnlyPublishRunPublishes
  <2>2. \A w \in Recoverer : rpc'[w] \in HasCandidate =>
           /\ rpc[w] = rpc'[w] /\ candidate'[w] = candidate[w]
           /\ FinalBatches' = FinalBatches
    BY <1>1, <1>4, OtherCandidates DEF HasCandidate
  <2>. QED  BY <2>1, <2>2 DEF CandidateIsFinal, HasCandidate,
               FingerprintIdentifiesInput
<1>. QED  BY <1>2, <1>3, <1>4

\* Until the older writer first records a delivery with batch-level issues
\* (it finalizes a batch without the financial lock), the fingerprint of every
\* published run identifies exactly the input of the run.  After that this may
\* be false, and FingerprintCovers is what remains.
THEOREM FingerprintExact ==
    Spec => [](NothingDefective => FingerprintIdentifiesInput)
<1>. DEFINE Exact == NothingDefective => CandidateIsFinal /\ FingerprintIdentifiesInput
<1>1. Init => Exact
  BY EvidenceGrowthInit
<1>2. ReplayInv /\ EvidenceGrowthInv /\ Exact /\ [Next]_vars => Exact'
  <2>. SUFFICES ASSUME ReplayInv, EvidenceGrowthInv, Exact, [Next]_vars,
                       NothingDefective'
                PROVE  (CandidateIsFinal /\ FingerprintIdentifiesInput)'
    OBVIOUS
  <2>1. NothingDefective
    BY FinalBatchesStep
  <2>. QED  BY <2>1, FingerprintExactStep
<1>3. Exact => (NothingDefective => FingerprintIdentifiesInput)
  OBVIOUS
<1>. QED  BY <1>1, <1>2, <1>3, EvidenceInvariant, PTL DEF Spec
=============================================================================
