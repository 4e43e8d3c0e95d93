--------------------------- MODULE RecoveryQueue ----------------------------
(***************************************************************************)
(* recovery_queue.py: the durable queue of full-rebuild requests and its   *)
(* attempt history.  The operators give the row each statement leaves; the *)
(* worker of FullRebuildRecovery runs them inside its transactions.        *)
(***************************************************************************)
EXTENDS LedgerStore

CONSTANTS
    BaseDelay,       \* base_retry_delay_seconds (30)
    MaxRetryDelay,   \* cap of the retry delay (3600)
    ExtraAttempts,   \* additional_attempts of a manual requeue (3)
    AttemptBound     \* bound: no requeue grants attempts beyond this number

ASSUME QueueAssumption ==
    /\ BaseDelay \in Nat
    /\ MaxRetryDelay \in Nat
    /\ ExtraAttempts \in Nat \ {0}
    /\ AttemptBound \in Nat

VARIABLE attempt     \* recovery_attempt: the rows of each request

Attempt == [number : Nat, outcome : {"SUCCEEDED", "FAILED"}, run : Nat]

QueueInit == attempt = [d \in Delivery |-> {}]
-----------------------------------------------------------------------------
PowersOfTwo ==
    <<1, 2, 4, 8, 16, 32, 64, 128, 256, 512, 1024, 2048, 4096>>

\* min(3600, base * 2 ** min(attempt_number - 1, 12)).
RetryDelay(n) ==
    LET delay == BaseDelay * PowersOfTwo[IF n <= 13 THEN n ELSE 13]
    IN  IF delay <= MaxRetryDelay THEN delay ELSE MaxRetryDelay

\* clock_timestamp() + delay, clipped to the bound of the clock.
NextAttemptAt(n) ==
    IF now + RetryDelay(n) <= MaxTime THEN now + RetryDelay(n) ELSE MaxTime

\* Mutant: off by one in the attempt budget.
IsReadyBeforeLastAttempt(d) ==
    /\ request[d].status = "PENDING"
    /\ request[d].attempts + 1 < request[d].max
    /\ request[d].nextAt <= now

IsReady(d) ==
    /\ request[d].status = "PENDING"
    /\ request[d].attempts < request[d].max
    /\ request[d].nextAt <= now

\* next_ready: the requests ORDER BY ... LIMIT 1 may return.  Requests with
\* the same next_attempt_at_utc are ordered by creation time and identifier,
\* which the model leaves open.
NextReady ==
    {d \in Delivery : IsReady(d) /\
        \A c \in Delivery : IsReady(c) => request[d].nextAt <= request[c].nextAt}

\* The three checks of mark_succeeded before it writes.
MaySucceed(d) ==
    request[d].status = "PENDING" /\ request[d].attempts + 1 <= request[d].max

\* A PENDING request row whose candidate is published as run.
SucceededRow(q, run) ==
    [status |-> "SUCCEEDED", asOf |-> q.asOf, attempts |-> q.attempts + 1,
     max |-> q.max, nextAt |-> q.nextAt, run |-> run, completed |-> TRUE,
     error |-> FALSE]

MarkSucceeded(d, run) ==
    /\ attempt' = [attempt EXCEPT ![d] = @ \cup
         {[number |-> request[d].attempts + 1, outcome |-> "SUCCEEDED",
           run |-> run]}]
    /\ request' = [request EXCEPT ![d] = SucceededRow(request[d], run)]

\* Mutant: exhaustion compared with > instead of >=.
FailedRowOffByOne(q) ==
    LET exhausted == q.attempts + 1 > q.max
    IN  [status |-> IF exhausted THEN "FAILED" ELSE "PENDING", asOf |-> q.asOf,
         attempts |-> q.attempts + 1, max |-> q.max,
         nextAt |-> NextAttemptAt(q.attempts + 1), run |-> q.run,
         completed |-> exhausted, error |-> TRUE]

\* A PENDING request row after one more failed attempt.
FailedRow(q) ==
    LET exhausted == q.attempts + 1 >= q.max
    IN  [status |-> IF exhausted THEN "FAILED" ELSE "PENDING", asOf |-> q.asOf,
         attempts |-> q.attempts + 1, max |-> q.max,
         nextAt |-> NextAttemptAt(q.attempts + 1), run |-> q.run,
         completed |-> exhausted, error |-> TRUE]

\* record_failure never overwrites a published or terminal request.
RecordFailure(d) ==
    IF request[d].status # "PENDING" THEN UNCHANGED <<attempt, request>>
    ELSE /\ attempt' = [attempt EXCEPT ![d] = @ \cup
              {[number |-> request[d].attempts + 1, outcome |-> "FAILED",
                run |-> 0]}]
         /\ request' = [request EXCEPT ![d] = FailedRow(request[d])]

\* Mutant: a requeue restarts the attempt count.
RequeuedRowFromZero(q) ==
    [q EXCEPT !.status = "PENDING", !.attempts = 0, !.max = ExtraAttempts,
              !.nextAt = now, !.completed = FALSE]

\* Mutant: a requeue leaves completed_at_utc set.
RequeuedRowCompleted(q) ==
    [q EXCEPT !.status = "PENDING", !.max = q.attempts + ExtraAttempts,
              !.nextAt = now]

\* A FAILED request row with ExtraAttempts more attempts granted.
RequeuedRow(q) ==
    [status |-> "PENDING", asOf |-> q.asOf, attempts |-> q.attempts,
     max |-> q.attempts + ExtraAttempts, nextAt |-> now, run |-> q.run,
     completed |-> FALSE, error |-> q.error]

\* requeue_failed, called by an operator: needs no financial lock.
RequeueFailed(d) ==
    /\ request[d].status = "FAILED"
    /\ request[d].attempts + ExtraAttempts <= AttemptBound
    /\ request' = [request EXCEPT ![d] = RequeuedRow(request[d])]
    /\ UNCHANGED <<batch, receivedAt, disposition, recordVersion, resolution,
                   financialLock, now, attempt>>
=============================================================================
