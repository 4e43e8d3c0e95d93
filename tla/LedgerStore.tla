---------------------------- MODULE LedgerStore -----------------------------
(***************************************************************************)
(* The PostgreSQL tables and advisory locks that ingestion and recovery    *)
(* share.  Every variable holds COMMITTED rows only: a transaction keeps   *)
(* its uncommitted writes in its own module's state and applies them in    *)
(* one step when it commits (READ COMMITTED: other sessions never see      *)
(* them before, and every statement reads the rows committed when it runs).*)
(***************************************************************************)
EXTENDS LedgerData

VARIABLES
    batch,          \* ingestion_batch.ingestion_status, "NONE" for no row
    receivedAt,     \* ingestion_batch.received_at_utc
    disposition,    \* source_receipt.disposition, "NONE" for no row
    recordVersion,  \* source_record_version: [variant, first] rows
    resolution,     \* entity_resolution
    request,        \* recovery_request, keyed by the delivery that triggers it
    financialLock,  \* holder of the advisory lock 740031
    now             \* the clock

storeVars == <<batch, receivedAt, disposition, recordVersion, resolution,
               request, financialLock, now>>
-----------------------------------------------------------------------------
BatchStatus == {"NONE", "PROCESSING", "COMMITTED", "FAILED"}

Disposition ==
    {"NONE", "PENDING", "ACCEPTED", "STALE", "DUPLICATE", "CONFLICTED",
     "QUARANTINED"}

Resolution ==
    [state : {"NONE", "ACCEPTED", "CONFLICTED"}, version : Nat,
     hash : Hash \cup {NoHash}]

NoResolution == [state |-> "NONE", version |-> 0, hash |-> NoHash]

\* A recovery_request row.  run is result_run_id (0 for NULL); completed and
\* error say whether completed_at_utc and last_error are set.
Request ==
    [status : {"NONE", "PENDING", "SUCCEEDED", "FAILED"}, asOf : Nat,
     attempts : Nat, max : Nat, nextAt : Nat, run : Nat,
     completed : BOOLEAN, error : BOOLEAN]

NoRequest ==
    [status |-> "NONE", asOf |-> 0, attempts |-> 0, max |-> MaxAttempts,
     nextAt |-> 0, run |-> 0, completed |-> FALSE, error |-> FALSE]

\* What the column defaults make of a request inserted by a transaction that
\* began at time t, its as_of_utc (CURRENT_TIMESTAMP is that time too).
NewRequest(t) ==
    [NoRequest EXCEPT !.status = "PENDING", !.asOf = t, !.nextAt = t]

StoreInit ==
    /\ batch = [b \in Batch |-> "NONE"]
    /\ receivedAt = [b \in Batch |-> 0]
    /\ disposition = [r \in Receipt |-> "NONE"]
    /\ recordVersion = {}
    /\ resolution = [e \in Entity |-> NoResolution]
    /\ request = [d \in Delivery |-> NoRequest]
    /\ financialLock = NoOne
    /\ now = 0
-----------------------------------------------------------------------------
Committed == {d \in Delivery : batch[d] = "COMMITTED"}

\* Mutant: pg_try_advisory_lock, its result ignored.
FinancialLockNeverBlocks == TRUE

\* When pg_advisory_lock(740031) or pg_advisory_xact_lock(740031) returns.
FinancialLockIsFree == financialLock = NoOne

\* Time passes for every process.
Tick ==
    /\ now < MaxTime
    /\ now' = now + 1
    /\ UNCHANGED <<batch, receivedAt, disposition, recordVersion, resolution,
                   request, financialLock>>

=============================================================================
