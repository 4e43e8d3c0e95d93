-------------------------- MODULE RecoveryBehavior --------------------------
(***************************************************************************)
(* inspect_recovery of recovery_behavior.py: what an operator is told to   *)
(* do about a request, read in one statement from the durable state.       *)
(* "ERROR" stands for every RecoveryStateError.                            *)
(***************************************************************************)
EXTENDS FullRebuildRecovery

\* The batch status joined through trigger_receipt_id, the first receipt of
\* the delivery; a delivery without rows has none, and the join yields NULL.
SourceBatchStatus(d) == IF Rows[d] = <<>> THEN "NONE" ELSE batch[d]

\* A SUCCEEDED row whose run and artefact are there.
HasCommittedResult(d) ==
    /\ request[d].run \in 1 .. Len(runs)
    /\ request[d].completed
    /\ runs[request[d].run].request = d

HasConsistentFailure(d) ==
    request[d].run = 0 /\ request[d].completed /\ request[d].error

HasConsistentBudget(d) ==
    /\ request[d].run = 0
    /\ ~request[d].completed
    /\ request[d].attempts < request[d].max

InspectRecovery(d) ==
    CASE request[d].status = "NONE" -> "INVESTIGATE_MISSING_REQUEST"
      [] request[d].status # "NONE" /\ SourceBatchStatus(d) # "COMMITTED" ->
            "ERROR"
      [] request[d].status = "SUCCEEDED" /\ SourceBatchStatus(d) = "COMMITTED" ->
            IF HasCommittedResult(d) THEN "DO_NOT_REPEAT" ELSE "ERROR"
      [] request[d].status = "FAILED" /\ SourceBatchStatus(d) = "COMMITTED" ->
            IF HasConsistentFailure(d) THEN "MANUAL_REQUEUE" ELSE "ERROR"
      [] request[d].status = "PENDING" /\ SourceBatchStatus(d) = "COMMITTED" ->
            IF ~HasConsistentBudget(d) THEN "ERROR"
            ELSE IF request[d].nextAt <= now THEN "RETRY_NOW"
            ELSE "WAIT_FOR_RETRY"
=============================================================================
