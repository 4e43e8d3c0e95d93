-------------------------- MODULE StoredCompleteness ------------------------
(***************************************************************************)
(* load_completeness (durable_completeness.py) in its surroundings: files  *)
(* arrive, ingestion retains and commits them and schedules one rebuild    *)
(* per delivery, rebuilds run in any order, and time passes deadlines.     *)
(* An ingestion and a rebuild are one step here: ReplaySystem shows that   *)
(* their transactions are.                                                 *)
(***************************************************************************)
EXTENDS Completeness, FiniteSetsExt

CONSTANTS
    Delivery,    \* batch ids, numbers: ORDER BY compares them
    Report,      \* report, day and mode (as in Completeness) of each delivery,
                 \* and the time its manifest says it was generated, if it does
    Quarantined, \* deliveries with rows that fail the contract
    Instant,     \* bound: the hours at which something happens
    Never        \* no batch received, nothing published, no time given

ASSUME DeliveryAssumption ==
    /\ Delivery \subseteq Nat
    /\ Report \in [Delivery -> [report : ReportType, day : Nat, mode : ReportMode,
                               generated : Nat \cup {Never}]]
    /\ Quarantined \subseteq Delivery
    /\ Instant \subseteq Nat /\ Instant # {}
    /\ Never \notin Nat

VARIABLES
    now,
    status,     \* ingestion_status of its batch, "NONE" for no row
    received,   \* received_at_utc of the batch, as_of_utc of its request
    damaged,    \* batches whose retained bytes no longer have their checksum
    request,    \* status of the recovery request it triggered
    published   \* the completeness of the published run, and its as_of_utc

vars == <<now, status, received, damaged, request, published>>

State == {"COMPLETE", "PENDING", "INCOMPLETE"}

Nothing == [asOf |-> Never, result |-> [t \in ReportType |-> Absent]]

StoredTypeOK ==
    /\ now \in Instant
    /\ status \in [Delivery -> {"NONE", "COMMITTED", "FAILED"}]
    /\ received \in [Delivery -> Instant \cup {Never}]
    /\ damaged \subseteq {d \in Delivery : status[d] = "COMMITTED"}
    /\ request \in [Delivery -> {"NONE", "PENDING", "SUCCEEDED"}]
    /\ published # Nothing =>
         /\ published.asOf \in Instant
         /\ \A t \in ReportType : published.result[t].state \in State

Init ==
    /\ now = Min(Instant)
    /\ status = [d \in Delivery |-> "NONE"]
    /\ received = [d \in Delivery |-> Never]
    /\ damaged = {}
    /\ request = [d \in Delivery |-> "NONE"]
    /\ published = Nothing
-----------------------------------------------------------------------------
(* load_completeness *)

Committed == {d \in Delivery : status[d] = "COMMITTED"}

\* expected_report_day and the report dates of finalized batches.  Neither is
\* restricted to the cutoff.
ExpectedDays == {Report[d].day : d \in {x \in Delivery : status[x] # "NONE"}}

\* Mutant: batches received after the cutoff count.
CountedAnytime(asOf) == Committed

\* Mutant: only the last hours are looked at.
CountedRecently(asOf) ==
    {d \in Committed : received[d] <= asOf /\ asOf - received[d] < 12}

Counted(asOf) == {d \in Committed : received[d] <= asOf}

\* ORDER BY received_at_utc, batch_id; the last one wins.
IsLater(d, e) ==
    received[d] > received[e] \/ (received[d] = received[e] /\ d > e)

LatestBatch(asOf, day, t) ==
    {d \in Counted(asOf) :
        /\ Report[d].day = day /\ Report[d].report = t
        /\ \A e \in Counted(asOf) :
             Report[e].day = day /\ Report[e].report = t => ~IsLater(e, d)}

\* _verify_stored_report: ingestion has checked the rest.
HasProblem(d) == d \in damaged \/ d \in Quarantined

ReportOn(asOf, day, t) ==
    IF LatestBatch(asOf, day, t) = {}
    THEN EvaluateReport(t, day, asOf, NoEvidence)
    ELSE IF \E d \in LatestBatch(asOf, day, t) : HasProblem(d)
    THEN [day |-> day, issues |-> {"MANIFEST_INVALID"},
          state |-> UnresolvedState(asOf, ReportDeadline(day, t))]
    ELSE [day |-> day, issues |-> {}, state |-> "COMPLETE"]

Severity == [COMPLETE |-> 0, PENDING |-> 1, INCOMPLETE |-> 2]

\* One result per report type: the worst day, the earliest of several.
WorstReport(asOf, t) ==
    LET results == {ReportOn(asOf, day, t) : day \in ExpectedDays}
    IN  CHOOSE r \in results : \A q \in results :
            \/ Severity[r.state] > Severity[q.state]
            \/ Severity[r.state] = Severity[q.state] /\ r.day <= q.day

LoadCompleteness(asOf) == [t \in ReportType |-> WorstReport(asOf, t)]
-----------------------------------------------------------------------------
(* Actions *)

\* generated_at_utc, by default the time of receipt.
GeneratedAt(d) ==
    IF Report[d].generated = Never THEN received[d] ELSE Report[d].generated

EvidenceOf(d) ==
    BuildReportEvidence(Report[d].mode, Report[d].report, Report[d].day, d,
                        received[d], GeneratedAt(d))

\* What a reader of the two files can parse.
IsReadable(d) ==
    LET e == EvidenceOf(d)
    IN  e.data # Absent /\ e.manifest # Absent /\ e.manifest.valid

\* verify_delivery: the manifest describes the data.
IsVerified(d) ==
    LET e == EvidenceOf(d) IN
    /\ IsReadable(d)
    /\ e.manifest.source = ReportSource[e.manifest.report]
    /\ e.manifest.rows = e.data.rows
    /\ e.manifest.sha = e.data.sha

\* Mutant: a delivery that changes no canonical record schedules nothing.
ScheduledOnChange(d) == IF d \in Quarantined THEN "NONE" ELSE "PENDING"

\* Schedule for report-evidence changes too.
ScheduledRequest(d) == "PENDING"

\* ingest_source_file with an as_of_utc that its caller read earlier.
IngestDelivery(d, asOf) ==
    /\ status[d] = "NONE"
    /\ asOf <= now
    /\ IsVerified(d)
    /\ status' = [status EXCEPT ![d] = "COMMITTED"]
    /\ received' = [received EXCEPT ![d] = asOf]
    /\ request' = [request EXCEPT ![d] = ScheduledRequest(d)]
    /\ UNCHANGED <<now, damaged, published>>

\* record_delivery of a delivery with _batch_issues: no request.
RecordDefective(d) ==
    /\ status[d] = "NONE"
    /\ IsReadable(d) /\ ~IsVerified(d)
    /\ status' = [status EXCEPT ![d] = "FAILED"]
    /\ received' = [received EXCEPT ![d] = now]
    /\ UNCHANGED <<now, damaged, request, published>>

\* Retained bytes are damaged in the database.
DamageEvidence(d) ==
    /\ status[d] = "COMMITTED" /\ d \notin damaged
    /\ damaged' = damaged \cup {d}
    /\ UNCHANGED <<now, status, received, request, published>>

\* A rebuild for the request of d is published.  Which request is next
\* depends on the failures, retry delays and requeues of RecoveryQueue.
Rebuild(d) ==
    /\ request[d] = "PENDING"
    /\ request' = [request EXCEPT ![d] = "SUCCEEDED"]
    /\ published' = [asOf |-> received[d],
                     result |-> LoadCompleteness(received[d])]
    /\ UNCHANGED <<now, status, received, damaged>>

Tick ==
    /\ \E i \in Instant : i > now
    /\ now' = Min({i \in Instant : i > now})
    /\ UNCHANGED <<status, received, damaged, request, published>>

Next ==
    \/ \E d \in Delivery :
          \/ RecordDefective(d) \/ DamageEvidence(d) \/ Rebuild(d)
    \/ \E d \in Delivery : \E asOf \in Instant : IngestDelivery(d, asOf)
    \/ Tick

Spec == Init /\ [][Next]_vars
-----------------------------------------------------------------------------
(* Properties *)

\* The manifest says that it was generated after it was received.
IsPredated(d) == GeneratedAt(d) > received[d]

\* Two evaluators judge one delivery: evaluate_report the files, for cli.py, and
\* load_completeness what ingestion retained of them.  At any time after its
\* receipt a delivery has committed exactly when its files have no issue but the
\* time the manifest was generated, which ingestion does not retain.  The batch
\* that decides a report gets the same result from both, except that only the
\* ledger sees quarantined rows and damage and only the files a predated
\* manifest; a report nothing counts for is unresolved alike.
EvaluatorsAgree ==
    \A d \in Delivery : \A i \in Instant :
        status[d] # "NONE" /\ i >= received[d] =>
          LET r == Report[d]
              byFiles == EvaluateReport(r.report, r.day, i, EvidenceOf(d))
              byLedger == ReportOn(i, r.day, r.report)
              unresolved == UnresolvedState(i, ReportDeadline(r.day, r.report))
              isCommitted == status[d] = "COMMITTED"
              isDecisive == d \in LatestBatch(i, r.day, r.report)
          IN  /\ isCommitted <=>
                   byFiles.issues \subseteq {"MANIFEST_GENERATED_AFTER_RECEIPT"}
              /\ byFiles.state = IF isCommitted /\ ~IsPredated(d)
                                 THEN "COMPLETE" ELSE unresolved
              /\ isDecisive => byLedger.state =
                                 IF HasProblem(d) THEN unresolved ELSE "COMPLETE"
              /\ isDecisive /\ ~HasProblem(d) /\ ~IsPredated(d) =>
                   byLedger = byFiles
              /\ (\A e \in Counted(i) : Report[e].day # r.day
                                         \/ Report[e].report # r.report) =>
                   byLedger.state = byFiles.state

\* The wall clock in Berlin at UTC hour i: both changes are at 01:00 UTC.
WallClock(i) ==
    IF 24 * SpringForward + 1 <= i /\ i < 24 * FallBack + 1 THEN i + 2 ELSE i + 1

IsDue(day, t, i) == WallClock(i) >= 24 * (day + 1) + DeadlineHour[t]

\* evaluate_report and load_completeness, over the nights the clocks change
\* too: a published run calls a report PENDING only if at the run's as_of_utc
\* no wall clock in Berlin had reached its deadline on the following day, and
\* INCOMPLETE only if it had.
PublishedIsDue ==
    published # Nothing => \A t \in ReportType : LET r == published.result[t] IN
        /\ r.state = "PENDING" => ~IsDue(r.day, t, published.asOf)
        /\ r.state = "INCOMPLETE" => IsDue(r.day, t, published.asOf)

\* Without new evidence time can only make a pending report overdue:
\* load_completeness at a later cutoff is neither better nor a new doubt.
TimeAloneOnlyWorsens ==
    \A t \in ReportType : \A i, j \in Instant :
        LET isReceived(d) == /\ Report[d].report = t
                             /\ i < received[d] /\ received[d] <= j
            r == WorstReport(i, t).state
            q == WorstReport(j, t).state
        IN  /\ ExpectedDays # {} /\ i < j
            /\ \A d \in Committed : ~isReceived(d)
            => q = r \/ (r = "PENDING" /\ q = "INCOMPLETE")

DeadlinePassed(i, j) ==
    \E day \in ExpectedDays : \E t \in ReportType :
        i < ReportDeadline(day, t) /\ ReportDeadline(day, t) <= j

\* When every request has been rebuilt, the published completeness is the one
\* load_completeness would compute now, unless a retry with an older as_of_utc
\* came last, a deadline has passed since, evidence was damaged, or a defective
\* delivery declared a day no committed one has: none of these schedules a
\* rebuild.  Whatever commits does (ingest_source_file).
PublishedIsCurrent ==
    /\ published # Nothing /\ damaged = {}
    /\ \A d \in Committed : request[d] # "PENDING" /\ received[d] <= published.asOf
    /\ ExpectedDays = {Report[d].day : d \in Committed}
    /\ ~DeadlinePassed(published.asOf, now)
    => published.result = LoadCompleteness(now)

\* A report evaluated at a past cutoff is only revised by what belongs there: a
\* delivery of that report received by then, damage to its evidence, or a day
\* that was not expected yet (load_completeness at a frozen as_of_utc).
OnlyEvidenceReachesBack ==
    [][\A t \in ReportType : \A i \in Instant :
          LET isChanged(d) == d \notin Committed \/ d \in damaged' \ damaged
              changed == {d \in Committed' : Report[d].report = t
                              /\ received'[d] <= i /\ isChanged(d)}
          IN  ExpectedDays # {} /\ ExpectedDays' = ExpectedDays /\ changed = {}
              => WorstReport(i, t)' = WorstReport(i, t)]_vars
=============================================================================
