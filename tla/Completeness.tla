----------------------------- MODULE Completeness ---------------------------
(***************************************************************************)
(* completeness.py: when a daily source report is due, which of its data   *)
(* file and manifest are visible at an evaluation, what is wrong with them *)
(* and which state follows.  Time is UTC hours, day d starts at hour 24*d; *)
(* messages, batch identifiers of the result and argument types are left   *)
(* out.                                                                    *)
(***************************************************************************)
EXTENDS Integers

CONSTANTS
    SpringForward,   \* the day whose local hour 2 does not exist
    FallBack,        \* the day whose local hour 2 happens twice
    Absent           \* None: no data file, no manifest

ASSUME ClockAssumption ==
    SpringForward \in Int /\ FallBack \in Int /\ SpringForward < FallBack

ReportType ==
    {"orders", "payments", "refunds", "fees", "settlement_lines", "payouts"}

DeadlineHour ==
    [t \in ReportType |-> IF t = "orders" THEN 1
                          ELSE IF t \in {"payments", "refunds"} THEN 2 ELSE 12]

ReportSource ==
    [t \in ReportType |-> IF t = "orders" THEN "THREADLINE_SHOP" ELSE "MOCKPAY"]

\* Mutant: a fixed offset.
StandardOffset(d, h) == 1

\* zoneinfo's offset of the local hour h of day d, with fold = 0: an hour that
\* is skipped or repeated is read with the offset before the change.
BerlinOffset(d, h) ==
    LET isAfter(change) == d > change \/ (d = change /\ h >= 3)
    IN  IF isAfter(SpringForward) /\ ~isAfter(FallBack) THEN 2 ELSE 1

\* Reports for day d are due on the next day, by Berlin time.
ReportDeadline(d, t) ==
    24 * (d + 1) + DeadlineHour[t] - BerlinOffset(d + 1, DeadlineHour[t])
-----------------------------------------------------------------------------
(* A piece of evidence has a received_at_utc.  Evidence is a record with   *)
(* the fields data and manifest.                                           *)

SourceSystem == {"THREADLINE_SHOP", "MOCKPAY"}
Digest == {"of the data", "of other data"}

DataFileEvidence ==
    [batch : Nat, source : SourceSystem, report : ReportType, day : Nat,
     received : Nat, rows : Nat, sha : Digest]

\* With the fields of the manifest it holds.
ManifestEvidence ==
    [batch : Nat, source : SourceSystem, report : ReportType, day : Nat,
     received : Nat, generated : Nat, valid : BOOLEAN, rows : Nat, sha : Digest]

ASSUME AbsentAssumption ==
    Absent \notin DataFileEvidence /\ Absent \notin ManifestEvidence

NoEvidence == [data |-> Absent, manifest |-> Absent]

VisibleAt(piece, asOf) ==
    IF piece = Absent THEN Absent
    ELSE IF piece.received > asOf THEN Absent ELSE piece

Issue(code, holds) == IF holds THEN {code} ELSE {}

\* The identity checks that the data file and the manifest share.
IdentityIssues(t, d, piece, source, report, day) ==
    Issue(source, piece.source # ReportSource[t])
    \cup Issue(report, piece.report # t)
    \cup Issue(day, piece.day # d)

ManifestIssues(t, d, m) ==
    IdentityIssues(t, d, m, "MANIFEST_SOURCE_MISMATCH",
                   "MANIFEST_REPORT_TYPE_MISMATCH",
                   "MANIFEST_BUSINESS_DATE_MISMATCH")
    \cup Issue("MANIFEST_GENERATED_AFTER_RECEIPT", m.generated > m.received)

\* Mutant: row counts are not compared.
DataIssuesUncounted(t, d, f, m) ==
    Issue("BATCH_ID_MISMATCH", m.batch # f.batch)
    \cup Issue("CHECKSUM_MISMATCH", m.sha # f.sha)

DataIssues(t, d, f, m) ==
    IdentityIssues(t, d, f, "DATA_SOURCE_MISMATCH", "DATA_REPORT_TYPE_MISMATCH",
                   "DATA_BUSINESS_DATE_MISMATCH")
    \cup Issue("BATCH_ID_MISMATCH", m.batch # f.batch)
    \cup Issue("ROW_COUNT_MISMATCH", m.rows # f.rows)
    \cup Issue("CHECKSUM_MISMATCH", m.sha # f.sha)

\* _collect_issues with its early returns: without a usable manifest, or
\* without a data file, there is nothing to compare.
CollectIssues(t, d, f, m) ==
    Issue("DATA_FILE_MISSING", f = Absent)
    \cup (IF m = Absent THEN {"MANIFEST_MISSING"}
          ELSE IF ~m.valid THEN {"MANIFEST_INVALID"}
          ELSE ManifestIssues(t, d, m)
               \cup (IF f = Absent THEN {} ELSE DataIssues(t, d, f, m)))

\* The state of a report that has issues.
UnresolvedState(asOf, deadline) ==
    IF asOf < deadline THEN "PENDING" ELSE "INCOMPLETE"

EvaluateReport(t, d, asOf, evidence) ==
    LET issues == CollectIssues(t, d, VisibleAt(evidence.data, asOf),
                                VisibleAt(evidence.manifest, asOf))
    IN  [day |-> d, issues |-> issues,
         state |-> IF issues = {} THEN "COMPLETE"
                   ELSE UnresolvedState(asOf, ReportDeadline(d, t))]
-----------------------------------------------------------------------------
(* _build_report_evidence (cli.py): the evidence of a report of a golden   *)
(* scenario.  Its one data file has one row.  Its configuration may say    *)
(* when the manifest was generated.                                        *)

ReportMode ==
    {"VALID", "MISSING", "DATA_ONLY", "MANIFEST_ONLY", "INVALID_MANIFEST",
     "ROW_COUNT_MISMATCH", "CHECKSUM_MISMATCH"}

BuildReportEvidence(mode, t, d, batch, receivedAt, generatedAt) ==
    LET file == [batch |-> batch, source |-> ReportSource[t], report |-> t,
                 day |-> d, received |-> receivedAt, rows |-> 1,
                 sha |-> "of the data"]
        manifest ==
            [batch |-> batch, source |-> ReportSource[t], report |-> t,
             day |-> d, received |-> receivedAt, generated |-> generatedAt,
             valid |-> mode # "INVALID_MANIFEST",
             rows |-> IF mode = "ROW_COUNT_MISMATCH" THEN 2 ELSE 1,
             sha |-> IF mode = "CHECKSUM_MISMATCH" THEN "of other data"
                     ELSE "of the data"]
    IN  [data |-> IF mode \in {"MISSING", "MANIFEST_ONLY"} THEN Absent ELSE file,
         manifest |-> IF mode \in {"MISSING", "DATA_ONLY"} THEN Absent
                      ELSE manifest]
=============================================================================
