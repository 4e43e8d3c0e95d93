------------------------------ MODULE LateData ------------------------------
(***************************************************************************)
(* late_data.py: whether a receipt changes days that a published run has   *)
(* already covered.  The module decides from the changed versions of one   *)
(* record and from two look-ups its caller supplies; it reads nothing.     *)
(***************************************************************************)
EXTENDS FinancialRecords

ChangeKind ==
    {"NEW_FACT", "HIGHER_VERSION_CORRECTION", "SAME_VERSION_CONFLICT",
     "EXACT_DUPLICATE", "STALE_VERSION"}

\* ImpactContext, looked up in the canonical records L.
PaymentAvailableOn(L, k) == {p.day : p \in {q \in L : q.id = k}} \ {NoDay}
PayoutDates(L, k) == {y.day : y \in {q \in L : q.id = k}}

\* resolve_record_impact: no day means unresolved.  An Order has no
\* effective_at_utc, a failed payment or refund no available_on.
ResolveRecordImpact(L, r) ==
    CASE r.id \in Order            -> {}
      [] r.id \in Payment \cup Refund -> {r.day} \ {NoDay}
      [] r.id \in Fee              -> PaymentAvailableOn(L, r.payment)
      [] r.id \in SettlementLine   -> PayoutDates(L, r.payout)
      [] r.id \in Payout           -> {r.day}

\* Mutant: only the version that is canonical now counts.
CandidateOfIncoming(L, versions) ==
    LET incoming == {r \in versions : r \in L}
    IN  [dates |-> UNION {ResolveRecordImpact(L, r) : r \in incoming},
         unresolved |-> \E r \in incoming : ResolveRecordImpact(L, r) = {}]

\* build_late_data_candidate for the previous and the incoming version.
BuildLateDataCandidate(L, versions) ==
    [dates |-> UNION {ResolveRecordImpact(L, r) : r \in versions},
     unresolved |-> \E r \in versions : ResolveRecordImpact(L, r) = {}]

HistoricalDates(candidate, covered) == {d \in candidate.dates : d <= covered}

\* classify_late_data against a run whose watermark the receipt is after, or
\* not, and that covers the days up to covered.
ClassifyLateData(kind, isAfterWatermark, candidate, covered) ==
    IF kind \in {"EXACT_DUPLICATE", "STALE_VERSION"} THEN "NO_LOGICAL_CHANGE"
    ELSE IF ~isAfterWatermark THEN "WITHIN_WATERMARK"
    ELSE IF candidate.unresolved THEN "UNRESOLVED_IMPACT"
    ELSE IF HistoricalDates(candidate, covered) = {} THEN "FUTURE_IMPACT"
    ELSE CASE kind = "NEW_FACT" -> "LATE_NEW_FACT"
           [] kind = "HIGHER_VERSION_CORRECTION" -> "LATE_CORRECTION"
           [] kind = "SAME_VERSION_CONFLICT" -> "LATE_CONFLICT"

RequiresReprocessing(classification) ==
    classification \in {"LATE_NEW_FACT", "LATE_CORRECTION", "LATE_CONFLICT",
                        "UNRESOLVED_IMPACT"}
=============================================================================
