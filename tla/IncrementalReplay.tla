-------------------------- MODULE IncrementalReplay -------------------------
(***************************************************************************)
(* Recovery planning (AffectedWindows) and reconciliation (Reconcile)      *)
(* together: is what a plan leaves out really unaffected?  And what        *)
(* LateData calls without consequence for a published run?                 *)
(***************************************************************************)
EXTENDS AffectedWindows, Reconcile, LateData, FiniteSetsExt

CONSTANT ReportStates    \* completeness states a run may meet

ASSUME ReportAssumption ==
    ReportStates \subseteq
        [ReportType -> {"PENDING", "INCOMPLETE", "COMPLETE"}]
-----------------------------------------------------------------------------
(* compress_dates: one pass over the sorted days.  A window is half-open. *)

Window(from, last) == [start |-> from, end |-> last + 1]

\* Mutant: a day after a gap of one day extends the window.
ExtendWindowOverGap(acc, d) ==
    IF d > acc.previous + 2
    THEN [windows |-> acc.windows \cup {Window(acc.start, acc.previous)},
          start |-> d, previous |-> d]
    ELSE [acc EXCEPT !.previous = d]

ExtendWindow(acc, d) ==
    IF d # acc.previous + 1
    THEN [windows |-> acc.windows \cup {Window(acc.start, acc.previous)},
          start |-> d, previous |-> d]
    ELSE [acc EXCEPT !.previous = d]

\* The fold takes the largest day last.
CompressDates(D) ==
    IF D = {} THEN {}
    ELSE LET first == Min(D)
             last  == MapThenFoldSet(LAMBDA d, acc : ExtendWindow(acc, d),
                          [windows |-> {}, start |-> first, previous |-> first],
                          LAMBDA d : d, Max, D \ {first})
         IN  last.windows \cup {Window(last.start, last.previous)}
-----------------------------------------------------------------------------
(* The late-data decision about the change that is being planned *)

\* The kind canonicalization gives the change.
KindOfChange ==
    IF ledger = before THEN "EXACT_DUPLICATE"
    ELSE IF \E r \in changed : r.id \notin Known(ledger)
    THEN "SAME_VERSION_CONFLICT"
    ELSE IF \E r \in changed : r.id \notin Known(before) THEN "NEW_FACT"
    ELSE "HIGHER_VERSION_CORRECTION"

Candidate == BuildLateDataCandidate(ledger, changed)

\* The receipt came after the watermark of a run that covers days up to c.
Decision(c) == ClassifyLateData(KindOfChange, TRUE, Candidate, c)
-----------------------------------------------------------------------------
(* Properties *)

\* The rows of a result that a plan does not ask to rebuild.
Unplanned(L, S) ==
    [transactions |-> {t \in Transactions(L, S) : t.order \notin visited},
     payouts      |-> {y \in PayoutResults(L, S) : y.day \notin visitedDays},
     movements    |-> {m \in ExpectedMovements(L) : m.day \notin visitedDays},
     exceptions   |-> {x \in Exceptions(L, S) : x[2] \notin visited}]

\* docs/financial-contracts.md:395: rebuilding what the plan names and keeping
\* the rest gives the result of a full rebuild: every transaction, payout,
\* movement and exception outside the plan is the same before and after the
\* change, for a new fact, a correction that moves a record to another order
\* or day, and a conflict that removes it.
PlanCoversChange ==
    phase = "planned" /\ scope # "FULL" /\ ~Raises(before) /\ ~Raises(ledger) =>
        \A S \in ReportStates : Unplanned(before, S) = Unplanned(ledger, S)

\* The windows of a plan cover its days and no other day, and no two of them
\* touch, whichever gaps the days have.
WindowsAreTheDays ==
    phase = "planned" =>
        LET W == CompressDates(visitedDays)
            DaysOf(w) == w.start .. (w.end - 1)
        IN  /\ UNION {DaysOf(w) : w \in W} = visitedDays
            /\ \A v, w \in W : v # w => v.end < w.start \/ w.end < v.start

\* "No false reconciliation" across rules that need different reports: a
\* RECONCILED order has every required report, and if it is PAID one capture
\* of its total, fees as scheduled and no excess refund, if it is CANCELLED
\* no capture; a RECONCILED payout pays exactly the expected movements of its
\* day, one line each, and its header, its lines and they agree.
NoFalseReconciliation ==
    phase = "idle" /\ ~Raises(ledger) => \A S \in ReportStates :
        /\ \A t \in Transactions(ledger, S) : t.state = "RECONCILED" =>
             /\ ReportsComplete(S, TransactionRequiredReports)
             /\ t.status = "PAID" =>
                  /\ t.variance = 0
                  /\ t.captures = 1
                  /\ t.refunded <= t.captured
                  /\ t.reportedFee = t.expectedFee
             /\ t.status = "CANCELLED" => t.captures = 0
        /\ \A y \in PayoutResults(ledger, S) : y.state = "RECONCILED" =>
             /\ ReportsComplete(S, PayoutRequiredReports)
             /\ y.net = y.lineTotal
             /\ y.net = y.expected
             /\ \A m \in MovementsOn(ledger, y.day) :
                  Cardinality(LinesFor(Lines(ledger), m)) = 1

\* The lifetime net of all orders, and of the captures without an order.
NetOf(t) == t.net
TransactionNet(L, S) == MapThenSumSet(NetOf, Transactions(L, S))

OrphanNet(L, S) ==
    MapThenSumSet(
        LAMBDA p : p.amount - ExpectedFee(p) - Total(RefundsOf(L, p)),
        OrphanPayments(L, S))

\* No money disappears between the transaction and the payout view: every
\* expected movement is counted in the lifetime net of exactly one order or
\* traces to an orphan exception once the reports are complete.
EveryMovementIsExplained ==
    phase = "idle" => \A S \in ReportStates :
        ReportsComplete(S, TransactionRequiredReports) =>
            Total(ExpectedMovements(ledger)) =
                TransactionNet(ledger, S) + OrphanNet(ledger, S)
                    - Total(OrphanRefunds(ledger, S))

\* Whatever reconcile computes, with whichever reports complete, passes the two
\* validators in front of publication: a row never contradicts itself, and no
\* recovery fails for ever on a candidate it cannot publish.
ResultsArePublishable ==
    phase = "idle" /\ ~Raises(ledger) =>
        \A S \in ReportStates : IsPublishable(ledger, S)

CoveredRows(L, S, c) ==
    [movements |-> {m \in ExpectedMovements(L) : m.day <= c},
     payouts   |-> {y \in PayoutResults(L, S) : y.day <= c}]

\* classify_late_data fails closed: a change it does not ask to reprocess
\* leaves every movement and every payout of the covered days as they were
\* published, although it sees one record and reconcile sees all of them.  (A
\* second line for a movement of a covered payout is the exception: it belongs
\* to the day of its own payout and marks both.)
LateDataFailsClosed ==
    phase = "planned" /\ changed # {} /\ ~Raises(before) /\ ~Raises(ledger) =>
        \A c \in visitedDays \cup {NoDay} : \A S \in ReportStates :
            /\ ~RequiresReprocessing(Decision(c))
            /\ DuplicateLines(before, S) = DuplicateLines(ledger, S)
            => CoveredRows(before, S, c) = CoveredRows(ledger, S, c)

\* late_data.py and affected_windows.py resolve dates on their own and agree:
\* the days that make a change late are among the days its plan rebuilds, and
\* what needs reprocessing has a plan.
LateDatesArePlanned ==
    phase = "planned" /\ changed # {} /\ scope # "FULL" =>
        /\ scope = "WINDOWS" => Candidate.dates \subseteq visitedDays
        /\ \A c \in Candidate.dates :
             RequiresReprocessing(Decision(c)) => scope = "WINDOWS"

\* docs/financial-contracts.md:257: "A missing eligible movement after the
\* settlement deadline produces `MISSING_SETTLEMENT_LINE`": with every report
\* complete, an expected movement that no settlement line of any payout
\* settles is reported.
MissingMovementsAreReported ==
    phase = "idle" /\ ~Raises(ledger) => \A S \in ReportStates :
        ReportsComplete(S, ReportType) =>
            \A m \in ExpectedMovements(ledger) :
                LinesFor(Lines(ledger), m) = {} =>
                    <<"MISSING_SETTLEMENT_LINE", m.id>> \in
                        Exceptions(ledger, S)
=============================================================================
