\* Every sequence of two changes of two ledgers.
SPECIFICATION Spec
CONSTANTS
    o1 = o1  o2 = o2  p1 = p1  p2 = p2  r1 = r1  f1 = f1
    l1 = l1  l2 = l2  y1 = y1  y2 = y2
    Order = {o1, o2}
    Payment = {p1, p2}
    Refund = {r1}
    Fee = {f1}
    SettlementLine = {l1, l2}
    Payout = {y1, y2}
    Record <- MCRecords
    Ledgers <- MCLedgers
    ReportStates <- MCReportStates
    MaxChanges = 2
\* The behaviour ends at the bound.
CHECK_DEADLOCK FALSE
INVARIANTS
    ExpansionIsLeast
    PlanCoversChange
    WindowsAreTheDays
    NoFalseReconciliation
    EveryMovementIsExplained
    ResultsArePublishable
    LateDataFailsClosed
    LateDatesArePlanned
PROPERTIES
    ExpansionDescends
