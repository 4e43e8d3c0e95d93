\* Changes of a fully settled ledger.
SPECIFICATION Spec
CONSTANTS
    o1 = o1  o2 = o2  p1 = p1  p2 = p2  r1 = r1  f1 = f1
    l1 = l1  l2 = l2  y1 = y1  y2 = y2
    Order = {o1, o2}
    Payment = {p1, p2}
    Refund = {r1}
    Fee = {f1}
    SettlementLine = {l1, l2}
    Payout = {y1, y2}
    Record <- MCRecords
    Ledgers <- MCSettled
    ReportStates <- MCReportStates
    MaxChanges = 1
\* The behaviour ends at the bound.
CHECK_DEADLOCK FALSE
INVARIANT
    MissingMovementsAreReported
