----------------------------- MODULE Reconcile ------------------------------
(***************************************************************************)
(* reconcile.py: the financial result as operators on a set L of canonical *)
(* records and the completeness S of each source report.  Exceptions are   *)
(* pairs of a code and the entity it is about; their amounts, supporting   *)
(* records and the row formatting are left out, and so are the exceptions  *)
(* that repeat completeness results and canonicalization conflicts.        *)
(***************************************************************************)
EXTENDS FinancialRecords, FiniteSets, FiniteSetsExt

ReportType ==
    {"orders", "payments", "refunds", "fees", "settlement_lines", "payouts"}

TransactionRequiredReports == {"orders", "payments", "refunds", "fees"}
PayoutRequiredReports ==
    {"payments", "refunds", "fees", "settlement_lines", "payouts"}

ReportsComplete(S, reports) == \A t \in reports : S[t] = "COMPLETE"

\* Mutant: complete reports suffice.
ResultStateOfReports(S, required, blocking) ==
    IF ReportsComplete(S, required) THEN "RECONCILED" ELSE "PENDING"

ResultState(S, required, blocking) ==
    LET states == {S[t] : t \in required}
    IN  CASE "INCOMPLETE" \in states -> "INCOMPLETE"
          [] "INCOMPLETE" \notin states /\ "PENDING" \in states -> "PENDING"
          [] states \subseteq {"COMPLETE"} ->
                IF blocking THEN "EXCEPTION" ELSE "RECONCILED"
-----------------------------------------------------------------------------
\* _split_canonical_records and the look-ups built from it.
Orders(L)   == {r \in L : r.id \in Order}
Captured(L) == {r \in L : r.id \in Payment /\ r.status = "CAPTURED"}
Refunded(L) == {r \in L : r.id \in Refund /\ r.status = "SUCCEEDED"}
Fees(L)     == {r \in L : r.id \in Fee}
Lines(L)    == {r \in L : r.id \in SettlementLine}
Payouts(L)  == {r \in L : r.id \in Payout}

CapturesOf(L, o) == {p \in Captured(L) : p.order = o.id}
RefundsOf(L, p)  == {r \in Refunded(L) : r.payment = p.id}
FeesOf(L, p)     == {f \in Fees(L) : f.payment = p.id}

AmountOf(r) == r.amount
Total(R) == MapThenSumSet(AmountOf, R)

\* calculate_fee: fixed fee plus percentage, rounded half up to cents.
ExpectedFee(p) ==
    IF p.method = "CARD" THEN (20 * 1000 + p.amount * 18 + 500) \div 1000
    ELSE (25 * 1000 + p.amount * 20 + 500) \div 1000

ExpectedFees(P) == MapThenSumSet(ExpectedFee, P)
-----------------------------------------------------------------------------
(* Rules: which records fail them, guarded by the reports they need *)

\* Mutant: a failed payment counts as well.
IsPayment(L, k) == \E p \in L : p.id = k

IsCapture(L, k) == \E p \in Captured(L) : p.id = k

\* Orphan and non-payable payments.
OrphanPayments(L, S) ==
    {p \in Captured(L) :
        /\ ReportsComplete(S, {"orders", "payments"})
        /\ \A o \in Orders(L) : o.id # p.order}

NonPayableCaptures(L, S) ==
    {p \in Captured(L) :
        /\ ReportsComplete(S, {"orders", "payments"})
        /\ \E o \in Orders(L) : o.id = p.order /\ o.status = "CANCELLED"}

\* Refund integrity; a currency mismatch cannot pass the contract.
OrphanRefunds(L, S) ==
    {r \in Refunded(L) :
        /\ ReportsComplete(S, {"payments", "refunds"})
        /\ ~IsCapture(L, r.payment)}

ExcessRefunds(L, S) ==
    {p \in Captured(L) :
        /\ ReportsComplete(S, {"payments", "refunds"})
        /\ Total(RefundsOf(L, p)) > p.amount}

\* Fee integrity.
MissingFees(L, S) ==
    {p \in Captured(L) :
        /\ ReportsComplete(S, {"payments", "fees"})
        /\ FeesOf(L, p) = {}}

MismatchedFees(L, S) ==
    {p \in Captured(L) :
        /\ ReportsComplete(S, {"payments", "fees"})
        /\ FeesOf(L, p) # {}
        /\ Total(FeesOf(L, p)) # ExpectedFee(p)}

UnexpectedFees(L, S) ==
    {f \in Fees(L) :
        /\ ReportsComplete(S, {"payments", "fees"})
        /\ ~IsCapture(L, f.payment)}

\* The payments behind each code that a transaction inherits.
PaymentRules(L, S) ==
    [CAPTURE_FOR_NON_PAYABLE_ORDER |-> NonPayableCaptures(L, S),
     EXCESS_REFUND |-> ExcessRefunds(L, S),
     MISSING_FEE   |-> MissingFees(L, S),
     FEE_MISMATCH  |-> MismatchedFees(L, S)]

\* Exceptions that are on no order's result.
OrphanRules(L, S) ==
    [ORPHAN_PAYMENT |-> OrphanPayments(L, S),
     ORPHAN_REFUND  |-> OrphanRefunds(L, S),
     UNEXPECTED_FEE |-> UnexpectedFees(L, S)]

\* PAID orders that fail the rule of each code.
OrderRules(L, S) ==
    LET due == {o \in Orders(L) : /\ o.status = "PAID"
                                  /\ ReportsComplete(S, {"orders", "payments"})}
    IN  [MISSING_PAYMENT |-> {o \in due : CapturesOf(L, o) = {}},
         PAYMENT_AMOUNT_MISMATCH |->
            {o \in due : /\ CapturesOf(L, o) # {}
                         /\ Total(CapturesOf(L, o)) # o.amount},
         MULTIPLE_CAPTURE |-> {o \in due : Cardinality(CapturesOf(L, o)) > 1}]

\* transaction_codes of an order.
TransactionCodes(L, S, o) ==
    {c \in DOMAIN PaymentRules(L, S) :
        \E p \in PaymentRules(L, S)[c] : p.order = o.id}
    \cup {c \in DOMAIN OrderRules(L, S) : o \in OrderRules(L, S)[c]}

Transaction(L, S, o) ==
    LET captures == CapturesOf(L, o)
        refunds  == UNION {RefundsOf(L, p) : p \in captures}
        expected == IF o.status = "PAID" THEN o.amount ELSE 0
        codes    == TransactionCodes(L, S, o)
    IN  [order |-> o.id, status |-> o.status,
         captured |-> Total(captures),
         variance |-> Total(captures) - expected,
         refunded |-> Total(refunds),
         expectedFee |-> ExpectedFees(captures),
         reportedFee |-> Total(UNION {FeesOf(L, p) : p \in captures}),
         net |-> Total(captures) - Total(refunds) - ExpectedFees(captures),
         captures |-> Cardinality(captures),
         refunds |-> Cardinality(refunds),
         codes |-> codes,
         state |-> ResultState(S, TransactionRequiredReports, codes # {})]

Transactions(L, S) == {Transaction(L, S, o) : o \in Orders(L)}
-----------------------------------------------------------------------------
(* Expected movements and settlement lines *)

\* The movement of a captured payment, of its expected fee and of a refund.
\* The fee movement has the id of the reported fee if there is exactly one,
\* and otherwise an invented id that no settlement line carries.
CaptureMovement(p) ==
    [id |-> p.id, invented |-> FALSE, day |-> p.day, amount |-> p.amount]

FeeMovement(L, p) ==
    LET fees == FeesOf(L, p)
        one  == Cardinality(fees) = 1
    IN  [id |-> IF one THEN (CHOOSE f \in fees : TRUE).id ELSE p.id,
         invented |-> ~one, day |-> p.day, amount |-> -ExpectedFee(p)]

RefundMovement(r) ==
    [id |-> r.id, invented |-> FALSE, day |-> r.day, amount |-> -r.amount]

ExpectedMovements(L) ==
    {CaptureMovement(p) : p \in Captured(L)}
    \cup {FeeMovement(L, p) : p \in Captured(L)}
    \cup {RefundMovement(r) : r \in Refunded(L)}

MovementsOn(L, d) == {m \in ExpectedMovements(L) : m.day = d}

LinesFor(lines, m) == {l \in lines : l.movement = m.id /\ ~m.invented}

\* Lines that share their movement with another line, of any payout.
DuplicateLines(L, S) ==
    {l \in Lines(L) :
        /\ ReportsComplete(S, {"settlement_lines"})
        /\ \E k \in Lines(L) : k # l /\ k.movement = l.movement}

\* A fee line is compared with the reported fee, not with the expected one.
ExpectedLineAmount(L, m) ==
    IF \E f \in Fees(L) : f.id = m.id
    THEN -(CHOOSE f \in Fees(L) : f.id = m.id).amount
    ELSE m.amount
-----------------------------------------------------------------------------
(* Payouts *)

\* Two canonical payouts on one day: reconcile raises ReconciliationError.
Raises(L) == \E x, y \in Payouts(L) : x # y /\ x.day = y.day

LinesOf(L, y) == {l \in Lines(L) : l.payout = y.id}

MovementComparisonComplete(S) ==
    ReportsComplete(S, {"payments", "refunds", "fees", "settlement_lines"})

\* The expected movements of payout y without a line in it ...
UnsettledMovements(L, S, y) ==
    {m \in MovementsOn(L, y.day) :
        /\ MovementComparisonComplete(S)
        /\ LinesFor(LinesOf(L, y), m) = {}}

\* ... and the only lines of a movement that have another amount.
MismatchedLines(L, S, y) ==
    {l \in LinesOf(L, y) : \E m \in MovementsOn(L, y.day) :
        /\ MovementComparisonComplete(S)
        /\ LinesFor(LinesOf(L, y), m) = {l}
        /\ l.amount # ExpectedLineAmount(L, m)}

HasTotalMismatch(L, S, y) ==
    /\ ReportsComplete(S, {"settlement_lines", "payouts"})
    /\ y.amount # Total(LinesOf(L, y))

PayoutCodes(L, S, y) ==
    {c \in {"DUPLICATE_SETTLEMENT_MOVEMENT", "MISSING_SETTLEMENT_LINE",
            "SETTLEMENT_LINE_AMOUNT_MISMATCH", "PAYOUT_TOTAL_MISMATCH"} :
        \/ /\ c = "DUPLICATE_SETTLEMENT_MOVEMENT"
           /\ LinesOf(L, y) \cap DuplicateLines(L, S) # {}
        \/ /\ c = "MISSING_SETTLEMENT_LINE"
           /\ UnsettledMovements(L, S, y) # {}
        \/ /\ c = "SETTLEMENT_LINE_AMOUNT_MISMATCH"
           /\ MismatchedLines(L, S, y) # {}
        \/ /\ c = "PAYOUT_TOTAL_MISMATCH"
           /\ HasTotalMismatch(L, S, y)}

\* Mutant: only coded exceptions block.
PayoutIsBlockedByCodes(L, S, y) == PayoutCodes(L, S, y) # {}

\* A nonzero end-to-end variance blocks although it has no code.
PayoutIsBlocked(L, S, y) ==
    \/ PayoutCodes(L, S, y) # {}
    \/ y.amount # Total(MovementsOn(L, y.day))

PayoutResult(L, S, y) ==
    [payout |-> y.id, day |-> y.day, net |-> y.amount,
     expected |-> Total(MovementsOn(L, y.day)),
     lineTotal |-> Total(LinesOf(L, y)),
     movements |-> Cardinality(MovementsOn(L, y.day)),
     lines |-> Cardinality(LinesOf(L, y)),
     codes |-> PayoutCodes(L, S, y),
     state |-> ResultState(S, PayoutRequiredReports,
                           PayoutIsBlocked(L, S, y))]

PayoutResults(L, S) == {PayoutResult(L, S, y) : y \in Payouts(L)}

\* The non-payable rule reports the order, the others the payment.
PaymentRuleEntity(c, p) ==
    IF c = "CAPTURE_FOR_NON_PAYABLE_ORDER" THEN p.order ELSE p.id

\* One failed rule per entity: the exceptions of a run.
Exceptions(L, S) ==
    (UNION {{<<c, PaymentRuleEntity(c, p)>> : p \in PaymentRules(L, S)[c]} :
              c \in DOMAIN PaymentRules(L, S)})
    \cup (UNION {{<<c, r.id>> : r \in OrphanRules(L, S)[c]} :
              c \in DOMAIN OrphanRules(L, S)})
    \cup (UNION {{<<c, o.id>> : o \in OrderRules(L, S)[c]} :
              c \in DOMAIN OrderRules(L, S)})
    \cup {<<"DUPLICATE_SETTLEMENT_MOVEMENT", l.movement>> :
              l \in DuplicateLines(L, S)}
    \cup (UNION {{<<"MISSING_SETTLEMENT_LINE", m.id>> :
              m \in UnsettledMovements(L, S, y)} : y \in Payouts(L)})
    \cup (UNION {{<<"SETTLEMENT_LINE_AMOUNT_MISMATCH", l.id>> :
              l \in MismatchedLines(L, S, y)} : y \in Payouts(L)})
    \cup {<<"PAYOUT_TOTAL_MISMATCH", y.id>> :
              y \in {x \in Payouts(L) : HasTotalMismatch(L, S, x)}}
-----------------------------------------------------------------------------
(* validate_for_publication (publication.py) and validate_arithmetic       *)
(* (full_rebuild_recovery.py): a candidate that fails is not published.    *)

HasUniqueKeys(rows, keys) == Cardinality(rows) = Cardinality(keys)

IsPublishable(L, S) ==
    LET transactions == Transactions(L, S)
        payouts == PayoutResults(L, S)
        movements == ExpectedMovements(L)
    IN  /\ HasUniqueKeys(transactions, {t.order : t \in transactions})
        /\ HasUniqueKeys(payouts, {y.payout : y \in payouts})
        /\ HasUniqueKeys(movements, {<<m.id, m.invented>> : m \in movements})
        /\ \A t \in transactions :
             /\ t.net = t.captured - t.refunded - t.expectedFee
             /\ t.state = "RECONCILED" => t.codes = {}
        /\ \A y \in payouts : y.state = "RECONCILED" =>
             y.codes = {} /\ y.net = y.lineTotal /\ y.net = y.expected
=============================================================================
