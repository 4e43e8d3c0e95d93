--------------------------- MODULE MCIncremental ----------------------------
(***************************************************************************)
(* Two orders, two captures and a refund over days 1, 2 and 4, with        *)
(* corrections that move a payment to the other order and day, cancel an   *)
(* order, fail a payment or a refund, give a fee to the other payment, and *)
(* move the settlement line of the fee to a second line of the capture.    *)
(***************************************************************************)
EXTENDS IncrementalReplay

CONSTANTS o1, o2, p1, p2, r1, f1, l1, l2, y1, y2

order(i, s) == [id |-> i, status |-> s, amount |-> 1025]
payment(i, o, s, d) ==
    [id |-> i, order |-> o, method |-> IF i = p1 THEN "CARD" ELSE "WALLET",
     status |-> s, amount |-> 1025, day |-> d]
refund(p, s, n, d) ==
    [id |-> r1, payment |-> p, status |-> s, amount |-> n, day |-> d]
fee(p, n) == [id |-> f1, payment |-> p, amount |-> n]
line(i, y, m, n) == [id |-> i, payout |-> y, movement |-> m, amount |-> n]
payout(i, d, n) == [id |-> i, day |-> d, amount |-> n]

\* The fee of 1025 cents is 38.45, rounded to 38, by card and 45.5, rounded
\* to 46, by wallet.  The first order and its payout are fully reconciled.
MCFirst ==
    {order(o1, "PAID"), payment(p1, o1, "CAPTURED", 1), fee(p1, 38),
     line(l1, y1, p1, 1025), line(l2, y1, f1, -38), payout(y1, 1, 987)}

MCSecond ==
    {order(o2, "PAID"), payment(p2, o2, "CAPTURED", 2),
     refund(p2, "SUCCEEDED", 300, 4)}

MCVariants ==
    {order(o1, "CANCELLED"), payment(p1, o1, "FAILED", 0),
     payment(p1, o2, "CAPTURED", 2), refund(p1, "SUCCEEDED", 2000, 1),
     refund(p2, "FAILED", 300, 0), fee(p2, 46), line(l2, y2, p1, 1025),
     payout(y2, 2, 979)}

MCRecords == MCFirst \cup MCSecond \cup MCVariants
MCSettled == {MCFirst \cup {order(o2, "PAID")}}
MCLedgers == MCSettled \cup {MCFirst \cup MCSecond}

AllComplete == [t \in ReportType |-> "COMPLETE"]
MCReportStates ==
    {AllComplete, [AllComplete EXCEPT !["fees"] = "PENDING"],
     [AllComplete EXCEPT !["settlement_lines"] = "INCOMPLETE"]}
=============================================================================
