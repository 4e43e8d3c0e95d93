-------------------------- MODULE FinancialRecords --------------------------
(***************************************************************************)
(* The parsed source records of contracts.py that reconciliation and       *)
(* recovery planning read.  Amounts are cents, days are numbers; the ids   *)
(* of the entity types are disjoint sets, so an id is a RecordKey.  Every  *)
(* parsed record is in EUR.                                                *)
(***************************************************************************)
EXTENDS Integers

CONSTANTS
    Order, Payment, Refund, Fee, SettlementLine, Payout,  \* record ids
    Record     \* the contents the sources may report

Key == Order \cup Payment \cup Refund \cup Fee \cup SettlementLine \cup Payout

NoDay == 0
Day   == Nat \ {NoDay}
Cents == Nat \ {0}

OrderRecord ==
    [id : Order, status : {"PAYMENT_PENDING", "PAID", "CANCELLED"},
     amount : Cents]

\* available_on is present exactly for captured payments ...
PaymentRecord ==
    [id : Payment, order : Order, method : {"CARD", "WALLET"},
     status : {"FAILED"}, amount : Cents, day : {NoDay}]
    \cup
    [id : Payment, order : Order, method : {"CARD", "WALLET"},
     status : {"CAPTURED"}, amount : Cents, day : Day]

\* ... and for successful refunds.
RefundRecord ==
    [id : Refund, payment : Payment, status : {"FAILED"}, amount : Cents,
     day : {NoDay}]
    \cup
    [id : Refund, payment : Payment, status : {"SUCCEEDED"}, amount : Cents,
     day : Day]

FeeRecord == [id : Fee, payment : Payment, amount : Cents]

\* A movement is named by its type and id; captures are positive, refunds
\* and fees negative.
SettlementLineRecord ==
    [id : SettlementLine, payout : Payout, movement : Payment, amount : Cents]
    \cup
    [id : SettlementLine, payout : Payout, movement : Refund \cup Fee,
     amount : {c \in Int : c < 0}]

\* amount is reported_net_amount.
PayoutRecord == [id : Payout, day : Day, amount : Nat]

AnyRecord ==
    OrderRecord \cup PaymentRecord \cup RefundRecord \cup FeeRecord \cup
    SettlementLineRecord \cup PayoutRecord

ASSUME RecordAssumption ==
    /\ Record \subseteq AnyRecord
    /\ Order \cap (Payment \cup Refund \cup Fee \cup SettlementLine \cup Payout) = {}
    /\ Payment \cap (Refund \cup Fee \cup SettlementLine \cup Payout) = {}
    /\ Refund \cap (Fee \cup SettlementLine \cup Payout) = {}
    /\ Fee \cap (SettlementLine \cup Payout) = {}
    /\ SettlementLine \cap Payout = {}
=============================================================================
