------------------------ MODULE MCStoredCompleteness ------------------------
(* Three deliveries of order reports for days 1 and 2, one of which is      *)
(* quarantined and one of which says it was generated at hour 58, and a     *)
(* payment report whose manifest is wrong.  The clocks go forward on day 2. *)
EXTENDS StoredCompleteness

MCDelivery == 1..4

MCReport ==
    <<[report |-> "orders", day |-> 1, mode |-> "VALID", generated |-> Never],
      [report |-> "orders", day |-> 1, mode |-> "VALID", generated |-> Never],
      [report |-> "orders", day |-> 2, mode |-> "VALID", generated |-> 58],
      [report |-> "payments", day |-> 1, mode |-> "ROW_COUNT_MISMATCH",
       generated |-> Never]>>

MCQuarantined == {2}

\* Day-1 reports are due at 48 (orders), 49 (payments) and 58 (the rest),
\* those of day 2 at 71, 72 and 82.
MCInstant == {47, 58, 71}
=============================================================================
