-------------------------- MODULE CompletenessProofs ------------------------
(***************************************************************************)
(* Proofs about stored completeness, for every set of deliveries, every    *)
(* pair of days on which the clocks change and every history of commits,   *)
(* damage and rebuilds: what a published run calls overdue or pending is   *)
(* so in Berlin's time; an answer about a past cutoff is revised           *)
(* only by evidence that belongs there; time alone only makes a pending    *)
(* report overdue; both evaluators agree; and what is published is current *)
(* once every request has been rebuilt.                                    *)
(***************************************************************************)
EXTENDS StoredCompleteness, FiniteSetTheorems, TLAPS

\* For every day, report type and hour, comparing with report_deadline_utc is
\* reading the wall clock in Berlin (report_deadline_local, evaluate_report).
LEMMA DeadlineIsWallClock ==
    ASSUME NEW day \in Nat, NEW t \in ReportType, NEW i \in Nat
    PROVE  i >= ReportDeadline(day, t) <=> IsDue(day, t, i)
<1>1. DeadlineHour[t] \in {1, 2, 12}
  BY DEF DeadlineHour, ReportType
<1> QED
  BY <1>1, ClockAssumption DEF ReportDeadline, BerlinOffset, IsDue, WallClock

\* A nonempty set of natural numbers has a least element: of its nonempty
\* initial segments a smallest one has one element.
LEMMA LeastNatural ==
    ASSUME NEW S \in SUBSET Nat, S # {}
    PROVE  \E m \in S : \A n \in S : m <= n
<1> DEFINE Segment(n) == {k \in S : k <= n}
<1>0. \A k \in S : k \in Nat
  OBVIOUS
<1>1. PICK top \in S : TRUE
  OBVIOUS
<1> DEFINE Segments == {Segment(n) : n \in Segment(top)}
<1>2. \A n \in Segment(top) : Segment(n) \subseteq 0 .. top
  <2> SUFFICES ASSUME NEW n \in Segment(top), NEW k \in Segment(n)
               PROVE  k \in 0 .. top
    OBVIOUS
  <2>1. k \in Nat /\ n \in Nat /\ top \in Nat /\ k <= n /\ n <= top
    BY <1>0, <1>1
  <2> QED
    BY <2>1
<1>3. Segments \subseteq FiniteSubsetsOf(0 .. top)
  <2> SUFFICES ASSUME NEW n \in Segment(top)
               PROVE  Segment(n) \in FiniteSubsetsOf(0 .. top)
    OBVIOUS
  <2>1. IsFiniteSet(0 .. top)
    BY <1>0, <1>1, FS_Interval
  <2>2. IsFiniteSet(Segment(n))
    BY <1>2, <2>1, FS_Subset
  <2> QED
    BY <1>2, <2>2 DEF FiniteSubsetsOf
<1>4. Segments # {}
  <2>1. top \in Segment(top)
    BY <1>0, <1>1
  <2> HIDE DEF Segment
  <2> QED
    BY <2>1
<1>5. IsWellFoundedOn(StrictSubsetOrdering(0 .. top), FiniteSubsetsOf(0 .. top))
  BY FS_StrictSubsetOrderingWellFounded
<1>6. PICK T \in Segments :
         \A U \in Segments : <<U, T>> \notin StrictSubsetOrdering(0 .. top)
  <2> HIDE DEF Segments
  <2> QED
    BY <1>3, <1>4, <1>5, WFMin
<1>7. PICK m \in Segment(top) : T = Segment(m)
  BY <1>6
<1>8. \A n \in S : m <= n
  <2> SUFFICES ASSUME NEW n \in S, n < m
               PROVE  FALSE
    BY <1>0, <1>7
  <2>1. /\ n \in Nat /\ m \in Nat /\ top \in Nat /\ m <= top
        /\ n \in Segment(top)
    BY <1>0, <1>7
  <2>2. Segment(n) \subseteq T
    <3> SUFFICES ASSUME NEW k \in Segment(n)
                 PROVE  k \in Segment(m)
      BY <1>7
    <3>1. k \in Nat /\ k <= n
      BY <1>0
    <3> QED
      BY <2>1, <3>1
  <2>3. m \in T /\ m \notin Segment(n)
    BY <1>7, <2>1
  <2>4. Segment(n) \subseteq 0 .. top /\ T \subseteq 0 .. top
    BY <1>2, <1>7, <2>1
  <2> HIDE DEF Segment
  <2>5. <<Segment(n), T>> \in StrictSubsetOrdering(0 .. top)
    BY <2>2, <2>3, <2>4 DEF StrictSubsetOrdering
  <2>6. Segment(n) \in Segments
    BY <2>1
  <2> QED
    BY <1>6, <2>5, <2>6
<1> QED
  BY <1>7, <1>8
-----------------------------------------------------------------------------
(* What load_completeness computes *)

\* One report of one day is complete, or judged by its own deadline.
LEMMA ReportIsJudged ==
    ASSUME NEW i \in Nat, NEW day \in Nat, NEW t \in ReportType
    PROVE  /\ ReportOn(i, day, t).day = day
           /\ ReportOn(i, day, t).state \in State
           /\ ReportOn(i, day, t).state = "PENDING" => ~IsDue(day, t, i)
           /\ ReportOn(i, day, t).state = "INCOMPLETE" => IsDue(day, t, i)
<1>1. ReportDeadline(day, t) \in Int
  <2>1. DeadlineHour[t] \in {1, 2, 12}
    BY DEF DeadlineHour, ReportType
  <2> QED
    BY <2>1 DEF ReportDeadline, BerlinOffset
<1>2. /\ UnresolvedState(i, ReportDeadline(day, t)) \in {"PENDING", "INCOMPLETE"}
      /\ UnresolvedState(i, ReportDeadline(day, t)) = "PENDING"
           => ~IsDue(day, t, i)
      /\ UnresolvedState(i, ReportDeadline(day, t)) = "INCOMPLETE"
           => IsDue(day, t, i)
  BY <1>1, DeadlineIsWallClock DEF UnresolvedState
<1>3. /\ ReportOn(i, day, t).day = day
      /\ ReportOn(i, day, t).state \in
            {"COMPLETE", UnresolvedState(i, ReportDeadline(day, t))}
  BY DEF ReportOn, EvaluateReport
<1> QED
  BY <1>2, <1>3 DEF State

\* The report load_completeness returns for a type is that of an expected day,
\* and no expected day has a worse one.
LEMMA WorstIsAReport ==
    ASSUME NEW i \in Nat, NEW t \in ReportType,
           ExpectedDays # {}, ExpectedDays \subseteq Nat
    PROVE  /\ \E day \in ExpectedDays : WorstReport(i, t) = ReportOn(i, day, t)
           /\ \A day \in ExpectedDays :
                 Severity[WorstReport(i, t).state] >= Severity[ReportOn(i, day, t).state]
<1> DEFINE results == {ReportOn(i, day, t) : day \in ExpectedDays}
           sev(day) == Severity[ReportOn(i, day, t).state]
           Worst(day) == \A e \in ExpectedDays : sev(day) >= sev(e)
<1>1. \A day \in ExpectedDays : sev(day) \in 0 .. 2
  <2> TAKE day \in ExpectedDays
  <2>1. ReportOn(i, day, t).state \in State
    BY ReportIsJudged
  <2> QED
    BY <2>1 DEF State, Severity
<1>2. \E day \in ExpectedDays : Worst(day)
  <2>1. CASE \E day \in ExpectedDays : sev(day) = 2
    BY <1>1, <2>1
  <2>2. CASE /\ \A day \in ExpectedDays : sev(day) # 2
             /\ \E day \in ExpectedDays : sev(day) = 1
    BY <1>1, <2>2
  <2>3. CASE \A day \in ExpectedDays : sev(day) # 2 /\ sev(day) # 1
    <3>1. \A day \in ExpectedDays : sev(day) = 0
      BY <1>1, <2>3
    <3>2. PICK day \in ExpectedDays : TRUE
      OBVIOUS
    <3> HIDE DEF sev
    <3>3. Worst(day)
      BY <3>1, <3>2
    <3> QED
      BY <3>2, <3>3
  <2> QED
    BY <2>1, <2>2, <2>3
<1> DEFINE worst == {day \in ExpectedDays : Worst(day)}
<1>3. PICK first \in worst : \A day \in worst : first <= day
  <2>1. worst \in SUBSET Nat /\ worst # {}
    BY <1>2
  <2> HIDE DEF worst
  <2> QED
    BY <2>1, LeastNatural
<1>4. \A day \in ExpectedDays :
        \/ sev(first) > sev(day)
        \/ sev(first) = sev(day) /\ first <= day
  <2> TAKE day \in ExpectedDays
  <2>1. CASE sev(day) = sev(first)
    <3>1. day \in worst
      BY <1>1, <1>3, <2>1
    <3> QED
      BY <1>3, <2>1, <3>1
  <2>2. CASE sev(day) # sev(first)
    BY <1>1, <1>3, <2>2
  <2> QED
    BY <2>1, <2>2
<1>5. \A day \in ExpectedDays : ReportOn(i, day, t).day = day
  BY ReportIsJudged
<1>6. \E r \in results : \A q \in results :
         \/ Severity[r.state] > Severity[q.state]
         \/ Severity[r.state] = Severity[q.state] /\ r.day <= q.day
  <2> WITNESS ReportOn(i, first, t) \in results
  <2> TAKE q \in results
  <2>1. PICK day \in ExpectedDays : q = ReportOn(i, day, t)
    OBVIOUS
  <2> QED
    BY <1>3, <1>4, <1>5, <2>1
<1>7. /\ WorstReport(i, t) \in results
      /\ \A q \in results :
            LET r == WorstReport(i, t) IN
            \/ Severity[r.state] > Severity[q.state]
            \/ Severity[r.state] = Severity[q.state] /\ r.day <= q.day
  BY <1>6, Zenon DEF WorstReport
<1>8. PICK day \in ExpectedDays : WorstReport(i, t) = ReportOn(i, day, t)
  BY <1>7
<1>9. \A e \in ExpectedDays : sev(day) > sev(e) \/ sev(day) = sev(e)
  BY <1>7, <1>8
<1> QED
  BY <1>1, <1>8, <1>9
-----------------------------------------------------------------------------
(* The invariant *)

\* What a rebuild relies on: its request belongs to a batch in the ledger,
\* received at a time at which something happens.
RequestsAreGrounded ==
    \A d \in Delivery :
        request[d] = "PENDING" => status[d] # "NONE" /\ received[d] \in Instant

DueInv == StoredTypeOK /\ RequestsAreGrounded /\ PublishedIsDue

\* The clock moves among the instants.
LEMMA LeastInstant ==
    ASSUME NEW S \in SUBSET Instant, S # {}
    PROVE  Min(S) \in S
<1>1. \E m \in S : \A n \in S : m <= n
  BY DeliveryAssumption, LeastNatural
<1> QED
  BY <1>1 DEF Min

\* A rebuild publishes reports that are judged by their deadlines.
LEMMA RebuildIsDue ==
    ASSUME NEW d \in Delivery, StoredTypeOK, RequestsAreGrounded, Rebuild(d)
    PROVE  /\ PublishedIsDue'
           /\ published'.asOf \in Instant
           /\ \A t \in ReportType : published'.result[t].state \in State
<1> DEFINE i == received[d]
<1>1. i \in Instant /\ i \in Nat /\ ExpectedDays # {} /\ ExpectedDays \subseteq Nat
  <2>1. i \in Instant /\ status[d] # "NONE"
    BY DEF RequestsAreGrounded, Rebuild
  <2>2. Report[d].day \in ExpectedDays
    BY <2>1 DEF ExpectedDays
  <2>3. \A x \in Delivery : Report[x].day \in Nat
    BY DeliveryAssumption
  <2>4. ExpectedDays \subseteq Nat
    BY <2>3 DEF ExpectedDays
  <2> QED
    BY <2>1, <2>2, <2>4, DeliveryAssumption
<1>2. published'.asOf = i
      /\ \A t \in ReportType : published'.result[t] = WorstReport(i, t)
  BY DEF Rebuild, LoadCompleteness
<1> HIDE DEF i
<1>3. ASSUME NEW t \in ReportType
      PROVE  LET r == published'.result[t] IN
             /\ r.state \in State
             /\ r.state = "PENDING" => ~IsDue(r.day, t, published'.asOf)
             /\ r.state = "INCOMPLETE" => IsDue(r.day, t, published'.asOf)
  <2>1. PICK day \in ExpectedDays : WorstReport(i, t) = ReportOn(i, day, t)
    BY <1>1, WorstIsAReport
  <2>2. day \in Nat
    BY <1>1, <2>1
  <2>3. /\ ReportOn(i, day, t).day = day
        /\ ReportOn(i, day, t).state \in State
        /\ ReportOn(i, day, t).state = "PENDING" => ~IsDue(day, t, i)
        /\ ReportOn(i, day, t).state = "INCOMPLETE" => IsDue(day, t, i)
    BY <1>1, <2>2, ReportIsJudged
  <2> QED
    BY <1>2, <2>1, <2>3
<1>4. PublishedIsDue'
  BY <1>3 DEF PublishedIsDue, IsDue, WallClock, DeadlineHour
<1> QED
  BY <1>1, <1>2, <1>3, <1>4

\* A step that publishes nothing keeps what is published.
LEMMA PublishedKept ==
    ASSUME PublishedIsDue, published' = published
    PROVE  PublishedIsDue'
BY DEF PublishedIsDue, IsDue, WallClock, DeadlineHour

LEMMA InitIsDue == Init => DueInv
<1> SUFFICES ASSUME Init
             PROVE  DueInv
  OBVIOUS
<1>1. now \in Instant
  BY DeliveryAssumption, LeastInstant DEF Init
<1>2. StoredTypeOK
  BY <1>1 DEF Init, StoredTypeOK
<1> QED
  BY <1>2 DEF Init, DueInv, RequestsAreGrounded, PublishedIsDue

LEMMA NextKeepsDue == DueInv /\ [Next]_vars => DueInv'
<1> SUFFICES ASSUME StoredTypeOK, RequestsAreGrounded, PublishedIsDue, [Next]_vars
             PROVE  StoredTypeOK' /\ RequestsAreGrounded' /\ PublishedIsDue'
  BY DEF DueInv
<1> DEFINE Kept == StoredTypeOK' /\ RequestsAreGrounded' /\ PublishedIsDue'
<1>1. ASSUME NEW d \in Delivery, RecordDefective(d)
      PROVE  Kept
  <2>1. StoredTypeOK'
    BY <1>1 DEF RecordDefective, StoredTypeOK, Nothing
  <2>2. RequestsAreGrounded'
    BY <1>1 DEF RecordDefective, RequestsAreGrounded, StoredTypeOK
  <2> QED
    BY <1>1, <2>1, <2>2, PublishedKept DEF RecordDefective
<1>2. ASSUME NEW d \in Delivery, DamageEvidence(d)
      PROVE  Kept
  <2>1. StoredTypeOK'
    BY <1>2 DEF DamageEvidence, StoredTypeOK, Nothing
  <2>2. RequestsAreGrounded'
    BY <1>2 DEF DamageEvidence, RequestsAreGrounded
  <2> QED
    BY <1>2, <2>1, <2>2, PublishedKept DEF DamageEvidence
<1>3. ASSUME NEW d \in Delivery, Rebuild(d)
      PROVE  Kept
  <2>1. /\ PublishedIsDue'
        /\ published'.asOf \in Instant
        /\ \A t \in ReportType : published'.result[t].state \in State
    BY <1>3, RebuildIsDue
  <2>2. StoredTypeOK'
    BY <1>3, <2>1 DEF Rebuild, StoredTypeOK
  <2>3. RequestsAreGrounded'
    BY <1>3 DEF Rebuild, RequestsAreGrounded, StoredTypeOK
  <2> QED
    BY <2>1, <2>2, <2>3
<1>4. ASSUME NEW d \in Delivery, NEW asOf \in Instant, IngestDelivery(d, asOf)
      PROVE  Kept
  <2>1. StoredTypeOK'
    BY <1>4 DEF IngestDelivery, ScheduledRequest, StoredTypeOK, Nothing
  <2>2. RequestsAreGrounded'
    BY <1>4 DEF IngestDelivery, ScheduledRequest, RequestsAreGrounded, StoredTypeOK
  <2> QED
    BY <1>4, <2>1, <2>2, PublishedKept DEF IngestDelivery
<1>5. ASSUME Tick
      PROVE  Kept
  <2>1. now' \in Instant
    BY <1>5, LeastInstant DEF Tick
  <2>2. StoredTypeOK'
    BY <1>5, <2>1 DEF Tick, StoredTypeOK, Nothing
  <2>3. RequestsAreGrounded'
    BY <1>5 DEF Tick, RequestsAreGrounded
  <2> QED
    BY <1>5, <2>2, <2>3, PublishedKept DEF Tick
<1>6. CASE UNCHANGED vars
  <2>1. StoredTypeOK'
    BY <1>6 DEF vars, StoredTypeOK, Nothing
  <2>2. RequestsAreGrounded'
    BY <1>6 DEF vars, RequestsAreGrounded
  <2> QED
    BY <1>6, <2>1, <2>2, PublishedKept DEF vars
<1> QED
  BY <1>1, <1>2, <1>3, <1>4, <1>5, <1>6 DEF Next

\* Deliveries, damage, rebuilds and the clock keep DueInv.
THEOREM DueInvariant == Spec => []DueInv
<1> QED
  BY InitIsDue, NextKeepsDue, PTL DEF Spec

\* Batches, requests and the published run keep their types: only committed
\* evidence is damaged, and every published report has one of the three states
\* of evaluate_report, so that the worst day of load_completeness exists.
THEOREM StoredTypeCorrect == Spec => []StoredTypeOK
<1>1. DueInv => StoredTypeOK
  BY DEF DueInv
<1> QED
  BY <1>1, DueInvariant, PTL

\* load_completeness and evaluate_report, whatever the deliveries, the days the
\* clocks change and the order of rebuilds: a published run calls a report
\* PENDING only before its Berlin deadline, INCOMPLETE only from then on.
THEOREM PublishedDueCorrect == Spec => []PublishedIsDue
<1>1. DueInv => PublishedIsDue
  BY DEF DueInv
<1> QED
  BY <1>1, DueInvariant, PTL
-----------------------------------------------------------------------------
(* Cutoffs *)

\* The deliveries of a report type that a cutoff counts.
CountedOf(i, t) == {d \in Counted(i) : Report[d].report = t}

\* They and their times decide which batch is the latest.
LEMMA LatestOfCounted ==
    ASSUME NEW i, NEW t, NEW day
    PROVE  LatestBatch(i, day, t) =
             {d \in CountedOf(i, t) :
                /\ Report[d].day = day
                /\ \A e \in CountedOf(i, t) : Report[e].day = day => ~IsLater(e, d)}
BY DEF LatestBatch, CountedOf

\* The report of a day is decided by the latest batch, the damage to it and
\* the deadline.
HasValidBatch(i, day, t) ==
    /\ LatestBatch(i, day, t) # {}
    /\ \A d \in LatestBatch(i, day, t) : ~HasProblem(d)

LEMMA ReportIsDecided ==
    ASSUME NEW i, NEW t \in ReportType, NEW day
    PROVE  ReportOn(i, day, t).state =
             IF HasValidBatch(i, day, t) THEN "COMPLETE"
             ELSE UnresolvedState(i, ReportDeadline(day, t))
<1>1. EvaluateReport(t, day, i, NoEvidence).state =
        UnresolvedState(i, ReportDeadline(day, t))
  BY DEF EvaluateReport, NoEvidence, VisibleAt, CollectIssues, Issue
<1> QED
  BY <1>1 DEF ReportOn, HasValidBatch

\* max over the days, as a function of their results.
WorstOf(results) ==
    CHOOSE r \in results : \A q \in results :
        \/ Severity[r.state] > Severity[q.state]
        \/ Severity[r.state] = Severity[q.state] /\ r.day <= q.day

LEMMA WorstIsWorstOf ==
    ASSUME NEW i, NEW t
    PROVE  WorstReport(i, t) = WorstOf({ReportOn(i, day, t) : day \in ExpectedDays})
BY DEF WorstReport, WorstOf

\* A later state that counts the same deliveries, with the same times and the
\* same damage, and expects the same days, has the same report.
LEMMA SameCountedSameReport ==
    ASSUME NEW i, NEW t, ExpectedDays' = ExpectedDays,
           CountedOf(i, t)' = CountedOf(i, t),
           \A d \in CountedOf(i, t) :
              received'[d] = received[d] /\ (d \in damaged' <=> d \in damaged)
    PROVE  WorstReport(i, t)' = WorstReport(i, t)
<1>1. ASSUME NEW day
      PROVE  LatestBatch(i, day, t)' = LatestBatch(i, day, t)
  <2>1. LatestBatch(i, day, t)' =
          {d \in CountedOf(i, t)' :
             /\ Report[d].day = day
             /\ \A e \in CountedOf(i, t)' :
                  Report[e].day = day =>
                     ~(\/ received'[e] > received'[d]
                       \/ received'[e] = received'[d] /\ e > d)}
    BY DEF LatestBatch, CountedOf, IsLater
  <2>2. LatestBatch(i, day, t) =
          {d \in CountedOf(i, t) :
             /\ Report[d].day = day
             /\ \A e \in CountedOf(i, t) :
                  Report[e].day = day =>
                     ~(\/ received[e] > received[d]
                       \/ received[e] = received[d] /\ e > d)}
    BY DEF LatestBatch, CountedOf, IsLater
  <2> QED
    BY <2>1, <2>2
<1>2. ASSUME NEW day
      PROVE  ReportOn(i, day, t)' = ReportOn(i, day, t)
  <2>1. LatestBatch(i, day, t) \subseteq CountedOf(i, t)
    BY DEF LatestBatch, CountedOf
  <2>2. \A d \in LatestBatch(i, day, t) : HasProblem(d)' <=> HasProblem(d)
    BY <2>1 DEF HasProblem
  <2> QED
    BY <1>1, <2>2 DEF ReportOn
<1>3. {ReportOn(i, day, t) : day \in ExpectedDays}' =
        {ReportOn(i, day, t) : day \in ExpectedDays}
  BY <1>2
<1>4. WorstReport(i, t)' = WorstOf({ReportOn(i, day, t) : day \in ExpectedDays}')
  BY DEF WorstReport, WorstOf
<1> QED
  BY <1>3, <1>4, WorstIsWorstOf

\* What a step does to the deliveries of type t that the cutoff i counts.
ChangedAt(i, t) ==
    {d \in Committed' : Report[d].report = t /\ received'[d] <= i
        /\ (d \notin Committed \/ d \in damaged' \ damaged)}

LEMMA UnchangedCounted ==
    ASSUME StoredTypeOK, [Next]_vars, NEW i, NEW t, ChangedAt(i, t) = {}
    PROVE  /\ CountedOf(i, t)' = CountedOf(i, t)
           /\ \A d \in CountedOf(i, t) :
                 received'[d] = received[d] /\ (d \in damaged' <=> d \in damaged)
<1>1. /\ status \in [Delivery -> {"NONE", "COMMITTED", "FAILED"}]
      /\ received \in [Delivery -> Instant \cup {Never}]
      /\ damaged \subseteq {d \in Delivery : status[d] = "COMMITTED"}
  BY DEF StoredTypeOK
<1> USE DEF CountedOf, Counted, Committed, ChangedAt
<1>2. CASE UNCHANGED <<status, received, damaged>>
  BY <1>2
<1>3. ASSUME NEW x \in Delivery, RecordDefective(x)
      PROVE  /\ CountedOf(i, t)' = CountedOf(i, t)
             /\ \A d \in CountedOf(i, t) :
                   received'[d] = received[d] /\ (d \in damaged' <=> d \in damaged)
  <2>1. /\ status[x] = "NONE" /\ damaged' = damaged
        /\ status' = [status EXCEPT ![x] = "FAILED"]
        /\ received' = [received EXCEPT ![x] = now]
    BY <1>3 DEF RecordDefective
  <2> QED
    BY <1>1, <2>1
<1>4. ASSUME NEW x \in Delivery, NEW asOf \in Instant, IngestDelivery(x, asOf)
      PROVE  /\ CountedOf(i, t)' = CountedOf(i, t)
             /\ \A d \in CountedOf(i, t) :
                   received'[d] = received[d] /\ (d \in damaged' <=> d \in damaged)
  <2>1. /\ status[x] = "NONE" /\ damaged' = damaged
        /\ status' = [status EXCEPT ![x] = "COMMITTED"]
        /\ received' = [received EXCEPT ![x] = asOf]
    BY <1>4 DEF IngestDelivery
  <2>2. ~(Report[x].report = t /\ received'[x] <= i)
    BY <1>1, <2>1
  <2> QED
    BY <1>1, <2>1, <2>2
<1>5. ASSUME NEW x \in Delivery, DamageEvidence(x)
      PROVE  /\ CountedOf(i, t)' = CountedOf(i, t)
             /\ \A d \in CountedOf(i, t) :
                   received'[d] = received[d] /\ (d \in damaged' <=> d \in damaged)
  <2>1. /\ status' = status /\ received' = received
        /\ damaged' = damaged \cup {x} /\ x \notin damaged
    BY <1>5 DEF DamageEvidence
  <2> QED
    BY <2>1
<1>6. ASSUME NEW x \in Delivery, Rebuild(x)
      PROVE  UNCHANGED <<status, received, damaged>>
  BY <1>6 DEF Rebuild
<1>7. Tick \/ UNCHANGED vars => UNCHANGED <<status, received, damaged>>
  BY DEF Tick, vars
<1> QED
  BY <1>2, <1>3, <1>4, <1>5, <1>6, <1>7 DEF Next

\* load_completeness at a frozen as_of_utc, for any deliveries and any later
\* history: the result for a report changes only when a delivery of that report
\* received by then commits, its evidence is damaged, or a day is added.
THEOREM CutoffIsStable == Spec => OnlyEvidenceReachesBack
<1>1. DueInv /\ [Next]_vars =>
        [\A t \in ReportType : \A i \in Instant :
            LET isChanged(d) == d \notin Committed \/ d \in damaged' \ damaged
                changed == {d \in Committed' : Report[d].report = t
                                /\ received'[d] <= i /\ isChanged(d)}
            IN  ExpectedDays # {} /\ ExpectedDays' = ExpectedDays /\ changed = {}
                => WorstReport(i, t)' = WorstReport(i, t)]_vars
  <2> SUFFICES ASSUME DueInv, [Next]_vars, NEW t \in ReportType, NEW i \in Instant,
                      ExpectedDays' = ExpectedDays, ChangedAt(i, t) = {}
               PROVE  WorstReport(i, t)' = WorstReport(i, t)
    BY DEF ChangedAt
  <2>1. StoredTypeOK
    BY DEF DueInv
  <2> QED
    BY <2>1, UnchangedCounted, SameCountedSameReport
<1> QED
  BY <1>1, DueInvariant, PTL DEF Spec, OnlyEvidenceReachesBack
-----------------------------------------------------------------------------
(* Batches and the files they came from *)

\* A batch in the ledger was received by now, and its status is what
\* verify_delivery made of its files.
BatchesAreSound ==
    \A d \in Delivery : status[d] # "NONE" =>
        /\ received[d] \in Instant /\ received[d] <= now
        /\ status[d] = "COMMITTED" <=> Report[d].mode = "VALID"
        /\ Report[d].mode \in {"VALID", "ROW_COUNT_MISMATCH", "CHECKSUM_MISMATCH"}

LEMMA VerifiedMode ==
    ASSUME NEW d \in Delivery
    PROVE  /\ IsReadable(d) => Report[d].mode \in
                {"VALID", "ROW_COUNT_MISMATCH", "CHECKSUM_MISMATCH"}
           /\ IsVerified(d) => Report[d].mode = "VALID"
           /\ IsReadable(d) /\ ~IsVerified(d) => Report[d].mode # "VALID"
<1>1. Report[d].mode \in ReportMode /\ Report[d].report \in ReportType
  BY DeliveryAssumption
<1> DEFINE e == EvidenceOf(d)
<1>2. IsReadable(d) => Report[d].mode \in
        {"VALID", "ROW_COUNT_MISMATCH", "CHECKSUM_MISMATCH"}
  BY <1>1 DEF IsReadable, EvidenceOf, BuildReportEvidence, ReportMode
<1>3. IsReadable(d) =>
        /\ e.manifest.source = ReportSource[e.manifest.report]
        /\ e.data.rows = 1 /\ e.data.sha = "of the data"
        /\ e.manifest.rows = IF Report[d].mode = "ROW_COUNT_MISMATCH" THEN 2 ELSE 1
        /\ e.manifest.sha = IF Report[d].mode = "CHECKSUM_MISMATCH"
                            THEN "of other data" ELSE "of the data"
  BY <1>2 DEF EvidenceOf, BuildReportEvidence
<1>4. IsVerified(d) => Report[d].mode = "VALID"
  <2> SUFFICES ASSUME IsVerified(d)
               PROVE  Report[d].mode = "VALID"
    OBVIOUS
  <2>1. /\ IsReadable(d)
        /\ e.manifest.rows = e.data.rows /\ e.manifest.sha = e.data.sha
    BY DEF IsVerified
  <2>2. /\ Report[d].mode # "ROW_COUNT_MISMATCH"
        /\ Report[d].mode # "CHECKSUM_MISMATCH"
    <3> HIDE DEF e
    <3>1. ASSUME Report[d].mode = "ROW_COUNT_MISMATCH"
          PROVE  FALSE
      <4>1. e.manifest.rows = 2 /\ e.data.rows = 1
        BY <1>3, <2>1, <3>1
      <4>2. 2 = 1
        BY <2>1, <4>1, Zenon
      <4> QED
        BY <4>2
    <3>2. ASSUME Report[d].mode = "CHECKSUM_MISMATCH"
          PROVE  FALSE
      <4>1. e.manifest.sha = "of other data" /\ e.data.sha = "of the data"
        BY <1>3, <2>1, <3>2
      <4> QED
        BY <2>1, <4>1
    <3> QED
      BY <3>1, <3>2
  <2> QED
    BY <1>2, <2>1, <2>2
<1>5. IsReadable(d) /\ Report[d].mode = "VALID" => IsVerified(d)
  BY <1>3 DEF IsVerified
<1> QED
  BY <1>2, <1>4, <1>5

LEMMA NextKeepsSound ==
    ASSUME StoredTypeOK, BatchesAreSound, [Next]_vars
    PROVE  BatchesAreSound'
<1>1. /\ status \in [Delivery -> {"NONE", "COMMITTED", "FAILED"}]
      /\ received \in [Delivery -> Instant \cup {Never}]
      /\ now \in Instant /\ Instant \subseteq Nat
  BY DeliveryAssumption DEF StoredTypeOK
<1>2. ASSUME NEW d \in Delivery, RecordDefective(d)
      PROVE  BatchesAreSound'
  <2>1. /\ Report[d].mode \in {"VALID", "ROW_COUNT_MISMATCH", "CHECKSUM_MISMATCH"}
        /\ Report[d].mode # "VALID"
    BY <1>2, VerifiedMode DEF RecordDefective
  <2> QED
    BY <1>1, <1>2, <2>1 DEF RecordDefective, BatchesAreSound
<1>3. ASSUME NEW d \in Delivery, NEW asOf \in Instant, IngestDelivery(d, asOf)
      PROVE  BatchesAreSound'
  <2>1. Report[d].mode = "VALID"
    BY <1>3, VerifiedMode DEF IngestDelivery
  <2> QED
    BY <1>1, <1>3, <2>1 DEF IngestDelivery, BatchesAreSound
<1>4. ASSUME NEW d \in Delivery, DamageEvidence(d) \/ Rebuild(d)
      PROVE  BatchesAreSound'
  BY <1>4 DEF DamageEvidence, Rebuild, BatchesAreSound
<1>5. CASE Tick
  <2>1. now' \in Instant /\ now' > now
    <3>1. {i \in Instant : i > now} # {}
      BY <1>5 DEF Tick
    <3>2. now' \in {i \in Instant : i > now}
      BY <1>5, <3>1, LeastInstant DEF Tick
    <3> QED
      BY <3>2
  <2>2. \A d \in Delivery : status[d] # "NONE" => received[d] <= now'
    <3> SUFFICES ASSUME NEW d \in Delivery, status[d] # "NONE"
                 PROVE  received[d] <= now'
      OBVIOUS
    <3>1. received[d] \in Instant /\ received[d] <= now
      BY DEF BatchesAreSound
    <3>2. received[d] \in Nat /\ now \in Nat /\ now' \in Nat
      BY <1>1, <2>1, <3>1
    <3> QED
      BY <2>1, <3>1, <3>2
  <2>3. UNCHANGED <<status, received>>
    BY <1>5 DEF Tick
  <2> QED
    BY <2>2, <2>3 DEF BatchesAreSound
<1>6. CASE UNCHANGED vars
  BY <1>6 DEF vars, BatchesAreSound
<1> QED
  BY <1>2, <1>3, <1>4, <1>5, <1>6 DEF Next

SoundInv == DueInv /\ BatchesAreSound

\* Every batch in the ledger was received by now and has the status its files
\* deserve.
THEOREM SoundInvariant == Spec => []SoundInv
<1>1. Init => SoundInv
  BY InitIsDue DEF Init, SoundInv, BatchesAreSound
<1>2. SoundInv /\ [Next]_vars => SoundInv'
  BY NextKeepsDue, NextKeepsSound DEF SoundInv, DueInv
<1> QED
  BY <1>1, <1>2, PTL DEF Spec

\* What expected_report_day lists are days.
LEMMA ExpectedAreDays == ExpectedDays \subseteq Nat
<1>1. \A x \in Delivery : Report[x].day \in Nat
  BY DeliveryAssumption
<1> QED
  BY <1>1 DEF ExpectedDays

\* Deadlines are hours.
LEMMA DeadlineIsHour ==
    ASSUME NEW day \in Nat, NEW t \in ReportType
    PROVE  ReportDeadline(day, t) \in Int
<1>1. DeadlineHour[t] \in {1, 2, 12}
  BY DEF DeadlineHour, ReportType
<1> QED
  BY <1>1 DEF ReportDeadline, BerlinOffset
-----------------------------------------------------------------------------
(* Time without evidence *)

\* Two cutoffs that count the same deliveries have the same latest batches.
LEMMA SameCountedSameLatest ==
    ASSUME NEW i, NEW j, NEW t, NEW day, CountedOf(i, t) = CountedOf(j, t)
    PROVE  HasValidBatch(i, day, t) <=> HasValidBatch(j, day, t)
BY LatestOfCounted DEF HasValidBatch

LEMMA NothingReceived ==
    ASSUME SoundInv, NEW t \in ReportType, NEW i \in Instant, NEW j \in Instant,
           i <= j,
           \A d \in Committed :
              ~(Report[d].report = t /\ i < received[d] /\ received[d] <= j)
    PROVE  CountedOf(i, t) = CountedOf(j, t)
<1>1. Instant \subseteq Nat
  BY DeliveryAssumption
<1>2. \A d \in Committed : received[d] \in Nat
  BY <1>1 DEF SoundInv, BatchesAreSound, Committed
<1> QED
  BY <1>1, <1>2 DEF CountedOf, Counted

\* Then each day stays as it is, or goes from pending to overdue.
LEMMA DayOnlyWorsens ==
    ASSUME NEW t \in ReportType, NEW day \in Nat, NEW i \in Nat, NEW j \in Nat,
           i <= j, CountedOf(i, t) = CountedOf(j, t)
    PROVE  LET r == ReportOn(i, day, t).state
               q == ReportOn(j, day, t).state
           IN  q = r \/ (r = "PENDING" /\ q = "INCOMPLETE")
<1>1. ReportDeadline(day, t) \in Int
  BY DeadlineIsHour
<1>2. HasValidBatch(i, day, t) <=> HasValidBatch(j, day, t)
  BY SameCountedSameLatest
<1> QED
  BY <1>1, <1>2, ReportIsDecided DEF UnresolvedState

\* load_completeness at two cutoffs, for any deliveries and clock changes: if no
\* delivery of a report was received in between, the report is as before or was
\* pending and has become overdue.
THEOREM OnlyWorsens == Spec => []TimeAloneOnlyWorsens
<1>1. SoundInv => TimeAloneOnlyWorsens
  <2> SUFFICES ASSUME SoundInv, NEW t \in ReportType,
                      NEW i \in Instant, NEW j \in Instant,
                      ExpectedDays # {}, i < j,
                      \A d \in Committed :
                         ~(Report[d].report = t /\ i < received[d]
                             /\ received[d] <= j)
               PROVE  LET r == WorstReport(i, t).state
                          q == WorstReport(j, t).state
                      IN  q = r \/ (r = "PENDING" /\ q = "INCOMPLETE")
    BY DEF TimeAloneOnlyWorsens
  <2>1. i \in Nat /\ j \in Nat /\ i <= j /\ ExpectedDays \subseteq Nat
    BY ExpectedAreDays, DeliveryAssumption
  <2>2. CountedOf(i, t) = CountedOf(j, t)
    BY <2>1, NothingReceived
  <2>3. \A day \in ExpectedDays :
          LET r == ReportOn(i, day, t).state
              q == ReportOn(j, day, t).state
          IN  q = r \/ (r = "PENDING" /\ q = "INCOMPLETE")
    BY <2>1, <2>2, DayOnlyWorsens
  <2>4. /\ \E day \in ExpectedDays : WorstReport(i, t) = ReportOn(i, day, t)
        /\ \A day \in ExpectedDays :
             Severity[WorstReport(i, t).state] >= Severity[ReportOn(i, day, t).state]
    BY <2>1, WorstIsAReport
  <2>5. /\ \E day \in ExpectedDays : WorstReport(j, t) = ReportOn(j, day, t)
        /\ \A day \in ExpectedDays :
             Severity[WorstReport(j, t).state] >= Severity[ReportOn(j, day, t).state]
    BY <2>1, WorstIsAReport
  <2>6. PICK di \in ExpectedDays : WorstReport(i, t) = ReportOn(i, di, t)
    BY <2>4
  <2>7. PICK dj \in ExpectedDays : WorstReport(j, t) = ReportOn(j, dj, t)
    BY <2>5
  <2> DEFINE a == ReportOn(i, di, t).state   b == ReportOn(i, dj, t).state
             c == ReportOn(j, di, t).state   e == ReportOn(j, dj, t).state
  <2>8. a \in State /\ b \in State /\ c \in State /\ e \in State
    BY <2>1, <2>6, <2>7, ReportIsJudged
  <2>9. Severity[a] >= Severity[b] /\ Severity[e] >= Severity[c]
    BY <2>4, <2>5, <2>6, <2>7
  <2>10. /\ c = a \/ (a = "PENDING" /\ c = "INCOMPLETE")
         /\ e = b \/ (b = "PENDING" /\ e = "INCOMPLETE")
    BY <2>3, <2>6, <2>7
  <2>11. e = a \/ (a = "PENDING" /\ e = "INCOMPLETE")
    <3> HIDE DEF a, b, c, e
    <3> QED
      BY <2>8, <2>9, <2>10 DEF Severity, State
  <2> QED
    BY <2>6, <2>7, <2>11
<1> QED
  BY <1>1, SoundInvariant, PTL
-----------------------------------------------------------------------------
(* Files and ledger *)

Predated == "MANIFEST_GENERATED_AFTER_RECEIPT"

\* evaluate_report on the files of a delivery that reached the ledger.
LEMMA EvaluatedByFiles ==
    ASSUME SoundInv, NEW d \in Delivery, status[d] # "NONE",
           NEW i \in Instant, i >= received[d]
    PROVE  LET r == Report[d]
               byFiles == EvaluateReport(r.report, r.day, i, EvidenceOf(d))
           IN  \E issues :
                 /\ byFiles =
                      [day |-> r.day, issues |-> issues,
                       state |-> IF issues = {} THEN "COMPLETE"
                                 ELSE UnresolvedState(i, ReportDeadline(r.day, r.report))]
                 /\ r.mode = "VALID" =>
                      issues = IF IsPredated(d) THEN {Predated} ELSE {}
                 /\ r.mode # "VALID" => ~(issues \subseteq {Predated})
<1> DEFINE t == Report[d].report
           day == Report[d].day
           mode == Report[d].mode
           at == received[d]
           made == GeneratedAt(d)
<1>1. t \in ReportType /\ day \in Nat /\ d \in Nat
  BY DeliveryAssumption
<1>2. /\ at \in Nat /\ i \in Nat /\ ~(at > i) /\ made \in Nat
      /\ mode \in {"VALID", "ROW_COUNT_MISMATCH", "CHECKSUM_MISMATCH"}
  <2>1. at \in Instant /\ mode \in {"VALID", "ROW_COUNT_MISMATCH", "CHECKSUM_MISMATCH"}
    BY DEF SoundInv, BatchesAreSound
  <2>2. at \in Nat /\ i \in Nat
    BY <2>1, DeliveryAssumption
  <2>3. made \in Nat
    BY <2>2, DeliveryAssumption DEF GeneratedAt
  <2> QED
    BY <2>1, <2>2, <2>3
<1>3. ReportSource[t] \in SourceSystem
  BY <1>1 DEF ReportSource, SourceSystem
<1> DEFINE f == [batch |-> d, source |-> ReportSource[t], report |-> t,
                 day |-> day, received |-> at, rows |-> 1,
                 sha |-> "of the data"]
           m == [batch |-> d, source |-> ReportSource[t], report |-> t,
                 day |-> day, received |-> at, generated |-> made,
                 valid |-> mode # "INVALID_MANIFEST",
                 rows |-> IF mode = "ROW_COUNT_MISMATCH" THEN 2 ELSE 1,
                 sha |-> IF mode = "CHECKSUM_MISMATCH" THEN "of other data"
                         ELSE "of the data"]
<1>4. EvidenceOf(d) = [data |-> f, manifest |-> m]
  BY <1>2 DEF EvidenceOf, BuildReportEvidence
<1>5. IsPredated(d) <=> made > at
  BY DEF IsPredated
<1> HIDE DEF t, day, mode, at, made
<1>6. f \in DataFileEvidence /\ m \in ManifestEvidence
  BY <1>1, <1>2, <1>3 DEF DataFileEvidence, ManifestEvidence, Digest
<1>7. f # Absent /\ m # Absent
  BY <1>6, AbsentAssumption
<1>8. VisibleAt(f, i) = f /\ VisibleAt(m, i) = m
  BY <1>2, <1>7 DEF VisibleAt
<1> DEFINE issues == CollectIssues(t, day, f, m)
<1>9. EvaluateReport(t, day, i, EvidenceOf(d)) =
        [day |-> day, issues |-> issues,
         state |-> IF issues = {} THEN "COMPLETE"
                   ELSE UnresolvedState(i, ReportDeadline(day, t))]
  <2> HIDE DEF f, m
  <2>1. EvidenceOf(d).data = f /\ EvidenceOf(d).manifest = m
    BY <1>4
  <2>2. VisibleAt(EvidenceOf(d).data, i) = f /\ VisibleAt(EvidenceOf(d).manifest, i) = m
    BY <1>8, <2>1
  <2> QED
    BY <2>2 DEF EvaluateReport
<1>10. m.valid
  BY <1>2
<1>11. ManifestIssues(t, day, m) = IF IsPredated(d) THEN {Predated} ELSE {}
  BY <1>2, <1>5 DEF ManifestIssues, IdentityIssues, Issue, Predated
<1>12. IdentityIssues(t, day, f, "DATA_SOURCE_MISMATCH",
                      "DATA_REPORT_TYPE_MISMATCH",
                      "DATA_BUSINESS_DATE_MISMATCH") = {}
  BY DEF IdentityIssues, Issue
<1>13. issues = ManifestIssues(t, day, m) \cup DataIssues(t, day, f, m)
  BY <1>7, <1>10 DEF CollectIssues, Issue
<1>14. mode = "VALID" => issues = IF IsPredated(d) THEN {Predated} ELSE {}
  <2>1. mode = "VALID" => DataIssues(t, day, f, m) = {}
    BY <1>12 DEF DataIssues, Issue
  <2> HIDE DEF issues, f, m
  <2> QED
    BY <1>11, <1>13, <2>1
<1>15. mode # "VALID" => ~(issues \subseteq {Predated})
  <2>1. CASE mode = "ROW_COUNT_MISMATCH"
    <3>1. m.rows # f.rows
      BY <2>1
    <3>2. "ROW_COUNT_MISMATCH" \in DataIssues(t, day, f, m)
      BY <3>1 DEF DataIssues, Issue
    <3> HIDE DEF issues, f, m
    <3> QED
      BY <1>13, <3>2 DEF Predated
  <2>2. CASE mode = "CHECKSUM_MISMATCH"
    <3>1. m.sha # f.sha
      BY <2>2
    <3>2. "CHECKSUM_MISMATCH" \in DataIssues(t, day, f, m)
      BY <3>1 DEF DataIssues, Issue
    <3> HIDE DEF issues, f, m
    <3> QED
      BY <1>13, <3>2 DEF Predated
  <2> QED
    BY <1>2, <2>1, <2>2
<1> HIDE DEF issues
<1> QED
  BY <1>9, <1>14, <1>15 DEF t, day, mode

\* One batch decides a report.
LEMMA LatestIsUnique ==
    ASSUME SoundInv, NEW i, NEW day, NEW t,
           NEW d \in LatestBatch(i, day, t), NEW e \in LatestBatch(i, day, t)
    PROVE  d = e
<1>1. /\ d \in Delivery /\ status[d] # "NONE"
      /\ e \in Delivery /\ status[e] # "NONE"
  BY DEF LatestBatch, Counted, Committed
<1>2. /\ received[d] \in Nat /\ received[e] \in Nat /\ d \in Nat /\ e \in Nat
  BY <1>1, DeliveryAssumption DEF SoundInv, BatchesAreSound
<1>3. ~IsLater(d, e) /\ ~IsLater(e, d)
  BY DEF LatestBatch
<1> QED
  BY <1>2, <1>3 DEF IsLater

\* evaluate_report on the files and load_completeness on the ledger, for any
\* deliveries, generation times, cutoffs and damage: a delivery commits exactly
\* when its files have no issue but a predated manifest, and the batch that
\* decides a report gets the same result from both, unless its manifest is
\* predated, which only the files show, or it is quarantined or damaged, which
\* only the ledger shows.
THEOREM EvaluatorsCorrect == Spec => []EvaluatorsAgree
<1>1. SoundInv => EvaluatorsAgree
  <2> SUFFICES ASSUME SoundInv, NEW d \in Delivery, NEW i \in Instant,
                      status[d] # "NONE", i >= received[d]
               PROVE  LET r == Report[d]
                          byFiles == EvaluateReport(r.report, r.day, i, EvidenceOf(d))
                          byLedger == ReportOn(i, r.day, r.report)
                          unresolved ==
                            UnresolvedState(i, ReportDeadline(r.day, r.report))
                          isCommitted == status[d] = "COMMITTED"
                          isDecisive == d \in LatestBatch(i, r.day, r.report)
                      IN  /\ isCommitted <=> byFiles.issues \subseteq {Predated}
                          /\ byFiles.state = IF isCommitted /\ ~IsPredated(d)
                                             THEN "COMPLETE" ELSE unresolved
                          /\ isDecisive => byLedger.state =
                               IF HasProblem(d) THEN unresolved ELSE "COMPLETE"
                          /\ isDecisive /\ ~HasProblem(d) /\ ~IsPredated(d) =>
                               byLedger = byFiles
                          /\ (\A e \in Counted(i) : Report[e].day # r.day
                                                     \/ Report[e].report # r.report)
                               => byLedger.state = byFiles.state
    BY DEF EvaluatorsAgree, Predated
  <2> DEFINE t == Report[d].report
             day == Report[d].day
             unresolved == UnresolvedState(i, ReportDeadline(day, t))
             byFiles == EvaluateReport(t, day, i, EvidenceOf(d))
             byLedger == ReportOn(i, day, t)
             isCommitted == status[d] = "COMMITTED"
             isDecisive == d \in LatestBatch(i, day, t)
  <2>1. t \in ReportType /\ unresolved # "COMPLETE"
    BY DeliveryAssumption DEF UnresolvedState
  <2>2. isCommitted <=> Report[d].mode = "VALID"
    BY DEF SoundInv, BatchesAreSound
  <2>3. PICK issues :
          /\ byFiles = [day |-> day, issues |-> issues,
                        state |-> IF issues = {} THEN "COMPLETE" ELSE unresolved]
          /\ Report[d].mode = "VALID" =>
               issues = IF IsPredated(d) THEN {Predated} ELSE {}
          /\ Report[d].mode # "VALID" => ~(issues \subseteq {Predated})
    BY EvaluatedByFiles
  <2>4. /\ isCommitted <=> byFiles.issues \subseteq {Predated}
        /\ byFiles.state = IF isCommitted /\ ~IsPredated(d)
                           THEN "COMPLETE" ELSE unresolved
        /\ isCommitted /\ ~IsPredated(d) =>
             byFiles = [day |-> day, issues |-> {}, state |-> "COMPLETE"]
    <3> HIDE DEF byFiles, unresolved, day, isCommitted
    <3> QED
      BY <2>2, <2>3
  <2>5. ASSUME isDecisive
        PROVE  /\ byLedger.state = IF HasProblem(d) THEN unresolved ELSE "COMPLETE"
               /\ ~HasProblem(d) =>
                    byLedger = [day |-> day, issues |-> {}, state |-> "COMPLETE"]
    <3>1. LatestBatch(i, day, t) = {d}
      BY <2>5, LatestIsUnique
    <3>2. CASE HasProblem(d)
      BY <3>1, <3>2 DEF ReportOn
    <3>3. CASE ~HasProblem(d)
      BY <3>1, <3>3 DEF ReportOn
    <3> QED
      BY <3>2, <3>3
  <2>6. isDecisive => isCommitted
    BY DEF LatestBatch, Counted, Committed
  <2>7. ASSUME \A e \in Counted(i) : Report[e].day # day \/ Report[e].report # t
        PROVE  byLedger.state = byFiles.state
    <3>1. received[d] <= i
      BY DeliveryAssumption DEF SoundInv, BatchesAreSound
    <3>2. ~isCommitted
      BY <2>7, <3>1 DEF Counted, Committed
    <3>3. ~HasValidBatch(i, day, t)
      BY <2>7 DEF HasValidBatch, LatestBatch
    <3>4. byLedger.state = unresolved
      BY <2>1, <3>3, ReportIsDecided
    <3> QED
      BY <2>4, <3>2, <3>4
  <2> HIDE DEF byFiles, byLedger, unresolved, isCommitted, isDecisive, day, t
  <2>8. /\ isCommitted <=> byFiles.issues \subseteq {Predated}
        /\ byFiles.state = IF isCommitted /\ ~IsPredated(d)
                           THEN "COMPLETE" ELSE unresolved
        /\ isDecisive => byLedger.state =
                           IF HasProblem(d) THEN unresolved ELSE "COMPLETE"
        /\ isDecisive /\ ~HasProblem(d) /\ ~IsPredated(d) => byLedger = byFiles
        /\ (\A e \in Counted(i) : Report[e].day # day \/ Report[e].report # t)
             => byLedger.state = byFiles.state
    BY <2>4, <2>5, <2>6, <2>7
  <2> QED
    BY <2>8 DEF byFiles, byLedger, unresolved, isCommitted, isDecisive, day, t
<1> QED
  BY <1>1, SoundInvariant, PTL
-----------------------------------------------------------------------------
(* The published completeness *)

\* Nothing that load_completeness reads is waiting for a rebuild.
IsSettled ==
    /\ published # Nothing /\ damaged = {}
    /\ \A d \in Committed : request[d] # "PENDING"
    /\ ExpectedDays = {Report[d].day : d \in Committed}

\* Then what is published is what the ledger says of its as_of_utc: a delivery
\* that commits after a rebuild has a request of its own until the next one.
PublishedWasComputed ==
    /\ published # Nothing => published.asOf <= now
    /\ IsSettled => published.result = LoadCompleteness(published.asOf)

\* Only a rebuild settles anything.
LEMMA SettledBefore ==
    ASSUME SoundInv, [Next]_vars, \A x \in Delivery : ~Rebuild(x), IsSettled'
    PROVE  /\ IsSettled /\ published' = published
           /\ ExpectedDays' = ExpectedDays
           /\ Committed' = Committed /\ damaged' = damaged
<1> DEFINE Same == /\ IsSettled /\ published' = published
                   /\ ExpectedDays' = ExpectedDays
                   /\ Committed' = Committed /\ damaged' = damaged
<1>1. /\ status \in [Delivery -> {"NONE", "COMMITTED", "FAILED"}]
      /\ request \in [Delivery -> {"NONE", "PENDING", "SUCCEEDED"}]
  BY DEF SoundInv, DueInv, StoredTypeOK
<1>2. ASSUME NEW x \in Delivery, RecordDefective(x)
      PROVE  Same
  <2>1. /\ status[x] = "NONE" /\ status' = [status EXCEPT ![x] = "FAILED"]
        /\ UNCHANGED <<damaged, request, published>>
    BY <1>2 DEF RecordDefective
  <2>2. Committed' = Committed
    BY <1>1, <2>1 DEF Committed
  <2>3. ExpectedDays \subseteq ExpectedDays'
    BY <1>1, <2>1 DEF ExpectedDays
  <2>4. {Report[d].day : d \in Committed} \subseteq ExpectedDays
    BY <1>1 DEF Committed, ExpectedDays
  <2>5. ExpectedDays' = {Report[d].day : d \in Committed}
    BY <2>2 DEF IsSettled
  <2>6. ExpectedDays' = ExpectedDays
    BY <2>3, <2>4, <2>5
  <2> QED
    BY <2>1, <2>2, <2>5, <2>6 DEF IsSettled, Nothing
<1>3. ASSUME NEW x \in Delivery, NEW asOf \in Instant, IngestDelivery(x, asOf)
      PROVE  FALSE
  <2>1. x \in Committed' /\ request'[x] = "PENDING"
    BY <1>1, <1>3 DEF IngestDelivery, ScheduledRequest, Committed
  <2> QED
    BY <2>1 DEF IsSettled
<1>4. ASSUME NEW x \in Delivery, DamageEvidence(x)
      PROVE  FALSE
  BY <1>4 DEF DamageEvidence, IsSettled
<1>5. CASE Tick \/ UNCHANGED vars
  BY <1>5 DEF Tick, vars, IsSettled, Committed, ExpectedDays, Nothing
<1> QED
  BY <1>2, <1>3, <1>4, <1>5 DEF Next

\* Other steps than a rebuild leave the published run.
LEMMA OthersPublishNothing ==
    ASSUME [Next]_vars, \A x \in Delivery : ~Rebuild(x)
    PROVE  published' = published
BY DEF Next, RecordDefective, DamageEvidence, IngestDelivery, Tick, vars

LEMMA NextKeepsComputed ==
    ASSUME SoundInv, SoundInv', PublishedWasComputed, [Next]_vars
    PROVE  PublishedWasComputed'
<1>1. /\ now \in Nat /\ now' \in Nat /\ StoredTypeOK
      /\ \A d \in Delivery : received[d] \in Instant => received[d] \in Nat
  BY DeliveryAssumption DEF SoundInv, DueInv, StoredTypeOK
<1>2. now <= now'
  <2>1. CASE Tick
    <3>1. now' \in {i \in Instant : i > now}
      BY <2>1, LeastInstant DEF Tick
    <3> QED
      BY <1>1, <3>1
  <2>2. CASE now' = now
    BY <1>1, <2>2
  <2>3. Tick \/ now' = now
    BY DEF Next, RecordDefective, DamageEvidence, IngestDelivery, Rebuild, vars
  <2> QED
    BY <2>1, <2>2, <2>3
<1>3. ASSUME NEW x \in Delivery, Rebuild(x)
      PROVE  PublishedWasComputed'
  <2>1. PICK i : i = received[x]
    OBVIOUS
  <2>2. i \in Nat /\ i <= now
    BY <1>1, <1>3, <2>1
    DEF SoundInv, DueInv, RequestsAreGrounded, BatchesAreSound, Rebuild
  <2>3. /\ published' = [asOf |-> i, result |-> LoadCompleteness(i)]
        /\ UNCHANGED <<now, status, received, damaged>>
    BY <1>3, <2>1 DEF Rebuild
  <2>4. ASSUME NEW t \in ReportType
        PROVE  WorstReport(i, t)' = WorstReport(i, t)
    BY <2>3, SameCountedSameReport
    DEF CountedOf, Counted, Committed, ExpectedDays
  <2>5. LoadCompleteness(i)' = LoadCompleteness(i)
    BY <2>4 DEF LoadCompleteness
  <2>6. published'.asOf = i /\ published'.result = LoadCompleteness(i)
    BY <2>3
  <2>7. LoadCompleteness(published.asOf)' = LoadCompleteness(i)'
    BY <2>6 DEF LoadCompleteness, WorstReport, ReportOn, LatestBatch, Counted,
       EvaluateReport
  <2> QED
    BY <2>2, <2>3, <2>5, <2>6, <2>7 DEF PublishedWasComputed
<1>4. ASSUME \A x \in Delivery : ~Rebuild(x)
      PROVE  PublishedWasComputed'
  <2>1. published' = published
    BY <1>4, OthersPublishNothing
  <2>2. published' # Nothing => published'.asOf <= now'
    <3> SUFFICES ASSUME published # Nothing
                 PROVE  published.asOf <= now'
      BY <2>1
    <3>1. published.asOf \in Nat /\ published.asOf <= now
      BY <1>1, DeliveryAssumption DEF StoredTypeOK, PublishedWasComputed
    <3> QED
      BY <1>1, <1>2, <3>1
  <2>3. ASSUME IsSettled'
        PROVE  published'.result = LoadCompleteness(published.asOf)'
    <3>1. /\ IsSettled /\ ExpectedDays' = ExpectedDays
          /\ Committed' = Committed /\ damaged' = damaged
      BY <1>4, <2>3, SettledBefore
    <3>2. PICK i : i = published.asOf
      OBVIOUS
    <3>3. ASSUME NEW t \in ReportType
          PROVE  WorstReport(i, t)' = WorstReport(i, t)
      <4>1. ChangedAt(i, t) = {}
        BY <3>1 DEF ChangedAt
      <4> QED
        BY <1>1, <3>1, <4>1, UnchangedCounted, SameCountedSameReport
    <3>4. LoadCompleteness(i)' = LoadCompleteness(i)
      BY <3>3 DEF LoadCompleteness
    <3>5. published.result = LoadCompleteness(i)
      BY <3>1, <3>2 DEF PublishedWasComputed
    <3>6. LoadCompleteness(published.asOf)' = LoadCompleteness(i)'
      BY <2>1, <3>2 DEF LoadCompleteness, WorstReport, ReportOn, LatestBatch,
         Counted, EvaluateReport
    <3> QED
      BY <2>1, <3>4, <3>5, <3>6
  <2> QED
    BY <2>2, <2>3 DEF PublishedWasComputed, Nothing
<1> QED
  BY <1>3, <1>4

\* Two cutoffs on the same side of the deadline that count the same deliveries
\* have the same report.
LEMMA SameSideSameReport ==
    ASSUME NEW i, NEW j, NEW t \in ReportType, NEW day,
           CountedOf(i, t) = CountedOf(j, t),
           i < ReportDeadline(day, t) <=> j < ReportDeadline(day, t)
    PROVE  ReportOn(i, day, t) = ReportOn(j, day, t)
<1>1. LatestBatch(i, day, t) = LatestBatch(j, day, t)
  BY LatestOfCounted
<1>2. UnresolvedState(i, ReportDeadline(day, t)) =
        UnresolvedState(j, ReportDeadline(day, t))
  BY DEF UnresolvedState
<1>3. EvaluateReport(t, day, i, NoEvidence) = EvaluateReport(t, day, j, NoEvidence)
  BY <1>2 DEF EvaluateReport, NoEvidence, VisibleAt
<1> QED
  BY <1>1, <1>2, <1>3 DEF ReportOn

LEMMA ComputedIsCurrent ==
    ASSUME SoundInv, PublishedWasComputed
    PROVE  PublishedIsCurrent
<1> SUFFICES ASSUME IsSettled,
                    \A d \in Committed : received[d] <= published.asOf,
                    ~DeadlinePassed(published.asOf, now)
             PROVE  published.result = LoadCompleteness(now)
  BY DEF PublishedIsCurrent, IsSettled
<1> DEFINE i == published.asOf
<1>1. /\ i \in Instant /\ now \in Instant /\ i \in Nat /\ now \in Nat /\ i <= now
      /\ published.result = LoadCompleteness(i)
  BY DeliveryAssumption
  DEF SoundInv, DueInv, StoredTypeOK, IsSettled, PublishedWasComputed
<1>2. \A d \in Committed : received[d] \in Nat /\ received[d] <= i
  BY DeliveryAssumption DEF SoundInv, BatchesAreSound, Committed
<1>3. ~DeadlinePassed(i, now)
  OBVIOUS
<1> HIDE DEF i
<1>4. ASSUME NEW t \in ReportType
      PROVE  WorstReport(i, t) = WorstReport(now, t)
  <2>1. CountedOf(i, t) = CountedOf(now, t)
    BY <1>1, <1>2 DEF CountedOf, Counted
  <2>2. ASSUME NEW day \in ExpectedDays
        PROVE  ReportOn(i, day, t) = ReportOn(now, day, t)
    <3>1. ReportDeadline(day, t) \in Int
      BY ExpectedAreDays, DeadlineIsHour
    <3>2. i < ReportDeadline(day, t) <=> now < ReportDeadline(day, t)
      BY <1>1, <1>3, <3>1 DEF DeadlinePassed
    <3> QED
      BY <2>1, <3>2, SameSideSameReport
  <2>3. {ReportOn(i, day, t) : day \in ExpectedDays} =
          {ReportOn(now, day, t) : day \in ExpectedDays}
    BY <2>2
  <2> QED
    BY <2>3, WorstIsWorstOf
<1> QED
  BY <1>1, <1>4 DEF LoadCompleteness

\* ingest_source_file, run_next_full_recovery and load_completeness, for any
\* deliveries and any order of rebuilds: when every request has been rebuilt,
\* the published completeness is what load_completeness would compute now,
\* but for the named events that schedule no rebuild.
THEOREM PublishedCurrent == Spec => []PublishedIsCurrent
<1>1. Init => PublishedWasComputed
  BY DEF Init, PublishedWasComputed, IsSettled
<1>2. SoundInv /\ SoundInv' /\ PublishedWasComputed /\ [Next]_vars
        => PublishedWasComputed'
  BY NextKeepsComputed
<1>3. SoundInv /\ PublishedWasComputed => PublishedIsCurrent
  BY ComputedIsCurrent
<1> QED
  BY <1>1, <1>2, <1>3, SoundInvariant, PTL DEF Spec
=============================================================================
