---------------------- MODULE IncrementalReplayProofs -----------------------
(***************************************************************************)
(* Recovery planning and reconciliation for every set of canonical         *)
(* records, every change and every order of the planner's worklist:        *)
(* expand returns the least closed set of keys around the changed records; *)
(* that set separates the change from everything the plan leaves out       *)
(* (Separates), so that the plan covers the change; its windows have       *)
(* exactly its days; late_data.py agrees with the plan and fails closed;   *)
(* and what reconcile computes is publishable, reconciles nothing falsely  *)
(* and loses no money.  Loops and sums are folds over finite sets; what    *)
(* they return is proved from the definitions of MapThenFoldSet and        *)
(* MapThenSumSet by minimal counterexample among the subsets of the set.   *)
(***************************************************************************)
EXTENDS IncrementalReplay, FiniteSetTheorems, TLAPS

\* The worklist invariant: what is known, visited or pending, of a closed set.
Covered == visited \cup pending

SeedsAreCovered == Seeds \subseteq Covered

LinksAreCovered == \A k \in visited : Neighbors(Graph, k) \subseteq Covered

DaysAreVisited ==
    /\ \A d \in visitedDays : \E k \in visited : d \in Days(Graph, k)
    /\ \A k \in visited : Days(Graph, k) \subseteq visitedDays

DaysAreCovered == \A d \in visitedDays : KeysOn(Graph, d) \subseteq Covered

NothingElseIsCovered ==
    \A S \in SUBSET Key : Seeds \subseteq S /\ IsClosed(S) => Covered \subseteq S

UnknownIsReported == ~reasons => visited \subseteq Known(Graph)

WorklistInv ==
    /\ SeedsAreCovered
    /\ LinksAreCovered
    /\ DaysAreVisited
    /\ DaysAreCovered
    /\ NothingElseIsCovered
    /\ UnknownIsReported

NothingPlanned ==
    changed = {} /\ pending = {} /\ visited = {} /\ visitedDays = {} /\ ~reasons

IsPlanned == phase = "planned" /\ changed # {} /\ scope # "NONE"

PlanInv ==
    /\ PlanTypeOK
    /\ phase = "idle" => NothingPlanned
    /\ phase = "expand" => WorklistInv
    /\ phase = "planned" => pending = {}
    /\ IsPlanned => WorklistInv /\ (scope = "WINDOWS" => ~reasons)
-----------------------------------------------------------------------------
\* What contracts.py guarantees of a parsed record: its keys and days.
LEMMA RecordTypes ==
    ASSUME NEW r \in Record
    PROVE  /\ r.id \in Key
           /\ Parents(r) \subseteq Key
           /\ IsDated(r) => r.day \in Nat
  <1>1. r \in AnyRecord
    BY RecordAssumption
  <1>2. CASE r \in OrderRecord
    BY <1>2, RecordAssumption DEF OrderRecord, Key, Parents, IsDated
  <1>3. CASE r \in PaymentRecord
    BY <1>3, RecordAssumption
    DEF PaymentRecord, Key, Parents, IsDated, Day, NoDay
  <1>4. CASE r \in RefundRecord
    BY <1>4, RecordAssumption
    DEF RefundRecord, Key, Parents, IsDated, Day, NoDay
  <1>5. CASE r \in FeeRecord
    BY <1>5, RecordAssumption DEF FeeRecord, Key, Parents, IsDated
  <1>6. CASE r \in SettlementLineRecord
    BY <1>6, RecordAssumption DEF SettlementLineRecord, Key, Parents, IsDated
  <1>7. CASE r \in PayoutRecord
    BY <1>7, RecordAssumption
    DEF PayoutRecord, Key, Parents, IsDated, Day, NoDay
  <1> QED
    BY <1>1, <1>2, <1>3, <1>4, <1>5, <1>6, <1>7 DEF AnyRecord

\* The impact graph only leads to keys and days.
LEMMA GraphTypes ==
    ASSUME NEW G \in SUBSET Record
    PROVE  /\ Known(G) \subseteq Key
           /\ \A k : Neighbors(G, k) \subseteq Key
           /\ \A k : Days(G, k) \subseteq Day
           /\ \A d : KeysOn(G, d) \subseteq Key
           /\ \A k, D : Reached(G, k, D) \subseteq Key
  <1>1. \A r \in G : /\ r.id \in Key
                     /\ Parents(r) \subseteq Key
                     /\ IsDated(r) => r.day \in Nat
    BY RecordTypes
  <1>2. \A k : Neighbors(G, k) \subseteq Key
    BY <1>1 DEF Neighbors
  <1>3. \A k : Days(G, k) \subseteq Day
    BY <1>1 DEF Days, Day
  <1>4. \A d : KeysOn(G, d) \subseteq Key
    BY <1>1 DEF KeysOn
  <1>5. \A k, D : Reached(G, k, D) \subseteq Key
    BY <1>2, <1>4 DEF Reached
  <1> QED
    BY <1>1, <1>2, <1>3, <1>4, <1>5 DEF Known

\* One visit of expand preserves the worklist invariant.
LEMMA VisitPreserves ==
    ASSUME PlanTypeOK, WorklistInv, NEW k \in pending, Visit(k)
    PROVE  WorklistInv'
  <1> DEFINE G == Graph
  <1>1. Graph' = G /\ Seeds' = Seeds
    BY DEF Visit, Graph, Seeds
  <1>2. G \in SUBSET Record
    BY DEF PlanTypeOK, Graph
  <1>3. \A S : IsClosed(S)' <=> IsClosed(S)
    BY <1>1 DEF IsClosed
  <1>4. /\ visited' = visited \cup {k}
        /\ visitedDays' = visitedDays \cup Days(G, k)
        /\ pending' = (pending \ {k}) \cup
             (IF k \in visited THEN {} ELSE Reached(G, k, visitedDays))
    BY DEF Visit
  <1>5. Covered \subseteq Covered'
    BY <1>4 DEF Covered
  <1>6. k \notin visited => Reached(G, k, visitedDays) \subseteq Covered'
    BY <1>4 DEF Covered
  <1>7. SeedsAreCovered'
    BY <1>1, <1>5 DEF WorklistInv, SeedsAreCovered
  <1>8. LinksAreCovered'
    BY <1>1, <1>4, <1>5, <1>6 DEF WorklistInv, LinksAreCovered, Reached
  <1>9. DaysAreVisited'
    BY <1>1, <1>4 DEF WorklistInv, DaysAreVisited
  <1>10. DaysAreCovered'
    <2> SUFFICES ASSUME NEW d \in visitedDays' PROVE KeysOn(G, d) \subseteq Covered'
      BY <1>1 DEF DaysAreCovered
    <2>1. CASE d \in visitedDays
      BY <2>1, <1>5 DEF WorklistInv, DaysAreCovered
    <2>2. CASE d \notin visitedDays
      <3>1. d \in Days(G, k) /\ k \notin visited
        BY <2>2, <1>4 DEF WorklistInv, DaysAreVisited
      <3>2. KeysOn(G, d) \subseteq Reached(G, k, visitedDays)
        BY <3>1, <2>2 DEF Reached
      <3> QED BY <3>1, <3>2, <1>6
    <2> QED BY <2>1, <2>2
  <1>11. NothingElseIsCovered'
    <2> SUFFICES ASSUME NEW S \in SUBSET Key, Seeds \subseteq S, IsClosed(S)
                 PROVE  Covered' \subseteq S
      BY <1>1, <1>3 DEF NothingElseIsCovered
    <2>1. Covered \subseteq S
      BY DEF WorklistInv, NothingElseIsCovered
    <2>2. k \in S
      BY <2>1 DEF Covered
    <2>3. Reached(G, k, visitedDays) \subseteq S
      BY <2>2 DEF IsClosed, Reached
    <2> QED BY <2>1, <2>2, <2>3, <1>4 DEF Covered
  <1>12. UnknownIsReported'
    BY <1>1 DEF Visit, WorklistInv, UnknownIsReported
  <1> QED
    BY <1>7, <1>8, <1>9, <1>10, <1>11, <1>12 DEF WorklistInv

\* A change puts exactly its keys on the worklist.
LEMMA BeginEstablishes ==
    ASSUME PlanTypeOK, NothingPlanned, NEW C \in SUBSET Record,
           changed' = C, BeginExpansion(C)
    PROVE  WorklistInv'
  <1>1. /\ pending' = {r.id : r \in C}
        /\ visited' = {} /\ visitedDays' = {} /\ ~reasons'
    BY DEF BeginExpansion, NothingPlanned
  <1>2. Seeds' = pending' /\ Covered' = pending'
    BY <1>1 DEF Seeds, Covered
  <1> QED
    BY <1>1, <1>2 DEF WorklistInv, SeedsAreCovered, LinksAreCovered,
        DaysAreVisited, DaysAreCovered, NothingElseIsCovered, UnknownIsReported
-----------------------------------------------------------------------------
LEMMA PlanInit == Init => PlanInv
  <1> SUFFICES ASSUME Init PROVE PlanInv
    OBVIOUS
  <1>1. reasons \in BOOLEAN /\ ~reasons
    BY Zenon DEF Init
  <1>2. ledger \subseteq Record
    BY PlanAssumption DEF Init
  <1> QED
    BY <1>1, <1>2 DEF Init, PlanInv, PlanTypeOK, NothingPlanned, IsPlanned

LEMMA PlanNext ==
    ASSUME PlanInv, [Next]_vars
    PROVE  PlanInv'
  <1> USE DEF PlanInv
  <1>1. CASE UNCHANGED vars
    BY <1>1 DEF vars, planVars, PlanTypeOK, NothingPlanned, IsPlanned,
        WorklistInv, SeedsAreCovered, LinksAreCovered, DaysAreVisited,
        DaysAreCovered, NothingElseIsCovered, UnknownIsReported, Covered,
        Seeds, Graph, IsClosed
  <1>2. ASSUME NEW r \in Record, CorrectRecord(r) \/ ConflictRecord(r)
        PROVE  PlanInv'
    <2> DEFINE C == CurrentOf(r.id) \cup {r}
    <2>1. /\ C \in SUBSET Record
          /\ changed' = C
          /\ BeginExpansion(C)
          /\ phase = "idle"
          /\ ledger' \subseteq Record
          /\ before' = before
          /\ changes' = changes + 1
      BY <1>2 DEF CorrectRecord, ConflictRecord, MayChange, CurrentOf, PlanTypeOK
    <2>2. \A q \in C : q.id \in Key
      BY <2>1, RecordTypes
    <2>3. PlanTypeOK'
      BY <2>1, <2>2 DEF PlanTypeOK, BeginExpansion
    <2>4. WorklistInv'
      BY <2>1, BeginEstablishes
    <2> QED
      BY <2>1, <2>3, <2>4 DEF BeginExpansion, IsPlanned
  <1>3. ASSUME NEW r \in Record, RepeatRecord(r)
        PROVE  PlanInv'
    BY <1>3 DEF RepeatRecord, MayChange, Return, PlanTypeOK, NothingPlanned,
        IsPlanned
  <1>4. ASSUME NEW r \in Record, ChangeWithoutEvidence(r)
        PROVE  PlanInv'
    BY <1>4 DEF ChangeWithoutEvidence, MayChange, Return, CurrentOf, PlanTypeOK,
        NothingPlanned, IsPlanned
  <1>5. CASE ChangeCompleteness
    BY <1>5 DEF ChangeCompleteness, MayChange, Return, PlanTypeOK,
        NothingPlanned, IsPlanned
  <1>6. ASSUME NEW k \in pending, Visit(k)
        PROVE  PlanInv'
    <2>1. phase = "expand" /\ phase' = "expand" /\ WorklistInv
      BY <1>6 DEF Visit
    <2>2. WorklistInv'
      BY <1>6, <2>1, VisitPreserves
    <2>3. Graph \in SUBSET Record
      BY DEF PlanTypeOK, Graph
    <2>4. Reached(Graph, k, visitedDays) \subseteq Key /\ Days(Graph, k) \subseteq Day
      BY <2>3, GraphTypes
    <2>5. reasons' \in BOOLEAN
      BY <1>6, Zenon DEF Visit
    <2>6. PlanTypeOK'
      BY <1>6, <2>4, <2>5 DEF Visit, PlanTypeOK
    <2> QED
      BY <2>1, <2>2, <2>6 DEF IsPlanned
  <1>7. CASE FinishPlan
    <2>1. /\ WorklistInv /\ pending' = {} /\ phase' = "planned"
          /\ scope' \in {"FULL", "WINDOWS"}
          /\ scope' = "WINDOWS" => ~reasons'
          /\ UNCHANGED <<ledger, before, changed, changes, pending, visited,
                         visitedDays, reasons>>
      BY <1>7 DEF FinishPlan
    <2>2. WorklistInv'
      BY <2>1 DEF WorklistInv, SeedsAreCovered, LinksAreCovered, DaysAreVisited,
        DaysAreCovered, NothingElseIsCovered, UnknownIsReported, Covered,
        Seeds, Graph, IsClosed
    <2> QED
      BY <2>1, <2>2 DEF PlanTypeOK, IsPlanned
  <1>8. CASE ApplyPlan
    BY <1>8 DEF ApplyPlan, PlanTypeOK, NothingPlanned, IsPlanned
  <1> QED
    BY <1>1, <1>2, <1>3, <1>4, <1>5, <1>6, <1>7, <1>8 DEF Next

\* The invariant the theorems rest on.
LEMMA PlanInvariant == Spec => []PlanInv
  <1>1. PlanInv /\ [Next]_vars => PlanInv'
    BY PlanNext
  <1> QED
    BY PlanInit, <1>1, PTL DEF Spec

\* The planner of plan_affected_windows keeps its types.
THEOREM PlanTypeCorrect == Spec => []PlanTypeOK
  <1>1. PlanInv => PlanTypeOK
    BY DEF PlanInv
  <1> QED
    BY PlanInvariant, <1>1, PTL

LEMMA ExpansionHolds ==
    ASSUME PlanInv, IsPlanned
    PROVE  /\ Seeds \subseteq visited
           /\ IsClosed(visited)
           /\ visitedDays = UNION {Days(Graph, k) : k \in visited}
           /\ \A S \in SUBSET Key :
                Seeds \subseteq S /\ IsClosed(S) => visited \subseteq S
           /\ scope = "WINDOWS" => visited \subseteq Known(Graph)
  <1>1. WorklistInv /\ Covered = visited /\ (scope = "WINDOWS" => ~reasons)
    BY DEF PlanInv, IsPlanned, Covered
  <1>2. IsClosed(visited)
    BY <1>1 DEF WorklistInv, LinksAreCovered, DaysAreVisited, DaysAreCovered,
      IsClosed
  <1>3. visitedDays = UNION {Days(Graph, k) : k \in visited}
    BY <1>1 DEF WorklistInv, DaysAreVisited
  <1> QED
    BY <1>1, <1>2, <1>3 DEF WorklistInv, SeedsAreCovered,
      NothingElseIsCovered, UnknownIsReported

\* expand returns the least closed set around the changed records, for any
\* records and any order in which its worklist is popped, and a plan limited
\* to windows rests on known records alone.
THEOREM ExpansionCorrect == Spec => []ExpansionIsLeast
  <1>1. PlanInv => ExpansionIsLeast
    BY ExpansionHolds DEF ExpansionIsLeast, IsPlanned
  <1> QED
    BY PlanInvariant, <1>1, PTL

\* Every iteration of expand makes progress towards an empty worklist, for
\* any records: it visits a new key or shortens the worklist.
THEOREM ExpansionProgress == Spec => ExpansionDescends
  <1> DEFINE Descends ==
        phase = "expand" /\ phase' = "expand" =>
          /\ visited \subseteq visited'
          /\ visited' = visited => pending' \subseteq pending /\ pending' # pending
  <1>1. ASSUME Next, phase = "expand", phase' = "expand"
        PROVE  Descends
    <2>1. PICK k \in pending : Visit(k)
      BY <1>1 DEF Next, MayChange, CorrectRecord, ConflictRecord, RepeatRecord,
        ChangeWithoutEvidence, ChangeCompleteness, FinishPlan, ApplyPlan
    <2>2. visited' = visited \cup {k}
      BY <2>1 DEF Visit
    <2>3. visited' = visited => pending' = pending \ {k}
      BY <2>1, <2>2 DEF Visit
    <2> QED
      BY <2>1, <2>2, <2>3
  <1>2. [Next]_vars => [Descends]_vars
    BY <1>1
  <1> QED
    BY <1>2, PTL DEF Spec, ExpansionDescends
-----------------------------------------------------------------------------
(* What a plan is about *)

\* The ledger differs from before in the changed versions only, and they are
\* versions of one entity.
DiffersInChanged == (before \ ledger) \cup (ledger \ before) \subseteq changed

ChangeInv ==
    /\ IsFiniteSet(ledger)
    /\ HasOneVersionEach(before) /\ HasOneVersionEach(ledger)
    /\ \A q, r \in changed : q.id = r.id
    /\ phase = "idle" => before = ledger
    /\ phase = "expand" => DiffersInChanged /\ changed # {}
    /\ phase = "planned" =>
          /\ changed # {} => DiffersInChanged
          /\ scope = "NONE" => before = ledger
          /\ scope = "WINDOWS" => changed # {}

LEMMA ChangeInit == Init => ChangeInv
  BY PlanAssumption DEF Init, ChangeInv

\* One change gives an entity at most one other version.
LEMMA ChangeKeepsVersions ==
    ASSUME HasOneVersionEach(ledger), IsFiniteSet(ledger), NEW r \in Record,
           CorrectRecord(r) \/ ConflictRecord(r) \/ ChangeWithoutEvidence(r)
    PROVE  /\ HasOneVersionEach(ledger') /\ IsFiniteSet(ledger')
           /\ (ledger \ ledger') \cup (ledger' \ ledger) \subseteq CurrentOf(r.id) \cup {r}
           /\ \A q \in CurrentOf(r.id) \cup {r} : q.id = r.id
  <1>1. IsFiniteSet(ledger \ CurrentOf(r.id))
    BY FS_Difference
  <1>2. IsFiniteSet((ledger \ CurrentOf(r.id)) \cup {r})
    BY <1>1, FS_AddElement
  <1>3. IsFiniteSet(ledger')
    BY <1>1, <1>2 DEF CorrectRecord, ConflictRecord, ChangeWithoutEvidence
  <1> QED
    BY <1>3 DEF HasOneVersionEach, CorrectRecord, ConflictRecord,
       ChangeWithoutEvidence, CurrentOf

LEMMA ChangeNext ==
    ASSUME PlanInv, ChangeInv, [Next]_vars
    PROVE  ChangeInv'
  <1> USE DEF ChangeInv
  <1>1. CASE UNCHANGED vars
    BY <1>1 DEF vars, planVars, DiffersInChanged
  <1>2. ASSUME NEW r \in Record, CorrectRecord(r) \/ ConflictRecord(r)
        PROVE  ChangeInv'
    <2>1. /\ phase = "idle" /\ phase' = "expand"
          /\ changed' = CurrentOf(r.id) \cup {r}
          /\ before' = before
      BY <1>2 DEF CorrectRecord, ConflictRecord, MayChange, BeginExpansion
    <2>2. /\ HasOneVersionEach(ledger') /\ IsFiniteSet(ledger')
          /\ (ledger \ ledger') \cup (ledger' \ ledger) \subseteq changed'
          /\ \A q \in changed' : q.id = r.id
      BY <1>2, <2>1, ChangeKeepsVersions
    <2> QED
      BY <2>1, <2>2 DEF DiffersInChanged
  <1>3. ASSUME NEW r \in Record, RepeatRecord(r)
        PROVE  ChangeInv'
    BY <1>3 DEF RepeatRecord, MayChange, Return, DiffersInChanged
  <1>4. ASSUME NEW r \in Record, ChangeWithoutEvidence(r)
        PROVE  ChangeInv'
    <2>1. HasOneVersionEach(ledger') /\ IsFiniteSet(ledger')
      BY <1>4, ChangeKeepsVersions
    <2> QED
      BY <1>4, <2>1 DEF ChangeWithoutEvidence, MayChange, Return
  <1>5. CASE ChangeCompleteness
    BY <1>5 DEF ChangeCompleteness, MayChange, Return, PlanInv, NothingPlanned
  <1>6. ASSUME NEW k \in pending, Visit(k)
        PROVE  ChangeInv'
    BY <1>6 DEF Visit, DiffersInChanged
  <1>7. CASE FinishPlan
    <2>1. scope' # "NONE"
      BY <1>7 DEF FinishPlan
    <2> QED
      BY <1>7, <2>1 DEF FinishPlan, DiffersInChanged
  <1>8. CASE ApplyPlan
    BY <1>8 DEF ApplyPlan
  <1> QED
    BY <1>1, <1>2, <1>3, <1>4, <1>5, <1>6, <1>7, <1>8 DEF Next

LEMMA ChangeInvariant == Spec => [](PlanInv /\ ChangeInv)
  <1>1. Init => PlanInv /\ ChangeInv
    BY PlanInit, ChangeInit
  <1>2. PlanInv /\ ChangeInv /\ [Next]_vars => PlanInv' /\ ChangeInv'
    BY PlanNext, ChangeNext
  <1> QED
    BY <1>1, <1>2, PTL DEF Spec
-----------------------------------------------------------------------------
(* Records by their entity type *)

\* The id of a record tells which contract it passed.
LEMMA RecordOfId ==
    ASSUME NEW r \in Record
    PROVE  /\ r.id \in Order => r \in OrderRecord
           /\ r.id \in Payment => r \in PaymentRecord
           /\ r.id \in Refund => r \in RefundRecord
           /\ r.id \in Fee => r \in FeeRecord
           /\ r.id \in SettlementLine => r \in SettlementLineRecord
           /\ r.id \in Payout => r \in PayoutRecord
  <1>1. r \in AnyRecord
    BY RecordAssumption
  <1>2. /\ r \in OrderRecord => r.id \in Order
        /\ r \in PaymentRecord => r.id \in Payment
        /\ r \in RefundRecord => r.id \in Refund
        /\ r \in FeeRecord => r.id \in Fee
        /\ r \in SettlementLineRecord => r.id \in SettlementLine
        /\ r \in PayoutRecord => r.id \in Payout
    BY DEF OrderRecord, PaymentRecord, RefundRecord, FeeRecord,
       SettlementLineRecord, PayoutRecord
  <1> QED
    BY <1>1, <1>2, RecordAssumption DEF AnyRecord

\* The keys each type of record names.
LEMMA ParentsOfType ==
    ASSUME NEW r
    PROVE  /\ r.id \in Payment => Parents(r) = {r.order}
           /\ r.id \in Refund \cup Fee => Parents(r) = {r.payment}
           /\ r.id \in SettlementLine => Parents(r) = {r.payout, r.movement}
  BY RecordAssumption DEF Parents

\* The fields that name other records, and the days, of each type.
LEMMA RecordFields ==
    ASSUME NEW r \in Record
    PROVE  /\ r.id \in Payment => r.order \in Order
           /\ r.id \in Payment /\ r.status = "CAPTURED" => r.day \in Day
           /\ r.id \in Refund \cup Fee => r.payment \in Payment
           /\ r.id \in Refund /\ r.status = "SUCCEEDED" => r.day \in Day
           /\ r.id \in SettlementLine => /\ r.payout \in Payout
                                         /\ r.movement \in Payment \cup Refund \cup Fee
           /\ r.id \in Payout => r.day \in Day
  <1>1. r.id \in Payment => r \in PaymentRecord
    BY RecordOfId
  <1>2. r.id \in Refund => r \in RefundRecord
    BY RecordOfId
  <1>3. r.id \in Fee => r \in FeeRecord
    BY RecordOfId
  <1>4. r.id \in SettlementLine => r \in SettlementLineRecord
    BY RecordOfId
  <1>5. r.id \in Payout => r \in PayoutRecord
    BY RecordOfId
  <1> QED
    BY <1>1, <1>2, <1>3, <1>4, <1>5
    DEF PaymentRecord, RefundRecord, FeeRecord, SettlementLineRecord, PayoutRecord
-----------------------------------------------------------------------------
(* The days of a plan *)

\* A plan holds a record if and only if it holds the keys the record names,
\* and its day if and only if it holds the dated records of that day.
LEMMA PlanFollows ==
    ASSUME PlanInv, IsPlanned, NEW r \in Graph
    PROVE  /\ \A k \in Parents(r) : r.id \in visited <=> k \in visited
           /\ IsDated(r) /\ r.day # NoDay =>
                (r.id \in visited <=> r.day \in visitedDays)
           /\ r \in changed => r.id \in visited
  <1>1. /\ Seeds \subseteq visited /\ IsClosed(visited)
        /\ visitedDays = UNION {Days(Graph, k) : k \in visited}
    BY ExpansionHolds
  <1>2. r \in Record
    BY DEF PlanInv, PlanTypeOK, Graph
  <1>3. Parents(r) \subseteq Key
    BY <1>2, RecordTypes
  <1>4. ASSUME NEW k \in Parents(r)
        PROVE  r.id \in visited <=> k \in visited
    <2>1. k \in Neighbors(Graph, r.id) /\ r.id \in Neighbors(Graph, k)
      BY <1>3, <1>4 DEF Neighbors
    <2> QED
      BY <1>1, <2>1 DEF IsClosed
  <1>5. ASSUME IsDated(r), r.day # NoDay
        PROVE  r.id \in visited <=> r.day \in visitedDays
    <2>1. r.day \in Days(Graph, r.id) /\ r.id \in KeysOn(Graph, r.day)
      BY <1>5 DEF Days, KeysOn
    <2> QED
      BY <1>1, <2>1 DEF IsClosed
  <1> QED
    BY <1>1, <1>4, <1>5 DEF Seeds

\* The days that late_data.py resolves a changed record to are in its plan.
LEMMA ImpactIsPlanned ==
    ASSUME PlanInv, IsPlanned, NEW r \in changed
    PROVE  ResolveRecordImpact(ledger, r) \subseteq visitedDays
  <1>1. r \in Graph /\ r \in Record /\ ledger \subseteq Graph /\ ledger \subseteq Record
    BY DEF PlanInv, PlanTypeOK, Graph
  <1>2. r.id \in visited /\ r.id \in Key
    BY <1>1, PlanFollows, RecordTypes
  <1>3. CASE r.id \in Order
    BY <1>3, RecordAssumption DEF ResolveRecordImpact
  <1>4. CASE r.id \in Payment \cup Refund
    <2>1. ResolveRecordImpact(ledger, r) = {r.day} \ {NoDay}
      BY <1>4, RecordAssumption DEF ResolveRecordImpact
    <2>2. IsDated(r)
      BY <1>4 DEF IsDated
    <2> QED
      BY <1>1, <1>2, <2>1, <2>2, PlanFollows
  <1>5. CASE r.id \in Fee
    <2>1. ResolveRecordImpact(ledger, r) = PaymentAvailableOn(ledger, r.payment)
      BY <1>5, RecordAssumption DEF ResolveRecordImpact
    <2>2. r.payment \in visited /\ r.payment \in Payment
      BY <1>1, <1>2, <1>5, PlanFollows, ParentsOfType, RecordFields
    <2>3. \A p \in ledger : p.id = r.payment /\ p.day # NoDay => p.day \in visitedDays
      BY <1>1, <2>2, PlanFollows DEF IsDated
    <2> QED
      BY <2>1, <2>3 DEF PaymentAvailableOn
  <1>6. CASE r.id \in SettlementLine
    <2>1. ResolveRecordImpact(ledger, r) = PayoutDates(ledger, r.payout)
      BY <1>6, RecordAssumption DEF ResolveRecordImpact
    <2>2. r.payout \in visited /\ r.payout \in Payout
      BY <1>1, <1>2, <1>6, PlanFollows, ParentsOfType, RecordFields
    <2>3. \A y \in ledger : y.id = r.payout => y.day # NoDay
      BY <1>1, <2>2, RecordFields DEF Day
    <2>4. \A y \in ledger : y.id = r.payout => y.day \in visitedDays
      BY <1>1, <2>2, <2>3, PlanFollows DEF IsDated
    <2> QED
      BY <2>1, <2>4 DEF PayoutDates
  <1>7. CASE r.id \in Payout
    <2>1. ResolveRecordImpact(ledger, r) = {r.day}
      BY <1>7, RecordAssumption DEF ResolveRecordImpact
    <2>2. IsDated(r) /\ r.day # NoDay
      BY <1>1, <1>7, RecordFields DEF IsDated, Day
    <2> QED
      BY <1>1, <1>2, <2>1, <2>2, PlanFollows
  <1> QED
    BY <1>2, <1>3, <1>4, <1>5, <1>6, <1>7 DEF Key

\* late_data.py and affected_windows.py agree on every record and every
\* change: the days that make a change late are days its plan rebuilds, and
\* what needs reprocessing has a plan.
THEOREM LateDatesCorrect == Spec => []LateDatesArePlanned
  <1>1. ASSUME PlanInv, ChangeInv
        PROVE  LateDatesArePlanned
    <2> SUFFICES ASSUME phase = "planned", changed # {}, scope # "FULL"
                 PROVE  /\ scope = "WINDOWS" => Candidate.dates \subseteq visitedDays
                        /\ \A c \in Candidate.dates :
                             RequiresReprocessing(Decision(c)) => scope = "WINDOWS"
      BY DEF LateDatesArePlanned
    <2>1. scope \in {"NONE", "WINDOWS"}
      BY <1>1 DEF PlanInv, PlanTypeOK
    <2>2. CASE scope = "NONE"
      <3>1. KindOfChange = "EXACT_DUPLICATE"
        BY <1>1, <2>2 DEF ChangeInv, KindOfChange
      <3>2. \A c : Decision(c) = "NO_LOGICAL_CHANGE"
        BY <3>1 DEF Decision, ClassifyLateData
      <3> QED
        BY <2>2, <3>2 DEF RequiresReprocessing
    <2>3. CASE scope = "WINDOWS"
      <3>1. \A r \in changed : ResolveRecordImpact(ledger, r) \subseteq visitedDays
        BY <1>1, <2>3, ImpactIsPlanned DEF IsPlanned
      <3> QED
        BY <2>3, <3>1 DEF Candidate, BuildLateDataCandidate
    <2> QED
      BY <2>1, <2>2, <2>3
  <1> QED
    BY <1>1, ChangeInvariant, PTL
-----------------------------------------------------------------------------
(* What lies outside a plan *)

\* V and D, the keys and days of a plan, separate the difference of A and B
\* from the rest: they hold a record with the keys it names and with its day,
\* and outside them A and B have the same records.
Separates(A, B, V, D) ==
    /\ A \subseteq Record /\ B \subseteq Record
    /\ HasOneVersionEach(A)
    /\ \A r \in A \cup B :
         /\ \A k \in Parents(r) : r.id \in V <=> k \in V
         /\ IsDated(r) /\ r.day # NoDay => (r.id \in V <=> r.day \in D)
         /\ r.id \notin V => r \in A /\ r \in B

\* The plan of a change separates what it changed from the rest.
LEMMA PlanSeparates ==
    ASSUME PlanInv, ChangeInv, phase = "planned", scope = "WINDOWS"
    PROVE  /\ Separates(before, ledger, visited, visitedDays)
           /\ Separates(ledger, before, visited, visitedDays)
  <1>1. IsPlanned /\ DiffersInChanged
    BY DEF IsPlanned, ChangeInv
  <1>2. before \subseteq Record /\ ledger \subseteq Record
    BY DEF PlanInv, PlanTypeOK
  <1>3. ASSUME NEW r \in before \cup ledger
        PROVE  /\ \A k \in Parents(r) : r.id \in visited <=> k \in visited
               /\ IsDated(r) /\ r.day # NoDay =>
                    (r.id \in visited <=> r.day \in visitedDays)
               /\ r \in changed => r.id \in visited
    <2>1. r \in Graph
      BY <1>3 DEF Graph
    <2> QED
      BY <1>1, <2>1, PlanFollows
  <1>4. ASSUME NEW r \in before \cup ledger, r.id \notin visited
        PROVE  r \in before /\ r \in ledger
    BY <1>1, <1>3, <1>4 DEF DiffersInChanged
  <1> QED
    BY <1>2, <1>3, <1>4 DEF Separates, ChangeInv

\* The links of a record outside the plan lead outside it.
LEMMA SeparatesLinks ==
    ASSUME NEW A, NEW B, NEW V, NEW D, Separates(A, B, V, D),
           NEW r \in A \cup B
    PROVE  /\ r.id \in Payment => (r.id \in V <=> r.order \in V)
           /\ r.id \in Refund \cup Fee => (r.id \in V <=> r.payment \in V)
           /\ r.id \in SettlementLine => /\ r.id \in V <=> r.payout \in V
                                         /\ r.id \in V <=> r.movement \in V
           /\ r.id \notin V => r \in A /\ r \in B
  <1>1. \A k \in Parents(r) : r.id \in V <=> k \in V
    BY DEF Separates
  <1>2. r.id \notin V => r \in A /\ r \in B
    BY DEF Separates
  <1>3. r.id \in Payment => (r.id \in V <=> r.order \in V)
    BY <1>1, ParentsOfType
  <1>4. r.id \in Refund \cup Fee => (r.id \in V <=> r.payment \in V)
    BY <1>1, ParentsOfType
  <1>5. r.id \in SettlementLine => /\ r.id \in V <=> r.payout \in V
                                   /\ r.id \in V <=> r.movement \in V
    BY <1>1, ParentsOfType
  <1> QED
    BY <1>2, <1>3, <1>4, <1>5

\* Captures, refunds and payouts are in the plan exactly with their day.
LEMMA SeparatesDays ==
    ASSUME NEW A, NEW B, NEW V, NEW D, Separates(A, B, V, D)
    PROVE  /\ \A r \in Captured(A) : r.id \in V <=> r.day \in D
           /\ \A r \in Refunded(A) : r.id \in V <=> r.day \in D
           /\ \A r \in Payouts(A) : r.id \in V <=> r.day \in D
  <1>1. A \subseteq Record
    BY DEF Separates
  <1>2. \A r \in A : IsDated(r) /\ r.day # NoDay => (r.id \in V <=> r.day \in D)
    BY DEF Separates
  <1>3. \A r \in Captured(A) : r \in A /\ IsDated(r) /\ r.day # NoDay
    BY <1>1, RecordFields DEF Captured, IsDated, Day
  <1>4. \A r \in Refunded(A) : r \in A /\ IsDated(r) /\ r.day # NoDay
    BY <1>1, RecordFields DEF Refunded, IsDated, Day
  <1>5. \A r \in Payouts(A) : r \in A /\ IsDated(r) /\ r.day # NoDay
    BY <1>1, RecordFields DEF Payouts, IsDated, Day
  <1> QED
    BY <1>2, <1>3, <1>4, <1>5

\* Outside the plan, A and B have the same records of every type, linked to
\* the same records.
LEMMA SeparatesLookups ==
    ASSUME NEW A, NEW B, NEW V, NEW D, Separates(A, B, V, D)
    PROVE  /\ \A r : r.id \notin V =>
                /\ r \in Orders(A) <=> r \in Orders(B)
                /\ r \in Captured(A) <=> r \in Captured(B)
                /\ r \in Refunded(A) <=> r \in Refunded(B)
                /\ r \in Fees(A) <=> r \in Fees(B)
                /\ r \in Lines(A) <=> r \in Lines(B)
                /\ r \in Payouts(A) <=> r \in Payouts(B)
           /\ \A r : r.id \notin V =>
                /\ CapturesOf(A, r) = CapturesOf(B, r)
                /\ RefundsOf(A, r) = RefundsOf(B, r)
                /\ FeesOf(A, r) = FeesOf(B, r)
                /\ LinesOf(A, r) = LinesOf(B, r)
                /\ \A p \in CapturesOf(A, r) : p.id \notin V
                /\ \A f \in FeesOf(A, r) : f.id \notin V
                /\ \A l \in LinesOf(A, r) : l.id \notin V
           /\ \A k : k \notin V =>
                /\ IsCapture(A, k) <=> IsCapture(B, k)
  <1> USE SeparatesLinks
  <1>1. \A r : r.id \notin V => (r \in A <=> r \in B)
    BY DEF Separates
  <1>2. \A r : r.id \notin V => CapturesOf(A, r) = CapturesOf(B, r)
    BY DEF CapturesOf, Captured
  <1>3. \A r : r.id \notin V => RefundsOf(A, r) = RefundsOf(B, r)
    BY DEF RefundsOf, Refunded
  <1>4. \A r : r.id \notin V => FeesOf(A, r) = FeesOf(B, r)
    BY DEF FeesOf, Fees
  <1>5. \A r : r.id \notin V => LinesOf(A, r) = LinesOf(B, r)
    BY DEF LinesOf, Lines
  <1>6. \A r : r.id \notin V =>
                /\ \A p \in CapturesOf(A, r) : p.id \notin V
                /\ \A f \in FeesOf(A, r) : f.id \notin V
                /\ \A l \in LinesOf(A, r) : l.id \notin V
    BY DEF CapturesOf, Captured, FeesOf, Fees, LinesOf, Lines
  <1>7. \A k : k \notin V => (IsCapture(A, k) <=> IsCapture(B, k))
    BY <1>1 DEF IsCapture, Captured
  <1>8. \A r : r.id \notin V =>
                /\ r \in Orders(A) <=> r \in Orders(B)
                /\ r \in Captured(A) <=> r \in Captured(B)
                /\ r \in Refunded(A) <=> r \in Refunded(B)
                /\ r \in Fees(A) <=> r \in Fees(B)
                /\ r \in Lines(A) <=> r \in Lines(B)
                /\ r \in Payouts(A) <=> r \in Payouts(B)
    BY <1>1 DEF Orders, Captured, Refunded, Fees, Lines, Payouts
  <1> QED
    BY <1>2, <1>3, <1>4, <1>5, <1>6, <1>7, <1>8

\* The rules of reconcile.py give the same verdict on a record outside the
\* plan.
LEMMA SeparatesPaymentRules ==
    ASSUME NEW A, NEW B, NEW V, NEW D, Separates(A, B, V, D), NEW S,
           NEW p, p.id \notin V
    PROVE  /\ p \in NonPayableCaptures(A, S) <=> p \in NonPayableCaptures(B, S)
           /\ p \in OrphanPayments(A, S) <=> p \in OrphanPayments(B, S)
           /\ p \in ExcessRefunds(A, S) <=> p \in ExcessRefunds(B, S)
           /\ p \in MissingFees(A, S) <=> p \in MissingFees(B, S)
           /\ p \in MismatchedFees(A, S) <=> p \in MismatchedFees(B, S)
  <1>1. /\ p \in Captured(A) <=> p \in Captured(B)
        /\ RefundsOf(A, p) = RefundsOf(B, p)
        /\ FeesOf(A, p) = FeesOf(B, p)
    BY SeparatesLookups
  <1>2. p \in Captured(A) => p.order \notin V
    BY SeparatesLinks DEF Captured
  <1>3. p \in Captured(A) =>
          \A o : o.id = p.order => (o \in Orders(A) <=> o \in Orders(B))
    BY <1>2, SeparatesLookups
  <1>4. p \in NonPayableCaptures(A, S) <=> p \in NonPayableCaptures(B, S)
    BY <1>1, <1>3 DEF NonPayableCaptures
  <1>5. p \in OrphanPayments(A, S) <=> p \in OrphanPayments(B, S)
    BY <1>1, <1>3 DEF OrphanPayments
  <1>6. p \in ExcessRefunds(A, S) <=> p \in ExcessRefunds(B, S)
    BY <1>1 DEF ExcessRefunds
  <1>7. p \in MissingFees(A, S) <=> p \in MissingFees(B, S)
    BY <1>1 DEF MissingFees
  <1>8. p \in MismatchedFees(A, S) <=> p \in MismatchedFees(B, S)
    BY <1>1 DEF MismatchedFees
  <1> QED
    BY <1>4, <1>5, <1>6, <1>7, <1>8

LEMMA SeparatesOrphanRules ==
    ASSUME NEW A, NEW B, NEW V, NEW D, Separates(A, B, V, D), NEW S,
           NEW r, r.id \notin V
    PROVE  /\ r \in OrphanRefunds(A, S) <=> r \in OrphanRefunds(B, S)
           /\ r \in UnexpectedFees(A, S) <=> r \in UnexpectedFees(B, S)
  <1>1. /\ r \in Refunded(A) <=> r \in Refunded(B)
        /\ r \in Fees(A) <=> r \in Fees(B)
    BY SeparatesLookups
  <1>2. r \in Refunded(A) \/ r \in Fees(A) => r.payment \notin V
    BY SeparatesLinks DEF Refunded, Fees
  <1>3. r \in Refunded(A) \/ r \in Fees(A) =>
          (IsCapture(A, r.payment) <=> IsCapture(B, r.payment))
    BY <1>2, SeparatesLookups
  <1> QED
    BY <1>1, <1>3 DEF OrphanRefunds, UnexpectedFees

\* The codes of PaymentRules, OrphanRules and OrderRules.
PaymentCode ==
    {"CAPTURE_FOR_NON_PAYABLE_ORDER", "EXCESS_REFUND", "MISSING_FEE",
     "FEE_MISMATCH"}
OrphanCode == {"ORPHAN_PAYMENT", "ORPHAN_REFUND", "UNEXPECTED_FEE"}
OrderCode == {"MISSING_PAYMENT", "PAYMENT_AMOUNT_MISMATCH", "MULTIPLE_CAPTURE"}

LEMMA RuleCodes ==
    ASSUME NEW A, NEW S
    PROVE  /\ DOMAIN PaymentRules(A, S) = PaymentCode
           /\ DOMAIN OrphanRules(A, S) = OrphanCode
           /\ DOMAIN OrderRules(A, S) = OrderCode
           /\ PaymentRules(A, S)["CAPTURE_FOR_NON_PAYABLE_ORDER"] =
                NonPayableCaptures(A, S)
           /\ PaymentRules(A, S)["EXCESS_REFUND"] = ExcessRefunds(A, S)
           /\ PaymentRules(A, S)["MISSING_FEE"] = MissingFees(A, S)
           /\ PaymentRules(A, S)["FEE_MISMATCH"] = MismatchedFees(A, S)
           /\ OrphanRules(A, S)["ORPHAN_PAYMENT"] = OrphanPayments(A, S)
           /\ OrphanRules(A, S)["ORPHAN_REFUND"] = OrphanRefunds(A, S)
           /\ OrphanRules(A, S)["UNEXPECTED_FEE"] = UnexpectedFees(A, S)
  <1>1. DOMAIN PaymentRules(A, S) = PaymentCode
    BY DEF PaymentRules, PaymentCode
  <1>2. DOMAIN OrphanRules(A, S) = OrphanCode
    BY DEF OrphanRules, OrphanCode
  <1>3. DOMAIN OrderRules(A, S) = OrderCode
    BY DEF OrderRules, OrderCode
  <1> QED
    BY <1>1, <1>2, <1>3 DEF PaymentRules, OrphanRules

LEMMA SeparatesRules ==
    ASSUME NEW A, NEW B, NEW V, NEW D, Separates(A, B, V, D), NEW S,
           NEW r, r.id \notin V
    PROVE  /\ \A c \in PaymentCode :
                r \in PaymentRules(A, S)[c] <=> r \in PaymentRules(B, S)[c]
           /\ \A c \in OrphanCode :
                r \in OrphanRules(A, S)[c] <=> r \in OrphanRules(B, S)[c]
           /\ \A c \in OrderCode :
                r \in OrderRules(A, S)[c] <=> r \in OrderRules(B, S)[c]
  <1>1. \A c \in PaymentCode :
                r \in PaymentRules(A, S)[c] <=> r \in PaymentRules(B, S)[c]
    BY SeparatesPaymentRules, RuleCodes DEF PaymentCode
  <1>2. \A c \in OrphanCode :
                r \in OrphanRules(A, S)[c] <=> r \in OrphanRules(B, S)[c]
    BY SeparatesPaymentRules, SeparatesOrphanRules, RuleCodes DEF OrphanCode
  <1>3. CapturesOf(A, r) = CapturesOf(B, r) /\ (r \in Orders(A) <=> r \in Orders(B))
    BY SeparatesLookups
  <1>4. \A c \in OrderCode :
                r \in OrderRules(A, S)[c] <=> r \in OrderRules(B, S)[c]
    BY <1>3 DEF OrderCode, OrderRules
  <1> QED
    BY <1>1, <1>2, <1>4

\* The rules for payments are about captures.
LEMMA PaymentRulesAreOfCaptures ==
    ASSUME NEW A, NEW S, NEW c \in PaymentCode
    PROVE  PaymentRules(A, S)[c] \subseteq Captured(A)
  BY RuleCodes DEF PaymentCode, NonPayableCaptures, ExcessRefunds, MissingFees,
     MismatchedFees
-----------------------------------------------------------------------------
\* The transaction results of the orders outside the plan.
LEMMA SeparatesTransactions ==
    ASSUME NEW A, NEW B, NEW V, NEW D, Separates(A, B, V, D), Separates(B, A, V, D),
           NEW S, NEW o \in Orders(A), o.id \notin V
    PROVE  o \in Orders(B) /\ Transaction(A, S, o) = Transaction(B, S, o)
  <1>1. o \in Orders(B) /\ CapturesOf(A, o) = CapturesOf(B, o)
    BY SeparatesLookups
  <1>2. \A p \in CapturesOf(A, o) :
          RefundsOf(A, p) = RefundsOf(B, p) /\ FeesOf(A, p) = FeesOf(B, p)
    BY SeparatesLookups
  <1>3. /\ UNION {RefundsOf(A, p) : p \in CapturesOf(A, o)}
             = UNION {RefundsOf(B, p) : p \in CapturesOf(B, o)}
        /\ UNION {FeesOf(A, p) : p \in CapturesOf(A, o)}
             = UNION {FeesOf(B, p) : p \in CapturesOf(B, o)}
    BY <1>1, <1>2
  <1>4. ASSUME NEW c \in PaymentCode, NEW p, p.order = o.id
        PROVE  p \in PaymentRules(A, S)[c] <=> p \in PaymentRules(B, S)[c]
    <2>1. p \in PaymentRules(A, S)[c] => p.id \notin V
      BY <1>4, PaymentRulesAreOfCaptures, SeparatesLinks DEF Captured
    <2>2. p \in PaymentRules(B, S)[c] => p.id \notin V
      BY <1>4, PaymentRulesAreOfCaptures, SeparatesLinks DEF Captured
    <2> QED
      BY <2>1, <2>2, SeparatesRules
  <1>5. \A c \in OrderCode : o \in OrderRules(A, S)[c] <=> o \in OrderRules(B, S)[c]
    BY SeparatesRules
  <1>6. TransactionCodes(A, S, o) = TransactionCodes(B, S, o)
    BY <1>4, <1>5, RuleCodes DEF TransactionCodes
  <1> QED
    BY <1>1, <1>3, <1>6 DEF Transaction

\* What the movement of an expected fee depends on.
LEMMA FeeMovementDependsOn ==
    ASSUME NEW A, NEW B, NEW p, FeesOf(A, p) = FeesOf(B, p)
    PROVE  FeeMovement(A, p) = FeeMovement(B, p)
  <1> DEFINE MovementOf(fees) ==
        [id |-> IF Cardinality(fees) = 1 THEN (CHOOSE f \in fees : TRUE).id
                ELSE p.id,
         invented |-> ~(Cardinality(fees) = 1), day |-> p.day,
         amount |-> -ExpectedFee(p)]
  <1>1. \A L : FeeMovement(L, p) = MovementOf(FeesOf(L, p))
    BY Zenon DEF FeeMovement
  <1> HIDE DEF MovementOf
  <1> QED
    BY <1>1

\* Its id is that of a reported fee, or of the payment if it is invented.
LEMMA FeeMovementId ==
    ASSUME NEW A, NEW p
    PROVE  \/ \E f \in FeesOf(A, p) : FeeMovement(A, p).id = f.id
           \/ FeeMovement(A, p).id = p.id
  <1>1. CASE Cardinality(FeesOf(A, p)) = 1
    <2>1. FeesOf(A, p) # {}
      BY <1>1, FS_EmptySet
    <2>2. FeeMovement(A, p).id = (CHOOSE f \in FeesOf(A, p) : TRUE).id
      BY <1>1 DEF FeeMovement
    <2> QED
      BY <2>1, <2>2
  <1>2. CASE Cardinality(FeesOf(A, p)) # 1
    BY <1>2 DEF FeeMovement
  <1> QED
    BY <1>1, <1>2

\* The expected movements of the days outside the plan, and their ids.
LEMMA SeparatesMovements ==
    ASSUME NEW A, NEW B, NEW V, NEW D, Separates(A, B, V, D),
           NEW m \in ExpectedMovements(A)
    PROVE  /\ m.id \in V <=> m.day \in D
           /\ m.day \notin D => m \in ExpectedMovements(B)
  <1>1. ASSUME NEW p \in Captured(A), m = CaptureMovement(p)
        PROVE  /\ m.id \in V <=> m.day \in D
               /\ m.day \notin D => m \in ExpectedMovements(B)
    <2>1. m.id = p.id /\ m.day = p.day
      BY <1>1 DEF CaptureMovement
    <2>2. p.id \in V <=> p.day \in D
      BY SeparatesDays
    <2>3. p.id \notin V => p \in Captured(B)
      BY SeparatesLookups
    <2> QED
      BY <1>1, <2>1, <2>2, <2>3 DEF ExpectedMovements
  <1>2. ASSUME NEW p \in Captured(A), m = FeeMovement(A, p)
        PROVE  /\ m.id \in V <=> m.day \in D
               /\ m.day \notin D => m \in ExpectedMovements(B)
    <2>1. m.day = p.day
      BY <1>2 DEF FeeMovement
    <2>2. p.id \in V <=> p.day \in D
      BY SeparatesDays
    <2>3. p.id \notin V => p \in Captured(B) /\ FeesOf(A, p) = FeesOf(B, p)
      BY SeparatesLookups
    <2>4. p.id \notin V => m = FeeMovement(B, p)
      BY <1>2, <2>3, FeeMovementDependsOn
    <2>5. \A f \in FeesOf(A, p) : f.id \in V <=> p.id \in V
      BY SeparatesLinks DEF FeesOf, Fees
    <2>6. m.id \in V <=> p.id \in V
      BY <1>2, <2>5, FeeMovementId
    <2> QED
      BY <2>1, <2>2, <2>3, <2>4, <2>6 DEF ExpectedMovements
  <1>3. ASSUME NEW r \in Refunded(A), m = RefundMovement(r)
        PROVE  /\ m.id \in V <=> m.day \in D
               /\ m.day \notin D => m \in ExpectedMovements(B)
    <2>1. m.id = r.id /\ m.day = r.day
      BY <1>3 DEF RefundMovement
    <2>2. r.id \in V <=> r.day \in D
      BY SeparatesDays
    <2>3. r.id \notin V => r \in Refunded(B)
      BY SeparatesLookups
    <2> QED
      BY <1>3, <2>1, <2>2, <2>3 DEF ExpectedMovements
  <1> QED
    BY <1>1, <1>2, <1>3 DEF ExpectedMovements

\* A settlement line outside the plan is a duplicate before and after.
LEMMA SeparatesDuplicates ==
    ASSUME NEW A, NEW B, NEW V, NEW D, Separates(A, B, V, D), NEW S,
           NEW l, l.id \notin V, l \in DuplicateLines(A, S)
    PROVE  l \in DuplicateLines(B, S)
  <1>1. PICK k \in Lines(A) : k # l /\ k.movement = l.movement
    BY DEF DuplicateLines
  <1>2. l \in Lines(A) /\ l.movement \notin V
    BY SeparatesLinks DEF DuplicateLines, Lines
  <1>3. k.id \notin V
    BY <1>1, <1>2, SeparatesLinks DEF Lines
  <1>4. l \in Lines(B) /\ k \in Lines(B)
    BY <1>1, <1>2, <1>3, SeparatesLookups
  <1> QED
    BY <1>1, <1>4 DEF DuplicateLines

\* The amount that a line of a movement outside the plan is compared with.
LEMMA SeparatesLineAmounts ==
    ASSUME NEW A, NEW B, NEW V, NEW D, Separates(A, B, V, D),
           NEW m, m.id \notin V
    PROVE  ExpectedLineAmount(A, m) = ExpectedLineAmount(B, m)
  <1>1. \A f : f.id = m.id => (f \in Fees(A) <=> f \in Fees(B))
    BY SeparatesLookups
  <1>2. CASE \E f \in Fees(A) : f.id = m.id
    <2> DEFINE a == CHOOSE f \in Fees(A) : f.id = m.id
               b == CHOOSE f \in Fees(B) : f.id = m.id
    <2>1. a \in Fees(A) /\ a.id = m.id
      BY <1>2
    <2>2. \E f \in Fees(B) : f.id = m.id
      BY <1>1, <1>2
    <2>3. b \in Fees(B) /\ b.id = m.id
      BY <2>2
    <2>4. a = b
      BY <1>1, <2>1, <2>3 DEF Separates, HasOneVersionEach, Fees
    <2>5. ExpectedLineAmount(A, m) = -a.amount
      BY <1>2 DEF ExpectedLineAmount
    <2>6. ExpectedLineAmount(B, m) = -b.amount
      BY <2>2 DEF ExpectedLineAmount
    <2> QED
      BY <2>4, <2>5, <2>6
  <1>3. CASE ~ \E f \in Fees(A) : f.id = m.id
    BY <1>1, <1>3 DEF ExpectedLineAmount
  <1> QED
    BY <1>2, <1>3

\* What a payout result depends on: the movements of its day, its lines, which
\* of them are duplicates, and the amounts they are compared with.
LEMMA PayoutDependsOn ==
    ASSUME NEW A, NEW B, NEW S, NEW y,
           MovementsOn(A, y.day) = MovementsOn(B, y.day),
           LinesOf(A, y) = LinesOf(B, y),
           LinesOf(A, y) \cap DuplicateLines(A, S)
             = LinesOf(B, y) \cap DuplicateLines(B, S),
           \A m \in MovementsOn(A, y.day) :
             ExpectedLineAmount(A, m) = ExpectedLineAmount(B, m)
    PROVE  /\ UnsettledMovements(A, S, y) = UnsettledMovements(B, S, y)
           /\ MismatchedLines(A, S, y) = MismatchedLines(B, S, y)
           /\ HasTotalMismatch(A, S, y) <=> HasTotalMismatch(B, S, y)
           /\ PayoutResult(A, S, y) = PayoutResult(B, S, y)
  <1>1. UnsettledMovements(A, S, y) = UnsettledMovements(B, S, y)
    BY DEF UnsettledMovements
  <1>2. MismatchedLines(A, S, y) = MismatchedLines(B, S, y)
    BY DEF MismatchedLines
  <1>3. HasTotalMismatch(A, S, y) <=> HasTotalMismatch(B, S, y)
    BY DEF HasTotalMismatch
  <1>4. PayoutCodes(A, S, y) = PayoutCodes(B, S, y)
    BY <1>1, <1>2, <1>3 DEF PayoutCodes
  <1>5. PayoutIsBlocked(A, S, y) <=> PayoutIsBlocked(B, S, y)
    BY <1>4 DEF PayoutIsBlocked
  <1>6. PayoutIsBlocked(A, S, y) = PayoutIsBlocked(B, S, y)
    BY <1>5, Zenon DEF PayoutIsBlocked
  <1>7. PayoutResult(A, S, y) = PayoutResult(B, S, y)
    BY <1>4, <1>6 DEF PayoutResult
  <1> QED
    BY <1>1, <1>2, <1>3, <1>7

\* The payouts of the days outside the plan.
LEMMA SeparatesPayouts ==
    ASSUME NEW A, NEW B, NEW V, NEW D, Separates(A, B, V, D), Separates(B, A, V, D),
           NEW S, NEW y \in Payouts(A), y.day \notin D
    PROVE  /\ y \in Payouts(B)
           /\ UnsettledMovements(A, S, y) = UnsettledMovements(B, S, y)
           /\ MismatchedLines(A, S, y) = MismatchedLines(B, S, y)
           /\ HasTotalMismatch(A, S, y) <=> HasTotalMismatch(B, S, y)
           /\ PayoutResult(A, S, y) = PayoutResult(B, S, y)
  <1>1. y.id \notin V
    BY SeparatesDays
  <1>2. y \in Payouts(B) /\ LinesOf(A, y) = LinesOf(B, y)
    BY <1>1, SeparatesLookups
  <1>3. MovementsOn(A, y.day) = MovementsOn(B, y.day)
    BY SeparatesMovements DEF MovementsOn
  <1>4. \A m \in MovementsOn(A, y.day) : m.id \notin V
    BY SeparatesMovements DEF MovementsOn
  <1>5. \A m \in MovementsOn(A, y.day) :
          ExpectedLineAmount(A, m) = ExpectedLineAmount(B, m)
    BY <1>4, SeparatesLineAmounts
  <1>6. LinesOf(A, y) \cap DuplicateLines(A, S)
          = LinesOf(B, y) \cap DuplicateLines(B, S)
    <2>1. \A l \in LinesOf(A, y) : l.id \notin V
      BY <1>1, SeparatesLookups
    <2> QED
      BY <1>2, <2>1, SeparatesDuplicates
  <1> QED
    BY <1>2, <1>3, <1>5, <1>6, PayoutDependsOn

\* The exceptions about entities outside the plan.
LEMMA SeparatesExceptions ==
    ASSUME NEW A, NEW B, NEW V, NEW D, Separates(A, B, V, D), Separates(B, A, V, D),
           NEW S, NEW x \in Exceptions(A, S), x[2] \notin V
    PROVE  x \in Exceptions(B, S)
  <1>1. ASSUME NEW c \in PaymentCode, NEW p \in PaymentRules(A, S)[c],
               x = <<c, PaymentRuleEntity(c, p)>>
        PROVE  x \in Exceptions(B, S)
    <2>1. p \in A /\ p.id \in Payment
      BY PaymentRulesAreOfCaptures DEF Captured
    <2>2. p.id \notin V
      BY <1>1, <2>1, SeparatesLinks DEF PaymentRuleEntity
    <2>3. p \in PaymentRules(B, S)[c]
      BY <2>2, SeparatesRules
    <2> QED
      BY <1>1, <2>3, RuleCodes DEF Exceptions
  <1>2. ASSUME NEW c \in OrphanCode, NEW r \in OrphanRules(A, S)[c],
               x = <<c, r.id>>
        PROVE  x \in Exceptions(B, S)
    <2>1. r \in OrphanRules(B, S)[c]
      BY <1>2, SeparatesRules
    <2> QED
      BY <1>2, <2>1, RuleCodes DEF Exceptions
  <1>3. ASSUME NEW c \in OrderCode, NEW o \in OrderRules(A, S)[c],
               x = <<c, o.id>>
        PROVE  x \in Exceptions(B, S)
    <2>1. o \in OrderRules(B, S)[c]
      BY <1>3, SeparatesRules
    <2> QED
      BY <1>3, <2>1, RuleCodes DEF Exceptions
  <1>4. ASSUME NEW l \in DuplicateLines(A, S),
               x = <<"DUPLICATE_SETTLEMENT_MOVEMENT", l.movement>>
        PROVE  x \in Exceptions(B, S)
    <2>1. l.id \notin V
      BY <1>4, SeparatesLinks DEF DuplicateLines, Lines
    <2>2. l \in DuplicateLines(B, S)
      BY <2>1, SeparatesDuplicates
    <2> QED
      BY <1>4, <2>2 DEF Exceptions
  <1>5. ASSUME NEW y \in Payouts(A), NEW m \in UnsettledMovements(A, S, y),
               x = <<"MISSING_SETTLEMENT_LINE", m.id>>
        PROVE  x \in Exceptions(B, S)
    <2>1. m \in ExpectedMovements(A) /\ m.day = y.day /\ m.id \notin V
      BY <1>5 DEF UnsettledMovements, MovementsOn
    <2>2. y.day \notin D
      BY <2>1, SeparatesMovements
    <2>3. y \in Payouts(B) /\ m \in UnsettledMovements(B, S, y)
      BY <2>2, SeparatesPayouts
    <2> QED
      BY <1>5, <2>3 DEF Exceptions
  <1>6. ASSUME NEW y \in Payouts(A), NEW l \in MismatchedLines(A, S, y),
               x = <<"SETTLEMENT_LINE_AMOUNT_MISMATCH", l.id>>
        PROVE  x \in Exceptions(B, S)
    <2>1. l \in A /\ l.id \in SettlementLine /\ l.payout = y.id /\ l.id \notin V
      BY <1>6 DEF MismatchedLines, LinesOf, Lines
    <2>2. y.id \notin V
      BY <2>1, SeparatesLinks
    <2>3. y.day \notin D
      BY <2>2, SeparatesDays
    <2>4. y \in Payouts(B) /\ l \in MismatchedLines(B, S, y)
      BY <2>3, SeparatesPayouts
    <2> QED
      BY <1>6, <2>4 DEF Exceptions
  <1>7. ASSUME NEW y \in Payouts(A), HasTotalMismatch(A, S, y),
               x = <<"PAYOUT_TOTAL_MISMATCH", y.id>>
        PROVE  x \in Exceptions(B, S)
    <2>1. y.day \notin D
      BY <1>7, SeparatesDays
    <2>2. y \in Payouts(B) /\ HasTotalMismatch(B, S, y)
      BY <1>7, <2>1, SeparatesPayouts
    <2> QED
      BY <1>7, <2>2 DEF Exceptions
  <1>8. \/ \E c \in PaymentCode : \E p \in PaymentRules(A, S)[c] :
             x = <<c, PaymentRuleEntity(c, p)>>
        \/ \E c \in OrphanCode : \E r \in OrphanRules(A, S)[c] : x = <<c, r.id>>
        \/ \E c \in OrderCode : \E o \in OrderRules(A, S)[c] : x = <<c, o.id>>
        \/ \E l \in DuplicateLines(A, S) :
             x = <<"DUPLICATE_SETTLEMENT_MOVEMENT", l.movement>>
        \/ \E y \in Payouts(A) : \E m \in UnsettledMovements(A, S, y) :
             x = <<"MISSING_SETTLEMENT_LINE", m.id>>
        \/ \E y \in Payouts(A) : \E l \in MismatchedLines(A, S, y) :
             x = <<"SETTLEMENT_LINE_AMOUNT_MISMATCH", l.id>>
        \/ \E y \in Payouts(A) :
             HasTotalMismatch(A, S, y) /\ x = <<"PAYOUT_TOTAL_MISMATCH", y.id>>
    BY RuleCodes DEF Exceptions
  <1> QED
    BY <1>1, <1>2, <1>3, <1>4, <1>5, <1>6, <1>7, <1>8

\* docs/financial-contracts.md:395, for every set of records, every change and
\* every order of the worklist: what a plan of windows does not ask to rebuild
\* is the same in the result before and after the change.
THEOREM PlanCorrect == Spec => []PlanCoversChange
  <1> DEFINE OrdersOf(L, S) ==
               {t \in Transactions(L, S) : t.order \notin visited}
             PayoutsOf(L, S) ==
               {y \in PayoutResults(L, S) : y.day \notin visitedDays}
             MovementsOf(L) ==
               {m \in ExpectedMovements(L) : m.day \notin visitedDays}
             ExceptionsOf(L, S) ==
               {x \in Exceptions(L, S) : x[2] \notin visited}
  <1>1. ASSUME NEW A, NEW B, NEW S,
               Separates(A, B, visited, visitedDays),
               Separates(B, A, visited, visitedDays)
        PROVE  /\ OrdersOf(A, S) \subseteq OrdersOf(B, S)
               /\ PayoutsOf(A, S) \subseteq PayoutsOf(B, S)
               /\ MovementsOf(A) \subseteq MovementsOf(B)
               /\ ExceptionsOf(A, S) \subseteq ExceptionsOf(B, S)
    <2>1. OrdersOf(A, S) \subseteq OrdersOf(B, S)
      <3> SUFFICES ASSUME NEW t \in OrdersOf(A, S)
                   PROVE  t \in Transactions(B, S)
        OBVIOUS
      <3>1. PICK o \in Orders(A) : t = Transaction(A, S, o)
        BY DEF Transactions
      <3>2. t.order = o.id
        BY <3>1 DEF Transaction
      <3>3. o \in Orders(B) /\ Transaction(A, S, o) = Transaction(B, S, o)
        BY <1>1, <3>2, SeparatesTransactions
      <3> QED
        BY <3>1, <3>3 DEF Transactions
    <2>2. PayoutsOf(A, S) \subseteq PayoutsOf(B, S)
      <3> SUFFICES ASSUME NEW z \in PayoutsOf(A, S)
                   PROVE  z \in PayoutResults(B, S)
        OBVIOUS
      <3>1. PICK y \in Payouts(A) : z = PayoutResult(A, S, y)
        BY DEF PayoutResults
      <3>2. z.day = y.day
        BY <3>1 DEF PayoutResult
      <3>3. y \in Payouts(B) /\ PayoutResult(A, S, y) = PayoutResult(B, S, y)
        BY <1>1, <3>2, SeparatesPayouts
      <3> QED
        BY <3>1, <3>3 DEF PayoutResults
    <2>3. MovementsOf(A) \subseteq MovementsOf(B)
      BY <1>1, SeparatesMovements
    <2>4. ExceptionsOf(A, S) \subseteq ExceptionsOf(B, S)
      BY <1>1, SeparatesExceptions
    <2> QED
      BY <2>1, <2>2, <2>3, <2>4
  <1>2. ASSUME PlanInv, ChangeInv
        PROVE  PlanCoversChange
    <2> SUFFICES ASSUME phase = "planned", scope # "FULL", NEW S
                 PROVE  Unplanned(before, S) = Unplanned(ledger, S)
      BY DEF PlanCoversChange
    <2>1. scope = "NONE" \/ scope = "WINDOWS"
      BY <1>2 DEF PlanInv, PlanTypeOK
    <2>2. CASE scope = "NONE"
      BY <1>2, <2>2 DEF ChangeInv
    <2>3. CASE scope = "WINDOWS"
      <3>1. /\ Separates(before, ledger, visited, visitedDays)
            /\ Separates(ledger, before, visited, visitedDays)
        BY <1>2, <2>3, PlanSeparates
      <3>2. /\ OrdersOf(before, S) = OrdersOf(ledger, S)
            /\ PayoutsOf(before, S) = PayoutsOf(ledger, S)
            /\ MovementsOf(before) = MovementsOf(ledger)
            /\ ExceptionsOf(before, S) = ExceptionsOf(ledger, S)
        <4> HIDE DEF OrdersOf, PayoutsOf, MovementsOf, ExceptionsOf
        <4>1. /\ OrdersOf(before, S) \subseteq OrdersOf(ledger, S)
              /\ PayoutsOf(before, S) \subseteq PayoutsOf(ledger, S)
              /\ MovementsOf(before) \subseteq MovementsOf(ledger)
              /\ ExceptionsOf(before, S) \subseteq ExceptionsOf(ledger, S)
          BY <1>1, <3>1
        <4>2. /\ OrdersOf(ledger, S) \subseteq OrdersOf(before, S)
              /\ PayoutsOf(ledger, S) \subseteq PayoutsOf(before, S)
              /\ MovementsOf(ledger) \subseteq MovementsOf(before)
              /\ ExceptionsOf(ledger, S) \subseteq ExceptionsOf(before, S)
          BY <1>1, <3>1
        <4> QED
          BY <4>1, <4>2
      <3>3. \A L : Unplanned(L, S) =
              [transactions |-> OrdersOf(L, S), payouts |-> PayoutsOf(L, S),
               movements |-> MovementsOf(L), exceptions |-> ExceptionsOf(L, S)]
        BY DEF Unplanned
      <3> HIDE DEF OrdersOf, PayoutsOf, MovementsOf, ExceptionsOf
      <3> QED
        BY <3>2, <3>3
    <2> QED
      BY <2>1, <2>2, <2>3
  <1> QED
    BY <1>2, ChangeInvariant, PTL
-----------------------------------------------------------------------------
(* What late data leaves alone *)

\* A logical change after the watermark with a day that the run covers needs
\* reprocessing.
LEMMA HistoricalNeedsReprocessing ==
    ASSUME NEW kind \in {"NEW_FACT", "HIGHER_VERSION_CORRECTION",
                         "SAME_VERSION_CONFLICT"},
           NEW candidate, NEW covered,
           HistoricalDates(candidate, covered) # {}
    PROVE  RequiresReprocessing(ClassifyLateData(kind, TRUE, candidate, covered))
  <1> DEFINE decision == ClassifyLateData(kind, TRUE, candidate, covered)
  <1>1. CASE candidate.unresolved
    <2>1. decision = "UNRESOLVED_IMPACT"
      BY <1>1 DEF ClassifyLateData
    <2> QED
      BY <2>1 DEF RequiresReprocessing
  <1>2. CASE ~candidate.unresolved
    <2>1. CASE kind = "NEW_FACT"
      <3>1. decision = "LATE_NEW_FACT"
        BY <1>2, <2>1, Zenon DEF ClassifyLateData
      <3> QED
        BY <3>1 DEF RequiresReprocessing
    <2>2. CASE kind = "HIGHER_VERSION_CORRECTION"
      <3>1. decision = "LATE_CORRECTION"
        BY <1>2, <2>2, Zenon DEF ClassifyLateData
      <3> QED
        BY <3>1 DEF RequiresReprocessing
    <2>3. CASE kind = "SAME_VERSION_CONFLICT"
      <3>1. decision = "LATE_CONFLICT"
        BY <1>2, <2>3, Zenon DEF ClassifyLateData
      <3> QED
        BY <3>1 DEF RequiresReprocessing
    <2> QED
      BY <2>1, <2>2, <2>3
  <1> QED
    BY <1>1, <1>2

\* B has everything that A has on the days up to c.
KeepsCovered(A, B, c) ==
    /\ \A p \in Captured(A) : p.day <= c =>
         p \in Captured(B) /\ FeesOf(A, p) = FeesOf(B, p)
    /\ \A r \in Refunded(A) : r.day <= c => r \in Refunded(B)
    /\ \A y \in Payouts(A) : y.day <= c =>
         y \in Payouts(B) /\ LinesOf(A, y) = LinesOf(B, y)

\* The days that resolve_record_impact gives to the records of a difference
\* are those on which A and B differ.
LEMMA LateChangeKeepsCovered ==
    ASSUME NEW A, NEW B, NEW C, NEW c, NEW L \in {A, B},
           A \subseteq Record, B \subseteq Record,
           (A \ B) \cup (B \ A) \subseteq C,
           \A r \in C : \A d \in ResolveRecordImpact(L, r) : ~(d <= c)
    PROVE  KeepsCovered(A, B, c)
  <1>1. ASSUME NEW r \in C, r.id \in Payment \cup Refund, r.day \in Day
        PROVE  ~(r.day <= c)
    <2>1. ResolveRecordImpact(L, r) = {r.day} \ {NoDay}
      BY <1>1, RecordAssumption DEF ResolveRecordImpact
    <2> QED
      BY <1>1, <2>1 DEF Day
  <1>2. ASSUME NEW p \in Captured(A), p.day <= c
        PROVE  p \in Captured(B) /\ FeesOf(A, p) = FeesOf(B, p)
    <2>1. p \in A /\ p.id \in Payment /\ p.day \in Day
      BY RecordFields DEF Captured
    <2>2. p \in Captured(B)
      BY <1>1, <1>2, <2>1 DEF Captured
    <2>3. p \in L /\ p.day \in PaymentAvailableOn(L, p.id)
      BY <2>1, <2>2 DEF Captured, PaymentAvailableOn, Day
    <2>4. ASSUME NEW f \in C, f.id \in Fee, f.payment = p.id
          PROVE  FALSE
      <3>1. ResolveRecordImpact(L, f) = PaymentAvailableOn(L, f.payment)
        BY <2>4, RecordAssumption DEF ResolveRecordImpact
      <3> QED
        BY <1>2, <2>3, <2>4, <3>1
    <2> QED
      BY <2>2, <2>4 DEF FeesOf, Fees
  <1>3. ASSUME NEW r \in Refunded(A), r.day <= c
        PROVE  r \in Refunded(B)
    <2>1. r \in A /\ r.id \in Refund /\ r.day \in Day
      BY RecordFields DEF Refunded
    <2> QED
      BY <1>1, <1>3, <2>1 DEF Refunded
  <1>4. ASSUME NEW y \in Payouts(A), y.day <= c
        PROVE  y \in Payouts(B) /\ LinesOf(A, y) = LinesOf(B, y)
    <2>1. y \in A /\ y.id \in Payout
      BY DEF Payouts
    <2>2. y \in B
      <3>1. ResolveRecordImpact(L, y) = {y.day}
        BY <2>1, RecordAssumption DEF ResolveRecordImpact
      <3> QED
        BY <1>4, <2>1, <3>1
    <2>3. y.day \in PayoutDates(L, y.id)
      BY <2>1, <2>2 DEF PayoutDates
    <2>4. ASSUME NEW l \in C, l.id \in SettlementLine, l.payout = y.id
          PROVE  FALSE
      <3>1. ResolveRecordImpact(L, l) = PayoutDates(L, l.payout)
        BY <2>4, RecordAssumption DEF ResolveRecordImpact
      <3> QED
        BY <1>4, <2>3, <2>4, <3>1
    <2>5. LinesOf(A, y) = LinesOf(B, y)
      BY <2>4 DEF LinesOf, Lines
    <2> QED
      BY <2>1, <2>2, <2>5 DEF Payouts
  <1> QED
    BY <1>2, <1>3, <1>4 DEF KeepsCovered

\* The expected movements of the covered days, and what their lines are
\* compared with.
LEMMA CoveredMovements ==
    ASSUME NEW A, NEW B, NEW c, KeepsCovered(A, B, c),
           HasOneVersionEach(A), HasOneVersionEach(B),
           NEW m \in ExpectedMovements(A), m.day <= c
    PROVE  /\ m \in ExpectedMovements(B)
           /\ ExpectedLineAmount(A, m) = ExpectedLineAmount(B, m)
  <1>1. ASSUME m.id \in Payment \cup Refund
        PROVE  ExpectedLineAmount(A, m) = ExpectedLineAmount(B, m)
    <2>1. \A L : \A f \in Fees(L) : f.id # m.id
      BY <1>1, RecordAssumption DEF Fees
    <2> QED
      BY <2>1 DEF ExpectedLineAmount
  <1>2. ASSUME NEW f, f \in Fees(A), f \in Fees(B), f.id = m.id
        PROVE  ExpectedLineAmount(A, m) = ExpectedLineAmount(B, m)
    <2>1. (CHOOSE g \in Fees(A) : g.id = m.id) = f
      BY <1>2 DEF HasOneVersionEach, Fees
    <2>2. (CHOOSE g \in Fees(B) : g.id = m.id) = f
      BY <1>2 DEF HasOneVersionEach, Fees
    <2> QED
      BY <1>2, <2>1, <2>2 DEF ExpectedLineAmount
  <1>3. ASSUME NEW p \in Captured(A), m = CaptureMovement(p)
        PROVE  m \in ExpectedMovements(B) /\ m.id \in Payment
    <2>1. m.day = p.day /\ m.id = p.id
      BY <1>3 DEF CaptureMovement
    <2>2. p \in Captured(B)
      BY <2>1 DEF KeepsCovered
    <2> QED
      BY <1>3, <2>1, <2>2 DEF ExpectedMovements, Captured
  <1>4. ASSUME NEW p \in Captured(A), m = FeeMovement(A, p)
        PROVE  /\ m \in ExpectedMovements(B)
               /\ \/ m.id \in Payment
                  \/ \E f : f \in Fees(A) /\ f \in Fees(B) /\ f.id = m.id
    <2>1. m.day = p.day
      BY <1>4 DEF FeeMovement
    <2>2. p \in Captured(B) /\ FeesOf(A, p) = FeesOf(B, p)
      BY <2>1 DEF KeepsCovered
    <2>3. m = FeeMovement(B, p)
      BY <1>4, <2>2, FeeMovementDependsOn
    <2>4. (\E f \in FeesOf(A, p) : m.id = f.id) \/ m.id = p.id
      BY <1>4, FeeMovementId
    <2>5. FeesOf(A, p) \subseteq Fees(A) /\ FeesOf(A, p) \subseteq Fees(B)
      BY <2>2 DEF FeesOf
    <2>6. p.id \in Payment
      BY DEF Captured
    <2>7. \/ m.id \in Payment
          \/ \E f : f \in Fees(A) /\ f \in Fees(B) /\ f.id = m.id
      BY <2>4, <2>5, <2>6
    <2> QED
      BY <2>2, <2>3, <2>7 DEF ExpectedMovements
  <1>5. ASSUME NEW r \in Refunded(A), m = RefundMovement(r)
        PROVE  m \in ExpectedMovements(B) /\ m.id \in Refund
    <2>1. m.day = r.day /\ m.id = r.id
      BY <1>5 DEF RefundMovement
    <2>2. r \in Refunded(B)
      BY <2>1 DEF KeepsCovered
    <2> QED
      BY <1>5, <2>1, <2>2 DEF ExpectedMovements, Refunded
  <1> QED
    BY <1>1, <1>2, <1>3, <1>4, <1>5 DEF ExpectedMovements

\* The payouts of the covered days.
LEMMA CoveredPayouts ==
    ASSUME NEW A, NEW B, NEW c, KeepsCovered(A, B, c), KeepsCovered(B, A, c),
           HasOneVersionEach(A), HasOneVersionEach(B),
           NEW S, DuplicateLines(A, S) = DuplicateLines(B, S),
           NEW y \in Payouts(A), y.day <= c
    PROVE  y \in Payouts(B) /\ PayoutResult(A, S, y) = PayoutResult(B, S, y)
  <1>1. y \in Payouts(B) /\ LinesOf(A, y) = LinesOf(B, y)
    BY DEF KeepsCovered
  <1>2. MovementsOn(A, y.day) = MovementsOn(B, y.day)
    BY CoveredMovements DEF MovementsOn
  <1>3. \A m \in MovementsOn(A, y.day) :
          ExpectedLineAmount(A, m) = ExpectedLineAmount(B, m)
    BY CoveredMovements DEF MovementsOn
  <1> QED
    BY <1>1, <1>2, <1>3, PayoutDependsOn

\* classify_late_data fails closed for every ledger, change and covered day: a
\* change it does not ask to reprocess leaves the movements and payouts of the
\* covered days as they were.
THEOREM LateDataCorrect == Spec => []LateDataFailsClosed
  <1>1. ASSUME NEW A, NEW B, NEW c, NEW S,
               KeepsCovered(A, B, c), KeepsCovered(B, A, c),
               HasOneVersionEach(A), HasOneVersionEach(B),
               DuplicateLines(A, S) = DuplicateLines(B, S)
        PROVE  /\ {m \in ExpectedMovements(A) : m.day <= c}
                    \subseteq {m \in ExpectedMovements(B) : m.day <= c}
               /\ {y \in PayoutResults(A, S) : y.day <= c}
                    \subseteq {y \in PayoutResults(B, S) : y.day <= c}
    <2>1. {m \in ExpectedMovements(A) : m.day <= c}
            \subseteq {m \in ExpectedMovements(B) : m.day <= c}
      BY <1>1, CoveredMovements
    <2>2. ASSUME NEW z \in PayoutResults(A, S), z.day <= c
          PROVE  z \in PayoutResults(B, S)
      <3>1. PICK y \in Payouts(A) : z = PayoutResult(A, S, y)
        BY DEF PayoutResults
      <3>2. z.day = y.day
        BY <3>1 DEF PayoutResult
      <3>3. y \in Payouts(B) /\ PayoutResult(A, S, y) = PayoutResult(B, S, y)
        BY <1>1, <2>2, <3>2, CoveredPayouts
      <3> QED
        BY <3>1, <3>3 DEF PayoutResults
    <2> QED
      BY <2>1, <2>2
  <1>2. ASSUME PlanInv, ChangeInv
        PROVE  LateDataFailsClosed
    <2> SUFFICES ASSUME phase = "planned", changed # {}, NEW c, NEW S,
                        ~RequiresReprocessing(Decision(c)),
                        DuplicateLines(before, S) = DuplicateLines(ledger, S)
                 PROVE  CoveredRows(before, S, c) = CoveredRows(ledger, S, c)
      BY DEF LateDataFailsClosed
    <2>1. CASE ledger = before
      BY <2>1
    <2>2. CASE ledger # before
      <3>1. KindOfChange \in {"NEW_FACT", "HIGHER_VERSION_CORRECTION",
                              "SAME_VERSION_CONFLICT"}
        BY <2>2 DEF KindOfChange
      <3>2. HistoricalDates(Candidate, c) = {}
        BY <3>1, HistoricalNeedsReprocessing DEF Decision
      <3>3. \A r \in changed : \A d \in ResolveRecordImpact(ledger, r) : ~(d <= c)
        BY <3>2 DEF HistoricalDates, Candidate, BuildLateDataCandidate
      <3>4. /\ before \subseteq Record /\ ledger \subseteq Record
            /\ HasOneVersionEach(before) /\ HasOneVersionEach(ledger)
            /\ (before \ ledger) \cup (ledger \ before) \subseteq changed
        BY <1>2 DEF PlanInv, PlanTypeOK, ChangeInv, DiffersInChanged
      <3>5. KeepsCovered(before, ledger, c)
        BY <3>3, <3>4, LateChangeKeepsCovered
      <3>6. KeepsCovered(ledger, before, c)
        BY <3>3, <3>4, LateChangeKeepsCovered
      <3>7. /\ {m \in ExpectedMovements(before) : m.day <= c}
                 = {m \in ExpectedMovements(ledger) : m.day <= c}
            /\ {y \in PayoutResults(before, S) : y.day <= c}
                 = {y \in PayoutResults(ledger, S) : y.day <= c}
        BY <1>1, <3>4, <3>5, <3>6
      <3> QED
        BY <3>7 DEF CoveredRows
    <2> QED
      BY <2>1, <2>2
  <1> QED
    BY <1>2, ChangeInvariant, PTL
-----------------------------------------------------------------------------
(* Results that publication accepts *)

\* The image of a finite set under a function, and its size if no two
\* elements have the same image.
LEMMA FiniteImage ==
    ASSUME NEW R, IsFiniteSet(R), NEW f, DOMAIN f = R, f = [x \in R |-> f[x]]
    PROVE  /\ IsFiniteSet({f[x] : x \in R})
           /\ (\A x, y \in R : f[x] = f[y] => x = y) =>
                HasUniqueKeys(R, {f[x] : x \in R})
  <1> DEFINE T == {f[x] : x \in R}
  <1>1. f \in Surjection(R, T)
    BY DEF Surjection
  <1>2. (\A x, y \in R : f[x] = f[y] => x = y) => f \in Injection(R, T)
    BY DEF Injection, IsInjective
  <1> QED
    BY <1>1, <1>2, FS_Surjection DEF HasUniqueKeys

\* A RECONCILED row has its reports, and nothing blocks it.
LEMMA ReconciledState ==
    ASSUME NEW S \in ReportStates, NEW required \in SUBSET ReportType,
           NEW blocking \in BOOLEAN,
           ResultState(S, required, blocking) = "RECONCILED"
    PROVE  ReportsComplete(S, required) /\ ~blocking
  <1> DEFINE states == {S[t] : t \in required}
  <1>1. \A t \in required : S[t] \in {"PENDING", "INCOMPLETE", "COMPLETE"}
    BY ReportAssumption
  <1>2. states \subseteq {"PENDING", "INCOMPLETE", "COMPLETE"}
    BY <1>1
  <1>3. CASE "INCOMPLETE" \in states
    <2>1. ResultState(S, required, blocking) = "INCOMPLETE"
      BY <1>3, Zenon DEF ResultState
    <2> QED
      BY <2>1
  <1>4. CASE "INCOMPLETE" \notin states /\ "PENDING" \in states
    <2>1. ResultState(S, required, blocking) = "PENDING"
      BY <1>4, Zenon DEF ResultState
    <2> QED
      BY <2>1
  <1>5. CASE "INCOMPLETE" \notin states /\ "PENDING" \notin states
    <2>1. states \subseteq {"COMPLETE"}
      BY <1>2, <1>5
    <2>2. ResultState(S, required, blocking)
            = IF blocking THEN "EXCEPTION" ELSE "RECONCILED"
      BY <1>5, <2>1, Zenon DEF ResultState
    <2>3. ReportsComplete(S, required)
      BY <2>1 DEF ReportsComplete
    <2> QED
      BY <2>2, <2>3
  <1> QED
    BY <1>3, <1>4, <1>5

\* The same for the rows of reconcile.
LEMMA ReconciledTransaction ==
    ASSUME NEW L, NEW S \in ReportStates, NEW o,
           Transaction(L, S, o).state = "RECONCILED"
    PROVE  /\ ReportsComplete(S, TransactionRequiredReports)
           /\ TransactionCodes(L, S, o) = {}
  <1> DEFINE blocking == TransactionCodes(L, S, o) # {}
  <1>1. Transaction(L, S, o).state = ResultState(S, TransactionRequiredReports, blocking)
    BY DEF Transaction
  <1>2. TransactionRequiredReports \in SUBSET ReportType
    BY DEF TransactionRequiredReports, ReportType
  <1>3. blocking \in BOOLEAN
    OBVIOUS
  <1>4. ReportsComplete(S, TransactionRequiredReports) /\ ~blocking
    <2> HIDE DEF blocking
    <2> QED BY <1>1, <1>2, <1>3, ReconciledState
  <1> QED
    BY <1>4

LEMMA ReconciledPayout ==
    ASSUME NEW L, NEW S \in ReportStates, NEW y,
           PayoutResult(L, S, y).state = "RECONCILED"
    PROVE  /\ ReportsComplete(S, PayoutRequiredReports)
           /\ PayoutCodes(L, S, y) = {}
           /\ y.amount = Total(MovementsOn(L, y.day))
           /\ y.amount = Total(LinesOf(L, y))
  <1> DEFINE blocking == PayoutIsBlocked(L, S, y)
  <1>1. PayoutResult(L, S, y).state = ResultState(S, PayoutRequiredReports, blocking)
    BY DEF PayoutResult
  <1>2. PayoutRequiredReports \in SUBSET ReportType
    BY DEF PayoutRequiredReports, ReportType
  <1>3. blocking \in BOOLEAN
    BY Zenon DEF PayoutIsBlocked
  <1>4. ReportsComplete(S, PayoutRequiredReports) /\ ~blocking
    <2> HIDE DEF blocking
    <2> QED BY <1>1, <1>2, <1>3, ReconciledState
  <1>5. PayoutCodes(L, S, y) = {} /\ y.amount = Total(MovementsOn(L, y.day))
    BY <1>4 DEF PayoutIsBlocked
  <1>6. ~HasTotalMismatch(L, S, y)
    BY <1>5 DEF PayoutCodes
  <1>7. y.amount = Total(LinesOf(L, y))
    BY <1>4, <1>6 DEF HasTotalMismatch, ReportsComplete, PayoutRequiredReports
  <1> QED
    BY <1>4, <1>5, <1>7

\* What the rows of a result are keyed by.
LEMMA ResultKeys ==
    ASSUME NEW L, IsFiniteSet(L), HasOneVersionEach(L), NEW S
    PROVE  /\ LET T == Transactions(L, S)
              IN  IsFiniteSet(T) /\ \A t, u \in T : t.order = u.order => t = u
           /\ LET Y == PayoutResults(L, S)
              IN  IsFiniteSet(Y) /\ \A y, z \in Y : y.payout = z.payout => y = z
  <1>1. IsFiniteSet(Orders(L)) /\ IsFiniteSet(Payouts(L))
    BY FS_Subset DEF Orders, Payouts
  <1>2. IsFiniteSet(Transactions(L, S))
    <2> DEFINE f == [o \in Orders(L) |-> Transaction(L, S, o)]
    <2>1. Transactions(L, S) = {f[o] : o \in Orders(L)}
      BY DEF Transactions
    <2>2. DOMAIN f = Orders(L) /\ f = [o \in Orders(L) |-> f[o]]
      OBVIOUS
    <2> HIDE DEF f
    <2> QED BY <1>1, <2>1, <2>2, FiniteImage
  <1>3. IsFiniteSet(PayoutResults(L, S))
    <2> DEFINE f == [y \in Payouts(L) |-> PayoutResult(L, S, y)]
    <2>1. PayoutResults(L, S) = {f[y] : y \in Payouts(L)}
      BY DEF PayoutResults
    <2>2. DOMAIN f = Payouts(L) /\ f = [y \in Payouts(L) |-> f[y]]
      OBVIOUS
    <2> HIDE DEF f
    <2> QED BY <1>1, <2>1, <2>2, FiniteImage
  <1>4. ASSUME NEW t \in Transactions(L, S), NEW u \in Transactions(L, S),
               t.order = u.order
        PROVE  t = u
    <2>1. PICK o \in Orders(L) : t = Transaction(L, S, o)
      BY DEF Transactions
    <2>2. PICK q \in Orders(L) : u = Transaction(L, S, q)
      BY DEF Transactions
    <2>3. t.order = o.id /\ u.order = q.id
      BY <2>1, <2>2 DEF Transaction
    <2>4. o = q
      BY <1>4, <2>3 DEF HasOneVersionEach, Orders
    <2> QED
      BY <2>1, <2>2, <2>4
  <1>5. ASSUME NEW y \in PayoutResults(L, S), NEW z \in PayoutResults(L, S),
               y.payout = z.payout
        PROVE  y = z
    <2>1. PICK o \in Payouts(L) : y = PayoutResult(L, S, o)
      BY DEF PayoutResults
    <2>2. PICK q \in Payouts(L) : z = PayoutResult(L, S, q)
      BY DEF PayoutResults
    <2>3. y.payout = o.id /\ z.payout = q.id
      BY <2>1, <2>2 DEF PayoutResult
    <2>4. o = q
      BY <1>5, <2>3 DEF HasOneVersionEach, Payouts
    <2> QED
      BY <2>1, <2>2, <2>4
  <1> QED
    BY <1>2, <1>3, <1>4, <1>5

\* The movement of an expected fee has an invented id or that of a fee.
LEMMA FeeMovementKey ==
    ASSUME NEW L, NEW p, NEW m, m = FeeMovement(L, p)
    PROVE  \/ m.id = p.id /\ m.invented = TRUE
           \/ \E f \in FeesOf(L, p) : m.id = f.id /\ m.invented = FALSE
  <1> DEFINE one == Cardinality(FeesOf(L, p)) = 1
  <1>1. m.invented = ~one
    BY Zenon DEF FeeMovement
  <1>2. CASE one
    <2>1. FeesOf(L, p) # {}
      BY <1>2, FS_EmptySet
    <2>2. m.id = (CHOOSE f \in FeesOf(L, p) : TRUE).id
      BY <1>2 DEF FeeMovement
    <2>3. m.invented = FALSE
      BY <1>1, <1>2, Zenon
    <2> QED
      BY <2>1, <2>2, <2>3, Zenon
  <1>3. CASE ~one
    <2>1. m.id = p.id
      BY <1>3 DEF FeeMovement
    <2>2. m.invented = TRUE
      BY <1>1, <1>3, Zenon
    <2> QED
      BY <2>1, <2>2, Zenon
  <1> QED
    BY <1>2, <1>3

\* Where an expected movement comes from.
LEMMA MovementSource ==
    ASSUME NEW L, NEW m \in ExpectedMovements(L)
    PROVE  \/ \E p \in Captured(L) : /\ m = CaptureMovement(p)
                                     /\ m.id = p.id /\ m.invented = FALSE
           \/ \E p \in Captured(L) : /\ m = FeeMovement(L, p)
                                     /\ m.id = p.id /\ m.invented = TRUE
           \/ \E p \in Captured(L) : \E f \in FeesOf(L, p) :
                /\ m = FeeMovement(L, p)
                /\ m.id = f.id /\ m.invented = FALSE
           \/ \E r \in Refunded(L) : /\ m = RefundMovement(r)
                                     /\ m.id = r.id /\ m.invented = FALSE
  <1>1. ASSUME NEW p \in Captured(L), m = CaptureMovement(p)
        PROVE  m.id = p.id /\ m.invented = FALSE
    BY <1>1, Zenon DEF CaptureMovement
  <1>2. ASSUME NEW r \in Refunded(L), m = RefundMovement(r)
        PROVE  m.id = r.id /\ m.invented = FALSE
    BY <1>2, Zenon DEF RefundMovement
  <1>3. ASSUME NEW p \in Captured(L), m = FeeMovement(L, p)
        PROVE  \/ m.id = p.id /\ m.invented = TRUE
               \/ \E f \in FeesOf(L, p) : m.id = f.id /\ m.invented = FALSE
    BY <1>3, FeeMovementKey
  <1>4. \/ \E p \in Captured(L) : m = CaptureMovement(p)
        \/ \E p \in Captured(L) : m = FeeMovement(L, p)
        \/ \E r \in Refunded(L) : m = RefundMovement(r)
    BY DEF ExpectedMovements
  <1> QED
    BY <1>1, <1>2, <1>3, <1>4, Zenon

\* The id and whether it is invented name one expected movement.
LEMMA MovementKeys ==
    ASSUME NEW L, HasOneVersionEach(L),
           NEW m \in ExpectedMovements(L), NEW n \in ExpectedMovements(L),
           m.id = n.id, m.invented = n.invented
    PROVE  m = n
  <1> DEFINE IsCaptureOf(x, p) == /\ x = CaptureMovement(p)
                                  /\ x.id = p.id /\ x.invented = FALSE
             IsInventedOf(x, p) == /\ x = FeeMovement(L, p)
                                   /\ x.id = p.id /\ x.invented = TRUE
             IsFeeOf(x, p, f) == /\ x = FeeMovement(L, p)
                                 /\ x.id = f.id /\ x.invented = FALSE
             IsRefundOf(x, r) == /\ x = RefundMovement(r)
                                 /\ x.id = r.id /\ x.invented = FALSE
             Source(x) == \/ \E p \in Captured(L) : IsCaptureOf(x, p)
                          \/ \E p \in Captured(L) : IsInventedOf(x, p)
                          \/ \E p \in Captured(L) : \E f \in FeesOf(L, p) :
                               IsFeeOf(x, p, f)
                          \/ \E r \in Refunded(L) : IsRefundOf(x, r)
  <1>1. Source(m) /\ Source(n)
    BY MovementSource, Zenon
  <1>2. \A p, q \in Captured(L) : p.id = q.id => p = q
    BY DEF HasOneVersionEach, Captured
  <1>3. \A p, q \in Refunded(L) : p.id = q.id => p = q
    BY DEF HasOneVersionEach, Refunded
  <1>4. \A p, q \in Captured(L) : \A f \in FeesOf(L, p), g \in FeesOf(L, q) :
          f.id = g.id => p = q
    BY <1>2 DEF HasOneVersionEach, FeesOf, Fees
  <1>5. /\ \A p \in Captured(L) : p.id \in Payment
        /\ \A p, f : f \in FeesOf(L, p) => f.id \in Fee
        /\ \A r \in Refunded(L) : r.id \in Refund
    BY DEF Captured, FeesOf, Fees, Refunded
  <1>6. /\ \A k : ~(k \in Payment /\ k \in Fee)
        /\ \A k : ~(k \in Payment /\ k \in Refund)
        /\ \A k : ~(k \in Refund /\ k \in Fee)
    BY RecordAssumption
  <1>7. ASSUME NEW p \in Captured(L), IsCaptureOf(m, p) PROVE m = n
    BY <1>1, <1>2, <1>5, <1>6, <1>7, Zenon
  <1>8. ASSUME NEW p \in Captured(L), IsInventedOf(m, p) PROVE m = n
    BY <1>1, <1>2, <1>5, <1>6, <1>8, Zenon
  <1>9. ASSUME NEW p \in Captured(L), NEW f \in FeesOf(L, p), IsFeeOf(m, p, f)
        PROVE  m = n
    BY <1>1, <1>4, <1>5, <1>6, <1>9, Zenon
  <1>10. ASSUME NEW r \in Refunded(L), IsRefundOf(m, r) PROVE m = n
    BY <1>1, <1>3, <1>5, <1>6, <1>10, Zenon
  <1> QED
    BY <1>1, <1>7, <1>8, <1>9, <1>10, Zenon

LEMMA MovementsAreFinite ==
    ASSUME NEW L, IsFiniteSet(L)
    PROVE  IsFiniteSet(ExpectedMovements(L))
  <1> DEFINE c == [p \in Captured(L) |-> CaptureMovement(p)]
             f == [p \in Captured(L) |-> FeeMovement(L, p)]
             r == [q \in Refunded(L) |-> RefundMovement(q)]
  <1>1. IsFiniteSet(Captured(L)) /\ IsFiniteSet(Refunded(L))
    BY FS_Subset DEF Captured, Refunded
  <1>2. ExpectedMovements(L) =
          ({c[p] : p \in Captured(L)} \cup {f[p] : p \in Captured(L)})
            \cup {r[q] : q \in Refunded(L)}
    BY DEF ExpectedMovements
  <1>3. /\ DOMAIN c = Captured(L) /\ c = [p \in Captured(L) |-> c[p]]
        /\ DOMAIN f = Captured(L) /\ f = [p \in Captured(L) |-> f[p]]
        /\ DOMAIN r = Refunded(L) /\ r = [q \in Refunded(L) |-> r[q]]
    OBVIOUS
  <1> HIDE DEF c, f, r
  <1>4. /\ IsFiniteSet({c[p] : p \in Captured(L)})
        /\ IsFiniteSet({f[p] : p \in Captured(L)})
        /\ IsFiniteSet({r[q] : q \in Refunded(L)})
    BY <1>1, <1>3, FiniteImage
  <1> DEFINE CM == {c[p] : p \in Captured(L)}
             FM == {f[p] : p \in Captured(L)}
             RM == {r[q] : q \in Refunded(L)}
  <1>5. IsFiniteSet(CM) /\ IsFiniteSet(FM) /\ IsFiniteSet(RM)
    BY <1>4
  <1>6. ExpectedMovements(L) = (CM \cup FM) \cup RM
    BY <1>2
  <1> HIDE DEF CM, FM, RM
  <1>7. IsFiniteSet(CM \cup FM)
    BY <1>5, FS_Union
  <1>8. IsFiniteSet((CM \cup FM) \cup RM)
    BY <1>5, <1>7, FS_Union
  <1> QED
    BY <1>6, <1>8

\* Whatever reconcile computes passes validate_for_publication and
\* validate_arithmetic, for every set of canonical records and every state of
\* the reports.
THEOREM ResultsCorrect == Spec => []ResultsArePublishable
  <1>1. ASSUME NEW L, IsFiniteSet(L), HasOneVersionEach(L), NEW S \in ReportStates
        PROVE  IsPublishable(L, S)
    <2> DEFINE T == Transactions(L, S)
               Y == PayoutResults(L, S)
               M == ExpectedMovements(L)
    <2>1. HasUniqueKeys(T, {t.order : t \in T})
      <3> DEFINE f == [t \in T |-> t.order]
      <3>1. IsFiniteSet(T) /\ \A t, u \in T : f[t] = f[u] => t = u
        BY <1>1, ResultKeys
      <3>2. DOMAIN f = T /\ f = [t \in T |-> f[t]] /\ {f[t] : t \in T} = {t.order : t \in T}
        OBVIOUS
      <3> HIDE DEF f, T
      <3>3. HasUniqueKeys(T, {f[t] : t \in T})
        BY <3>1, <3>2, FiniteImage
      <3> QED
        BY <3>2, <3>3
    <2>2. HasUniqueKeys(Y, {y.payout : y \in Y})
      <3> DEFINE f == [y \in Y |-> y.payout]
      <3>1. IsFiniteSet(Y) /\ \A y, z \in Y : f[y] = f[z] => y = z
        BY <1>1, ResultKeys
      <3>2. DOMAIN f = Y /\ f = [y \in Y |-> f[y]] /\ {f[y] : y \in Y} = {y.payout : y \in Y}
        OBVIOUS
      <3> HIDE DEF f, Y
      <3>3. HasUniqueKeys(Y, {f[y] : y \in Y})
        BY <3>1, <3>2, FiniteImage
      <3> QED
        BY <3>2, <3>3
    <2>3. HasUniqueKeys(M, {<<m.id, m.invented>> : m \in M})
      <3> DEFINE f == [m \in M |-> <<m.id, m.invented>>]
      <3>1. IsFiniteSet(M) /\ \A m, n \in M : f[m] = f[n] => m = n
        BY <1>1, MovementsAreFinite, MovementKeys
      <3>2. /\ DOMAIN f = M /\ f = [m \in M |-> f[m]]
            /\ {f[m] : m \in M} = {<<m.id, m.invented>> : m \in M}
        OBVIOUS
      <3> HIDE DEF f, M
      <3>3. HasUniqueKeys(M, {f[m] : m \in M})
        BY <3>1, <3>2, FiniteImage
      <3> QED
        BY <3>2, <3>3
    <2>4. ASSUME NEW t \in T
          PROVE  /\ t.net = t.captured - t.refunded - t.expectedFee
                 /\ t.state = "RECONCILED" => t.codes = {}
      <3>1. PICK o \in Orders(L) : t = Transaction(L, S, o)
        BY DEF Transactions
      <3>2. t.net = t.captured - t.refunded - t.expectedFee
        BY <3>1 DEF Transaction
      <3>3. t.codes = TransactionCodes(L, S, o)
        BY <3>1 DEF Transaction
      <3> QED
        BY <1>1, <3>1, <3>2, <3>3, ReconciledTransaction
    <2>5. ASSUME NEW y \in Y, y.state = "RECONCILED"
          PROVE  y.codes = {} /\ y.net = y.lineTotal /\ y.net = y.expected
      <3>1. PICK z \in Payouts(L) : y = PayoutResult(L, S, z)
        BY DEF PayoutResults
      <3>2. /\ y.codes = PayoutCodes(L, S, z) /\ y.net = z.amount
            /\ y.lineTotal = Total(LinesOf(L, z))
            /\ y.expected = Total(MovementsOn(L, z.day))
        BY <3>1 DEF PayoutResult
      <3> QED
        BY <1>1, <2>5, <3>1, <3>2, ReconciledPayout
    <2> HIDE DEF T, Y, M
    <2>6. /\ HasUniqueKeys(T, {t.order : t \in T})
          /\ HasUniqueKeys(Y, {y.payout : y \in Y})
          /\ HasUniqueKeys(M, {<<m.id, m.invented>> : m \in M})
          /\ \A t \in T :
               /\ t.net = t.captured - t.refunded - t.expectedFee
               /\ t.state = "RECONCILED" => t.codes = {}
          /\ \A y \in Y : y.state = "RECONCILED" =>
               y.codes = {} /\ y.net = y.lineTotal /\ y.net = y.expected
      BY <2>1, <2>2, <2>3, <2>4, <2>5
    <2> QED
      BY <2>6, Zenon DEF IsPublishable, T, Y, M
  <1>2. ASSUME PlanInv, ChangeInv
        PROVE  ResultsArePublishable
    <2>1. IsFiniteSet(ledger) /\ HasOneVersionEach(ledger)
      BY <1>2 DEF ChangeInv
    <2>2. \A S \in ReportStates : IsPublishable(ledger, S)
      BY <1>1, <2>1
    <2> QED
      BY <2>2 DEF ResultsArePublishable
  <1> QED
    BY <1>2, ChangeInvariant, PTL
-----------------------------------------------------------------------------
(* Sums *)

Pick(s) == CHOOSE x \in s : TRUE

\* g is the function of the subsets of R that MapThenSumSet unfolds.
IsSum(g, w, R) ==
    g = [s \in SUBSET R |->
           IF s = {} THEN 0 ELSE w[Pick(s)] + g[s \ {Pick(s)}]]

\* The sum of the weights w of the elements of R.
Sigma(w, R) == (CHOOSE g : IsSum(g, w, R))[R]

LEMMA PickIsMember == \A s : s # {} => Pick(s) \in s
  BY DEF Pick

\* Induction over the subsets of a finite set: a nonempty set of them has a
\* minimal element.
LEMMA MinimalSubset ==
    ASSUME NEW R, IsFiniteSet(R), NEW C, C \subseteq SUBSET R, C # {}
    PROVE  \E s \in C : \A t \in C : ~(t \subseteq s /\ t # s)
  <1>1. FiniteSubsetsOf(R) = SUBSET R
    BY FS_FiniteSubsetsOfFinite
  <1>2. IsWellFoundedOn(StrictSubsetOrdering(R), SUBSET R)
    BY <1>1, FS_StrictSubsetOrderingWellFounded
  <1>3. PICK s \in C : \A t \in C : ~(<<t, s>> \in StrictSubsetOrdering(R))
    BY <1>2, WFMin
  <1> QED
    BY <1>3 DEF StrictSubsetOrdering

LEMMA SumValue ==
    ASSUME NEW g, NEW w, NEW R, IsSum(g, w, R), NEW s \in SUBSET R
    PROVE  g[s] = IF s = {} THEN 0 ELSE w[Pick(s)] + g[s \ {Pick(s)}]
  BY DEF IsSum

LEMMA SumIsUnique ==
    ASSUME NEW R, IsFiniteSet(R), NEW w, NEW g, NEW h,
           IsSum(g, w, R), IsSum(h, w, R)
    PROVE  g = h
  <1> DEFINE C == {s \in SUBSET R : g[s] # h[s]}
  <1>1. C = {}
    <2> SUFFICES ASSUME C # {} PROVE FALSE
      OBVIOUS
    <2>1. PICK s \in C : \A t \in C : ~(t \subseteq s /\ t # s)
      <3>1. C \subseteq SUBSET R
        OBVIOUS
      <3> HIDE DEF C
      <3> QED
        BY <3>1, MinimalSubset
    <2>2. CASE s = {}
      BY <2>1, <2>2, SumValue
    <2>3. CASE s # {}
      <3>1. s \ {Pick(s)} \in SUBSET R /\ s \ {Pick(s)} \notin C
        BY <2>1, <2>3, PickIsMember
      <3>2. g[s \ {Pick(s)}] = h[s \ {Pick(s)}]
        BY <3>1
      <3> QED
        BY <2>1, <2>3, <3>2, SumValue
    <2> QED
      BY <2>2, <2>3
  <1>2. /\ g = [s \in SUBSET R |-> g[s]]
        /\ h = [s \in SUBSET R |-> h[s]]
    BY DEF IsSum
  <1>3. \A s \in SUBSET R : g[s] = h[s]
    BY <1>1
  <1> QED
    BY <1>2, <1>3

LEMMA SumOfSubset ==
    ASSUME NEW g, NEW w, NEW R, IsSum(g, w, R), NEW T \in SUBSET R
    PROVE  IsSum([s \in SUBSET T |-> g[s]], w, T)
  <1> DEFINE h == [s \in SUBSET T |-> g[s]]
  <1>1. ASSUME NEW s \in SUBSET T
        PROVE  h[s] = IF s = {} THEN 0 ELSE w[Pick(s)] + h[s \ {Pick(s)}]
    <2>1. h[s] = g[s] /\ h[s \ {Pick(s)}] = g[s \ {Pick(s)}]
      OBVIOUS
    <2>2. g[s] = IF s = {} THEN 0 ELSE w[Pick(s)] + g[s \ {Pick(s)}]
      BY SumValue
    <2> QED
      BY <2>1, <2>2
  <1>2. h = [s \in SUBSET T |-> h[s]]
    OBVIOUS
  <1> HIDE DEF h
  <1>3. h = [s \in SUBSET T |->
               IF s = {} THEN 0 ELSE w[Pick(s)] + h[s \ {Pick(s)}]]
    BY <1>1, <1>2
  <1>4. IsSum(h, w, T)
    BY <1>3 DEF IsSum
  <1> QED
    BY <1>4 DEF h

LEMMA SigmaIsSum ==
    ASSUME NEW R, IsFiniteSet(R), NEW w, NEW g, IsSum(g, w, R),
           NEW T \in SUBSET R
    PROVE  Sigma(w, T) = g[T]
  <1> DEFINE h == [s \in SUBSET T |-> g[s]]
             c == CHOOSE f : IsSum(f, w, T)
  <1>1. IsSum(h, w, T)
    BY SumOfSubset
  <1>2. h[T] = g[T]
    OBVIOUS
  <1> HIDE DEF h
  <1>3. IsSum(c, w, T)
    BY <1>1
  <1>4. IsFiniteSet(T)
    BY FS_Subset
  <1>5. c = h
    BY <1>1, <1>3, <1>4, SumIsUnique
  <1> QED
    BY <1>2, <1>5 DEF Sigma

LEMMA SumExists ==
    ASSUME NEW R, IsFiniteSet(R), NEW w
    PROVE  \E g : IsSum(g, w, R)
  <1> DEFINE C == {T \in SUBSET R : ~ \E g : IsSum(g, w, T)}
  <1> SUFFICES ASSUME C # {} PROVE FALSE
    OBVIOUS
  <1>1. PICK T \in C : \A U \in C : ~(U \subseteq T /\ U # T)
    <2>1. C \subseteq SUBSET R
      OBVIOUS
    <2> HIDE DEF C
    <2> QED
      BY <2>1, MinimalSubset
  <1>2. \A U \in SUBSET T : U # T => \E g : IsSum(g, w, U)
    BY <1>1
  <1>3. IsFiniteSet(T)
    BY <1>1, FS_Subset
  <1> DEFINE h == [s \in SUBSET T |->
                     IF s = {} THEN 0
                     ELSE w[Pick(s)] + Sigma(w, s \ {Pick(s)})]
  <1>4. ASSUME NEW U \in SUBSET T, U # T
        PROVE  h[U] = Sigma(w, U)
    <2>1. PICK g : IsSum(g, w, U)
      BY <1>2, <1>4
    <2>2. IsFiniteSet(U)
      BY <1>3, FS_Subset
    <2>3. Sigma(w, U) = g[U]
      BY <2>1, <2>2, SigmaIsSum
    <2>4. U # {} => Sigma(w, U \ {Pick(U)}) = g[U \ {Pick(U)}]
      BY <2>1, <2>2, SigmaIsSum
    <2>5. g[U] = IF U = {} THEN 0 ELSE w[Pick(U)] + g[U \ {Pick(U)}]
      BY <2>1, SumValue
    <2> QED
      BY <2>3, <2>4, <2>5
  <1>5. ASSUME NEW s \in SUBSET T, s # {}
        PROVE  h[s \ {Pick(s)}] = Sigma(w, s \ {Pick(s)})
    <2>1. s \ {Pick(s)} \in SUBSET T /\ s \ {Pick(s)} # T
      BY <1>5, PickIsMember
    <2> HIDE DEF h
    <2> QED
      BY <1>4, <2>1
  <1>6. h = [s \in SUBSET T |->
               IF s = {} THEN 0 ELSE w[Pick(s)] + h[s \ {Pick(s)}]]
    <2>1. h = [s \in SUBSET T |-> h[s]]
      OBVIOUS
    <2>2. \A s \in SUBSET T :
            h[s] = IF s = {} THEN 0 ELSE w[Pick(s)] + Sigma(w, s \ {Pick(s)})
      OBVIOUS
    <2> HIDE DEF h
    <2>3. \A s \in SUBSET T :
            h[s] = IF s = {} THEN 0 ELSE w[Pick(s)] + h[s \ {Pick(s)}]
      BY <1>5, <2>2
    <2> QED
      BY <2>1, <2>3
  <1> HIDE DEF h
  <1>7. IsSum(h, w, T)
    BY <1>6 DEF IsSum
  <1> QED
    BY <1>1, <1>7

\* The laws of sums: of nothing, and of a set with and without an element.
LEMMA SigmaEmpty ==
    ASSUME NEW w
    PROVE  Sigma(w, {}) = 0
  <1>1. IsFiniteSet({}) /\ {} \in SUBSET {}
    BY FS_EmptySet
  <1>2. PICK g : IsSum(g, w, {})
    BY <1>1, SumExists
  <1>3. Sigma(w, {}) = g[{}]
    BY <1>1, <1>2, SigmaIsSum
  <1> QED
    BY <1>2, <1>3, SumValue

LEMMA SigmaType ==
    ASSUME NEW R, IsFiniteSet(R), NEW w, \A x \in R : w[x] \in Int
    PROVE  Sigma(w, R) \in Int
  <1>1. PICK g : IsSum(g, w, R)
    BY SumExists
  <1> DEFINE C == {s \in SUBSET R : g[s] \notin Int}
  <1>2. C = {}
    <2> SUFFICES ASSUME C # {} PROVE FALSE
      OBVIOUS
    <2>1. PICK s \in C : \A t \in C : ~(t \subseteq s /\ t # s)
      <3>1. C \subseteq SUBSET R
        OBVIOUS
      <3> HIDE DEF C
      <3> QED
        BY <3>1, MinimalSubset
    <2>2. s # {} /\ g[s] = w[Pick(s)] + g[s \ {Pick(s)}]
      <3>1. s \in SUBSET R /\ g[s] \notin Int
        BY <2>1
      <3>2. g[s] = IF s = {} THEN 0 ELSE w[Pick(s)] + g[s \ {Pick(s)}]
        BY <1>1, <3>1, SumValue
      <3> QED
        BY <3>1, <3>2
    <2>3. Pick(s) \in s /\ s \ {Pick(s)} \in SUBSET R /\ s \ {Pick(s)} \notin C
      BY <2>1, <2>2, PickIsMember
    <2>4. g[s \ {Pick(s)}] \in Int /\ w[Pick(s)] \in Int
      BY <2>1, <2>3
    <2> QED
      BY <2>1, <2>2, <2>4
  <1> QED
    BY <1>1, <1>2, SigmaIsSum

LEMMA SigmaRemove ==
    ASSUME NEW R, IsFiniteSet(R), NEW w, \A x \in R : w[x] \in Int,
           NEW y \in R
    PROVE  Sigma(w, R) = w[y] + Sigma(w, R \ {y})
  <1>1. PICK g : IsSum(g, w, R)
    BY SumExists
  <1>2. \A s \in SUBSET R : Sigma(w, s) = g[s]
    BY <1>1, SigmaIsSum
  <1>3. \A s \in SUBSET R : g[s] \in Int
    BY <1>2, SigmaType, FS_Subset
  <1> DEFINE C == {s \in SUBSET R : \E x \in s : g[s] # w[x] + g[s \ {x}]}
  <1>4. C = {}
    <2> SUFFICES ASSUME C # {} PROVE FALSE
      OBVIOUS
    <2>1. PICK s \in C : \A t \in C : ~(t \subseteq s /\ t # s)
      <3>1. C \subseteq SUBSET R
        OBVIOUS
      <3> HIDE DEF C
      <3> QED
        BY <3>1, MinimalSubset
    <2>2. PICK x \in s : g[s] # w[x] + g[s \ {x}]
      BY <2>1
    <2> DEFINE p == Pick(s)
               u == s \ {p, x}
    <2>3. p \in s
      BY <2>2, PickIsMember
    <2> HIDE DEF p
    <2>4. g[s] = w[p] + g[s \ {p}]
      BY <1>1, <2>1, <2>2, SumValue DEF p
    <2>5. p # x
      BY <2>2, <2>4
    <2>6. /\ s \ {p} \in SUBSET R /\ s \ {p} \notin C /\ x \in s \ {p}
          /\ s \ {x} \in SUBSET R /\ s \ {x} \notin C /\ p \in s \ {x}
      BY <2>1, <2>2, <2>3, <2>5
    <2>7. (s \ {p}) \ {x} = u /\ (s \ {x}) \ {p} = u /\ u \in SUBSET R
      BY <2>1
    <2>8. g[s \ {p}] = w[x] + g[u] /\ g[s \ {x}] = w[p] + g[u]
      BY <2>6, <2>7
    <2>9. w[x] \in Int /\ w[p] \in Int /\ g[u] \in Int
      BY <1>3, <2>1, <2>2, <2>3, <2>7
    <2> QED
      BY <2>2, <2>4, <2>8, <2>9
  <1>5. R \in SUBSET R /\ R \ {y} \in SUBSET R
    OBVIOUS
  <1>6. g[R] = w[y] + g[R \ {y}]
    BY <1>4, <1>5
  <1> QED
    BY <1>2, <1>5, <1>6

LEMMA SigmaSingleton ==
    ASSUME NEW w, NEW x, w[x] \in Int
    PROVE  Sigma(w, {x}) = w[x]
  <1>1. IsFiniteSet({x}) /\ {x} \ {x} = {}
    BY FS_Singleton
  <1>2. Sigma(w, {x}) = w[x] + Sigma(w, {})
    BY <1>1, SigmaRemove
  <1> QED
    BY <1>2, SigmaEmpty

\* Total and ExpectedFees are sums.
LEMMA TotalIsSigma ==
    ASSUME NEW R, IsFiniteSet(R), NEW w, \A r \in R : w[r] = r.amount
    PROVE  Total(R) = Sigma(w, R)
  <1> DEFINE F(g) == [s \in SUBSET R |->
                        IF s = {} THEN 0
                        ELSE LET x == CHOOSE x \in s : TRUE
                             IN  AmountOf(x) + g[s \ {x}]]
             it == CHOOSE g : g = F(g)
  <1>1. Total(R) = it[R]
    BY DEF Total, MapThenSumSet, MapThenFoldSet
  <1>2. \A g : F(g) = [s \in SUBSET R |->
                         IF s = {} THEN 0 ELSE w[Pick(s)] + g[s \ {Pick(s)}]]
    BY PickIsMember DEF AmountOf, Pick
  <1>3. PICK h : IsSum(h, w, R)
    BY SumExists
  <1>4. h = F(h)
    BY <1>2, <1>3 DEF IsSum
  <1>5. it = F(it)
    <2> HIDE DEF F
    <2> QED BY <1>4
  <1>6. IsSum(it, w, R)
    BY <1>2, <1>5 DEF IsSum
  <1> QED
    BY <1>1, <1>6, SigmaIsSum

LEMMA ExpectedFeesIsSigma ==
    ASSUME NEW R, IsFiniteSet(R), NEW w, \A p \in R : w[p] = ExpectedFee(p)
    PROVE  ExpectedFees(R) = Sigma(w, R)
  <1> DEFINE F(g) == [s \in SUBSET R |->
                        IF s = {} THEN 0
                        ELSE LET x == CHOOSE x \in s : TRUE
                             IN  ExpectedFee(x) + g[s \ {x}]]
             it == CHOOSE g : g = F(g)
  <1>1. ExpectedFees(R) = it[R]
    BY DEF ExpectedFees, MapThenSumSet, MapThenFoldSet
  <1>2. \A g : F(g) = [s \in SUBSET R |->
                         IF s = {} THEN 0 ELSE w[Pick(s)] + g[s \ {Pick(s)}]]
    BY PickIsMember DEF Pick
  <1>3. PICK h : IsSum(h, w, R)
    BY SumExists
  <1>4. h = F(h)
    BY <1>2, <1>3 DEF IsSum
  <1>5. it = F(it)
    <2> HIDE DEF F
    <2> QED BY <1>4
  <1>6. IsSum(it, w, R)
    BY <1>2, <1>5 DEF IsSum
  <1> QED
    BY <1>1, <1>6, SigmaIsSum
-----------------------------------------------------------------------------
(* No false reconciliation *)

LEMMA RecordAmounts ==
    ASSUME NEW r \in Record
    PROVE  r.id \in Order \cup Payment \cup Refund \cup Fee => r.amount \in Nat
  <1>1. /\ r.id \in Order => r \in OrderRecord
        /\ r.id \in Payment => r \in PaymentRecord
        /\ r.id \in Refund => r \in RefundRecord
        /\ r.id \in Fee => r \in FeeRecord
    BY RecordOfId
  <1> QED
    BY <1>1 DEF OrderRecord, PaymentRecord, RefundRecord, FeeRecord, Cents

\* Totals of canonical records are numbers, and a single one is its total.
LEMMA TotalType ==
    ASSUME NEW R, IsFiniteSet(R), \A r \in R : r.amount \in Int
    PROVE  Total(R) \in Int
  <1> DEFINE w == [r \in R |-> r.amount]
  <1>1. \A r \in R : w[r] = r.amount /\ w[r] \in Int
    OBVIOUS
  <1> HIDE DEF w
  <1>2. Total(R) = Sigma(w, R)
    BY <1>1, TotalIsSigma
  <1> QED
    BY <1>1, <1>2, SigmaType

LEMMA TotalSingleton ==
    ASSUME NEW r, r.amount \in Int
    PROVE  Total({r}) = r.amount
  <1> DEFINE w == [x \in {r} |-> x.amount]
  <1>1. /\ \A x \in {r} : w[x] = x.amount
        /\ w[r] = r.amount /\ w[r] \in Int
    OBVIOUS
  <1> HIDE DEF w
  <1>2. IsFiniteSet({r})
    BY FS_Singleton
  <1>3. Total({r}) = Sigma(w, {r})
    BY <1>1, <1>2, TotalIsSigma
  <1> QED
    BY <1>1, <1>3, SigmaSingleton

LEMMA ExpectedFeeType ==
    ASSUME NEW p, p.amount \in Nat
    PROVE  ExpectedFee(p) \in Int
  BY DEF ExpectedFee

LEMMA ExpectedFeesSingleton ==
    ASSUME NEW p, p.amount \in Nat
    PROVE  ExpectedFees({p}) = ExpectedFee(p)
  <1> DEFINE w == [x \in {p} |-> ExpectedFee(x)]
  <1>1. /\ \A x \in {p} : w[x] = ExpectedFee(x)
        /\ w[p] = ExpectedFee(p) /\ w[p] \in Int
    BY ExpectedFeeType
  <1> HIDE DEF w
  <1>2. IsFiniteSet({p})
    BY FS_Singleton
  <1>3. ExpectedFees({p}) = Sigma(w, {p})
    BY <1>1, <1>2, ExpectedFeesIsSigma
  <1> QED
    BY <1>1, <1>3, SigmaSingleton

\* A RECONCILED order inherits no code, of itself or of its captures.
LEMMA NoCodes ==
    ASSUME NEW L, NEW S, NEW o, TransactionCodes(L, S, o) = {}
    PROVE  /\ \A p \in CapturesOf(L, o) :
                /\ p \notin NonPayableCaptures(L, S)
                /\ p \notin ExcessRefunds(L, S)
                /\ p \notin MissingFees(L, S)
                /\ p \notin MismatchedFees(L, S)
           /\ \A c \in OrderCode : o \notin OrderRules(L, S)[c]
  <1>1. \A c \in PaymentCode : \A p \in PaymentRules(L, S)[c] : p.order # o.id
    BY RuleCodes DEF TransactionCodes
  <1>2. \A c \in OrderCode : o \notin OrderRules(L, S)[c]
    BY RuleCodes DEF TransactionCodes
  <1>3. \A p \in CapturesOf(L, o) : p.order = o.id
    BY DEF CapturesOf
  <1>4. \A p \in CapturesOf(L, o) : \A c \in PaymentCode :
          p \notin PaymentRules(L, S)[c]
    BY <1>1, <1>3
  <1> QED
    BY <1>2, <1>4, RuleCodes DEF PaymentCode

\* A RECONCILED order that is PAID has one capture, of its total.
LEMMA ReconciledPaid ==
    ASSUME NEW L \in SUBSET Record, IsFiniteSet(L), NEW S, NEW o \in Orders(L),
           o.status = "PAID", TransactionCodes(L, S, o) = {},
           ReportsComplete(S, TransactionRequiredReports)
    PROVE  /\ Total(CapturesOf(L, o)) = o.amount
           /\ Cardinality(CapturesOf(L, o)) = 1
           /\ \E p : /\ CapturesOf(L, o) = {p}
                     /\ Total(RefundsOf(L, p)) <= Total({p})
                     /\ Total(FeesOf(L, p)) = ExpectedFees({p})
  <1> DEFINE C == CapturesOf(L, o)
  <1>1. ReportsComplete(S, {"orders", "payments"})
    BY DEF ReportsComplete, TransactionRequiredReports
  <1>2. /\ o \notin OrderRules(L, S)["MISSING_PAYMENT"]
        /\ o \notin OrderRules(L, S)["PAYMENT_AMOUNT_MISMATCH"]
        /\ o \notin OrderRules(L, S)["MULTIPLE_CAPTURE"]
    BY NoCodes DEF OrderCode
  <1>3. C # {} /\ Total(C) = o.amount /\ ~(Cardinality(C) > 1)
    BY <1>1, <1>2 DEF OrderRules
  <1>4. IsFiniteSet(C)
    BY FS_Subset DEF CapturesOf, Captured
  <1>5. Cardinality(C) = 1
    <2>1. Cardinality(C) \in Nat
      BY <1>4, FS_CardinalityType
    <2>2. Cardinality(C) # 0
      BY <1>3, <1>4, FS_EmptySet
    <2> QED
      BY <1>3, <2>1, <2>2
  <1>6. PICK p : C = {p}
    BY <1>4, <1>5, FS_Singleton
  <1>7. p \in Captured(L) /\ p \in L /\ p.id \in Payment /\ p.amount \in Nat
    BY <1>6, RecordAmounts DEF CapturesOf, Captured
  <1>8. /\ p \notin ExcessRefunds(L, S)
        /\ p \notin MissingFees(L, S) /\ p \notin MismatchedFees(L, S)
    BY <1>6, NoCodes
  <1>9. Total({p}) = p.amount /\ ExpectedFees({p}) = ExpectedFee(p)
    BY <1>7, TotalSingleton, ExpectedFeesSingleton
  <1>10. Total(RefundsOf(L, p)) <= Total({p})
    <2>1. ~(Total(RefundsOf(L, p)) > p.amount)
      BY <1>7, <1>8 DEF ExcessRefunds, ReportsComplete, TransactionRequiredReports
    <2>2. IsFiniteSet(RefundsOf(L, p))
      BY FS_Subset DEF RefundsOf, Refunded
    <2>3. \A r \in RefundsOf(L, p) : r.amount \in Int
      BY RecordAmounts DEF RefundsOf, Refunded
    <2>4. Total(RefundsOf(L, p)) \in Int
      BY <2>2, <2>3, TotalType
    <2> QED
      BY <1>7, <1>9, <2>1, <2>4
  <1>11. Total(FeesOf(L, p)) = ExpectedFees({p})
    BY <1>7, <1>8, <1>9 DEF MissingFees, MismatchedFees, ReportsComplete,
      TransactionRequiredReports
  <1> QED
    BY <1>3, <1>5, <1>6, <1>10, <1>11

LEMMA ReconciledOrder ==
    ASSUME NEW L \in SUBSET Record, IsFiniteSet(L), NEW S \in ReportStates,
           NEW t \in Transactions(L, S), t.state = "RECONCILED"
    PROVE  /\ ReportsComplete(S, TransactionRequiredReports)
           /\ t.status = "PAID" =>
                /\ t.variance = 0
                /\ t.captures = 1
                /\ t.refunded <= t.captured
                /\ t.reportedFee = t.expectedFee
           /\ t.status = "CANCELLED" => t.captures = 0
  <1>1. PICK o \in Orders(L) : t = Transaction(L, S, o)
    BY DEF Transactions
  <1> DEFINE C == CapturesOf(L, o)
  <1>2. /\ t.status = o.status
        /\ t.captured = Total(C)
        /\ t.variance = Total(C) - (IF o.status = "PAID" THEN o.amount ELSE 0)
        /\ t.refunded = Total(UNION {RefundsOf(L, p) : p \in C})
        /\ t.expectedFee = ExpectedFees(C)
        /\ t.reportedFee = Total(UNION {FeesOf(L, p) : p \in C})
        /\ t.captures = Cardinality(C)
    BY <1>1 DEF Transaction
  <1>3. /\ ReportsComplete(S, TransactionRequiredReports)
        /\ TransactionCodes(L, S, o) = {}
    BY <1>1, ReconciledTransaction
  <1>4. CASE t.status = "PAID"
    <2>1. /\ Total(C) = o.amount
          /\ Cardinality(C) = 1
          /\ \E p : /\ C = {p}
                    /\ Total(RefundsOf(L, p)) <= Total({p})
                    /\ Total(FeesOf(L, p)) = ExpectedFees({p})
      BY <1>2, <1>3, <1>4, ReconciledPaid
    <2>2. PICK p : /\ C = {p}
                   /\ Total(RefundsOf(L, p)) <= Total({p})
                   /\ Total(FeesOf(L, p)) = ExpectedFees({p})
      BY <2>1
    <2> HIDE DEF C
    <2>3. /\ UNION {RefundsOf(L, q) : q \in C} = RefundsOf(L, p)
          /\ UNION {FeesOf(L, q) : q \in C} = FeesOf(L, p)
      BY <2>2
    <2>4. t.refunded <= t.captured /\ t.reportedFee = t.expectedFee
      BY <1>2, <2>2, <2>3
    <2>5. o.amount \in Nat
      BY RecordAmounts DEF Orders
    <2>6. t.variance = 0 /\ t.captures = 1
      BY <1>2, <1>4, <2>1, <2>5
    <2> QED
      BY <1>3, <1>4, <2>4, <2>6
  <1>5. CASE t.status = "CANCELLED"
    <2>1. ReportsComplete(S, {"orders", "payments"})
      BY <1>3 DEF ReportsComplete, TransactionRequiredReports
    <2>2. ASSUME NEW p \in C PROVE FALSE
      <3>1. p \in NonPayableCaptures(L, S)
        BY <1>2, <1>5, <2>1, <2>2 DEF NonPayableCaptures, CapturesOf
      <3> QED
        BY <1>3, <2>2, <3>1, NoCodes
    <2>3. C = {}
      BY <2>2
    <2> QED
      BY <1>2, <1>3, <1>5, <2>3, FS_EmptySet
  <1> QED
    BY <1>3, <1>4, <1>5

\* Every expected movement of a RECONCILED payout has one line, among all.
LEMMA ReconciledMovements ==
    ASSUME NEW L, NEW S \in ReportStates, NEW z,
           PayoutResult(L, S, z).state = "RECONCILED",
           NEW m \in MovementsOn(L, z.day)
    PROVE  Cardinality(LinesFor(Lines(L), m)) = 1
  <1>1. /\ ReportsComplete(S, PayoutRequiredReports)
        /\ PayoutCodes(L, S, z) = {}
    BY ReconciledPayout
  <1>2. /\ UnsettledMovements(L, S, z) = {}
        /\ LinesOf(L, z) \cap DuplicateLines(L, S) = {}
    BY <1>1 DEF PayoutCodes
  <1>3. MovementComparisonComplete(S) /\ ReportsComplete(S, {"settlement_lines"})
    BY <1>1 DEF MovementComparisonComplete, ReportsComplete, PayoutRequiredReports
  <1>4. PICK l : l \in LinesFor(LinesOf(L, z), m)
    BY <1>2, <1>3 DEF UnsettledMovements
  <1>5. l \in LinesOf(L, z) /\ l \in Lines(L) /\ l \in LinesFor(Lines(L), m)
    BY <1>4 DEF LinesFor, LinesOf
  <1>6. \A k \in LinesFor(Lines(L), m) : k = l
    BY <1>2, <1>3, <1>5 DEF DuplicateLines, LinesFor
  <1>7. LinesFor(Lines(L), m) = {l}
    BY <1>5, <1>6
  <1> QED
    BY <1>7, FS_Singleton

\* No false reconciliation, for every set of canonical records and every state
\* of the reports: a RECONCILED order has its reports and exactly the money it
\* should have, a RECONCILED payout pays the expected movements of its day,
\* one line each.
THEOREM ReconciliationCorrect == Spec => []NoFalseReconciliation
  <1>1. ASSUME NEW L \in SUBSET Record, IsFiniteSet(L), NEW S \in ReportStates,
               NEW y \in PayoutResults(L, S), y.state = "RECONCILED"
        PROVE  /\ ReportsComplete(S, PayoutRequiredReports)
               /\ y.net = y.lineTotal
               /\ y.net = y.expected
               /\ \A m \in MovementsOn(L, y.day) :
                    Cardinality(LinesFor(Lines(L), m)) = 1
    <2>1. PICK z \in Payouts(L) : y = PayoutResult(L, S, z)
      BY <1>1 DEF PayoutResults
    <2>2. /\ y.net = z.amount /\ y.day = z.day
          /\ y.lineTotal = Total(LinesOf(L, z))
          /\ y.expected = Total(MovementsOn(L, z.day))
      BY <2>1 DEF PayoutResult
    <2>3. /\ ReportsComplete(S, PayoutRequiredReports)
          /\ z.amount = Total(MovementsOn(L, z.day))
          /\ z.amount = Total(LinesOf(L, z))
      BY <1>1, <2>1, ReconciledPayout
    <2>4. \A m \in MovementsOn(L, z.day) :
            Cardinality(LinesFor(Lines(L), m)) = 1
      BY <1>1, <2>1, ReconciledMovements
    <2> QED
      BY <2>2, <2>3, <2>4
  <1>2. ASSUME PlanInv, ChangeInv
        PROVE  NoFalseReconciliation
    <2>1. ledger \in SUBSET Record /\ IsFiniteSet(ledger)
      BY <1>2 DEF PlanInv, PlanTypeOK, ChangeInv
    <2> SUFFICES ASSUME NEW S \in ReportStates
                 PROVE  /\ \A t \in Transactions(ledger, S) : t.state = "RECONCILED" =>
                             /\ ReportsComplete(S, TransactionRequiredReports)
                             /\ t.status = "PAID" =>
                                  /\ t.variance = 0
                                  /\ t.captures = 1
                                  /\ t.refunded <= t.captured
                                  /\ t.reportedFee = t.expectedFee
                             /\ t.status = "CANCELLED" => t.captures = 0
                        /\ \A y \in PayoutResults(ledger, S) : y.state = "RECONCILED" =>
                             /\ ReportsComplete(S, PayoutRequiredReports)
                             /\ y.net = y.lineTotal
                             /\ y.net = y.expected
                             /\ \A m \in MovementsOn(ledger, y.day) :
                                  Cardinality(LinesFor(Lines(ledger), m)) = 1
      BY DEF NoFalseReconciliation
    <2> QED
      BY <1>1, <2>1, ReconciledOrder
  <1> QED
    BY <1>2, ChangeInvariant, PTL
-----------------------------------------------------------------------------
(* Sums over unions and families *)

LEMMA SigmaCongruence ==
    ASSUME NEW R, IsFiniteSet(R), NEW w, NEW v, \A x \in R : w[x] = v[x]
    PROVE  Sigma(w, R) = Sigma(v, R)
  <1>1. PICK g : IsSum(g, w, R)
    BY SumExists
  <1>2. \A s \in SUBSET R : s # {} => w[Pick(s)] = v[Pick(s)]
    BY PickIsMember
  <1>3. [s \in SUBSET R |-> IF s = {} THEN 0 ELSE w[Pick(s)] + g[s \ {Pick(s)}]]
          = [s \in SUBSET R |-> IF s = {} THEN 0 ELSE v[Pick(s)] + g[s \ {Pick(s)}]]
    BY <1>2
  <1>4. IsSum(g, v, R)
    BY <1>1, <1>3 DEF IsSum
  <1> QED
    BY <1>1, <1>4, SigmaIsSum

LEMMA SigmaUnion ==
    ASSUME NEW X, NEW Y, IsFiniteSet(X), IsFiniteSet(Y), X \cap Y = {},
           NEW w, \A x \in X \cup Y : w[x] \in Int
    PROVE  Sigma(w, X \cup Y) = Sigma(w, X) + Sigma(w, Y)
  <1> DEFINE C == {s \in SUBSET X :
                     Sigma(w, s \cup Y) # Sigma(w, s) + Sigma(w, Y)}
  <1>1. C = {}
    <2> SUFFICES ASSUME C # {} PROVE FALSE
      OBVIOUS
    <2>1. PICK s \in C : \A t \in C : ~(t \subseteq s /\ t # s)
      <3>1. C \subseteq SUBSET X
        OBVIOUS
      <3> HIDE DEF C
      <3> QED
        BY <3>1, MinimalSubset
    <2>2. /\ s \in SUBSET X
          /\ Sigma(w, s \cup Y) # Sigma(w, s) + Sigma(w, Y)
      BY <2>1
    <2>3. Sigma(w, Y) \in Int
      BY SigmaType
    <2>4. s # {}
      <3>1. ASSUME s = {} PROVE FALSE
        <4>1. s \cup Y = Y
          BY <3>1
        <4>2. Sigma(w, s \cup Y) = Sigma(w, Y)
          BY <4>1
        <4>3. Sigma(w, s) = 0
          BY <3>1, SigmaEmpty
        <4>4. Sigma(w, Y) = 0 + Sigma(w, Y)
          BY <2>3
        <4> QED
          BY <2>2, <4>2, <4>3, <4>4
      <3> QED
        BY <3>1
    <2>5. PICK x \in s : TRUE
      BY <2>4
    <2> DEFINE u == s \ {x}
    <2>6. u \in SUBSET X /\ u \notin C
      BY <2>1, <2>2, <2>5
    <2>7. Sigma(w, u \cup Y) = Sigma(w, u) + Sigma(w, Y)
      BY <2>6
    <2>8. (s \cup Y) \ {x} = u \cup Y /\ x \in s \cup Y
      BY <2>2, <2>5
    <2>9. IsFiniteSet(s) /\ IsFiniteSet(u)
      BY <2>2, <2>6, FS_Subset
    <2>10. IsFiniteSet(s \cup Y)
      BY <2>9, FS_Union
    <2>11. \A z \in s \cup Y : w[z] \in Int
      BY <2>2
    <2> HIDE DEF u
    <2>12. Sigma(w, s \cup Y) = w[x] + Sigma(w, u \cup Y)
      BY <2>8, <2>10, <2>11, SigmaRemove
    <2>13. Sigma(w, s) = w[x] + Sigma(w, u)
      BY <2>5, <2>9, <2>11, SigmaRemove DEF u
    <2>14. w[x] \in Int /\ Sigma(w, u) \in Int
      BY <2>5, <2>9, <2>11, SigmaType DEF u
    <2> QED
      BY <2>2, <2>3, <2>7, <2>12, <2>13, <2>14
  <1>2. X \in SUBSET X
    OBVIOUS
  <1> QED
    BY <1>1, <1>2

\* The sum over the members of a family of disjoint sets.
LEMMA SigmaFamily ==
    ASSUME NEW K, IsFiniteSet(K), NEW F, NEW R, IsFiniteSet(R),
           \A k \in K : F[k] \subseteq R,
           \A j, k \in K : j # k => F[j] \cap F[k] = {},
           NEW w, \A x \in R : w[x] \in Int,
           NEW v, \A k \in K : v[k] = Sigma(w, F[k])
    PROVE  Sigma(w, UNION {F[k] : k \in K}) = Sigma(v, K)
  <1> DEFINE All(s) == UNION {F[k] : k \in s}
             C == {s \in SUBSET K : Sigma(w, All(s)) # Sigma(v, s)}
  <1>1. C = {}
    <2> SUFFICES ASSUME C # {} PROVE FALSE
      OBVIOUS
    <2>1. PICK s \in C : \A t \in C : ~(t \subseteq s /\ t # s)
      <3>1. C \subseteq SUBSET K
        OBVIOUS
      <3> HIDE DEF C
      <3> QED
        BY <3>1, MinimalSubset
    <2>2. s \in SUBSET K /\ Sigma(w, All(s)) # Sigma(v, s)
      BY <2>1
    <2>3. s # {}
      <3>1. ASSUME s = {} PROVE FALSE
        <4>1. All(s) = {}
          BY <3>1
        <4> QED
          BY <2>2, <3>1, <4>1, SigmaEmpty
      <3> QED
        BY <3>1
    <2>4. PICK k \in s : TRUE
      BY <2>3
    <2> DEFINE u == s \ {k}
    <2>5. u \in SUBSET K /\ u \notin C
      BY <2>1, <2>2, <2>4
    <2>6. Sigma(w, All(u)) = Sigma(v, u)
      BY <2>5
    <2>7. /\ All(s) = F[k] \cup All(u)
          /\ F[k] \cap All(u) = {}
          /\ F[k] \in SUBSET R /\ All(u) \in SUBSET R
      BY <2>2, <2>4
    <2>8. IsFiniteSet(F[k]) /\ IsFiniteSet(All(u))
      BY <2>7, FS_Subset
    <2> DEFINE A == All(u)
    <2>9. \A x \in F[k] \cup A : w[x] \in Int
      BY <2>7
    <2>10. Sigma(w, F[k] \cup A) = Sigma(w, F[k]) + Sigma(w, A)
      <3>1. F[k] \cap A = {} /\ IsFiniteSet(F[k]) /\ IsFiniteSet(A)
        BY <2>7, <2>8
      <3> HIDE DEF A
      <3> QED
        BY <2>9, <3>1, SigmaUnion
    <2>11. \A j \in K : v[j] \in Int
      <3>1. ASSUME NEW j \in K PROVE v[j] \in Int
        <4>1. F[j] \in SUBSET R /\ IsFiniteSet(F[j])
          BY <3>1, FS_Subset
        <4>2. Sigma(w, F[j]) \in Int
          BY <4>1, SigmaType
        <4> QED
          BY <3>1, <4>2
      <3> QED
        BY <3>1
    <2>12. Sigma(v, s) = v[k] + Sigma(v, u)
      <3>1. IsFiniteSet(s)
        BY <2>2, FS_Subset
      <3>2. \A j \in s : v[j] \in Int
        BY <2>2, <2>11
      <3> QED
        BY <2>4, <3>1, <3>2, SigmaRemove
    <2>13. Sigma(w, All(s)) = Sigma(w, F[k]) + Sigma(w, All(u))
      BY <2>7, <2>10
    <2> HIDE DEF All
    <2> QED
      BY <2>2, <2>4, <2>6, <2>12, <2>13
  <1>2. K \in SUBSET K
    OBVIOUS
  <1> QED
    BY <1>1, <1>2

\* The sum over the image of a function that identifies no two elements.
LEMMA SigmaImage ==
    ASSUME NEW K, IsFiniteSet(K), NEW f, f = [k \in K |-> f[k]],
           \A j, k \in K : f[j] = f[k] => j = k,
           NEW w, \A k \in K : w[f[k]] \in Int,
           NEW v, \A k \in K : v[k] = w[f[k]]
    PROVE  Sigma(w, {f[k] : k \in K}) = Sigma(v, K)
  <1> DEFINE R == {f[k] : k \in K}
             F == [k \in K |-> {f[k]}]
  <1>1. IsFiniteSet(R)
    BY FiniteImage
  <1>2. \A k \in K : F[k] \subseteq R
    OBVIOUS
  <1>3. \A j, k \in K : j # k => F[j] \cap F[k] = {}
    OBVIOUS
  <1>4. \A x \in R : w[x] \in Int
    OBVIOUS
  <1>5. \A k \in K : v[k] = Sigma(w, F[k])
    BY SigmaSingleton
  <1>6. UNION {F[k] : k \in K} = R
    OBVIOUS
  <1> HIDE DEF F, R
  <1>7. Sigma(w, UNION {F[k] : k \in K}) = Sigma(v, K)
    BY <1>1, <1>2, <1>3, <1>4, <1>5, SigmaFamily
  <1>8. Sigma(w, R) = Sigma(v, K)
    BY <1>6, <1>7
  <1> QED
    BY <1>8 DEF R

\* The sum of a difference.
LEMMA SigmaDifference ==
    ASSUME NEW R, IsFiniteSet(R), NEW a, NEW b, NEW d,
           \A x \in R : a[x] \in Int /\ b[x] \in Int /\ d[x] = a[x] - b[x]
    PROVE  Sigma(d, R) = Sigma(a, R) - Sigma(b, R)
  <1> DEFINE C == {s \in SUBSET R : Sigma(d, s) # Sigma(a, s) - Sigma(b, s)}
  <1>1. C = {}
    <2> SUFFICES ASSUME C # {} PROVE FALSE
      OBVIOUS
    <2>1. PICK s \in C : \A t \in C : ~(t \subseteq s /\ t # s)
      <3>1. C \subseteq SUBSET R
        OBVIOUS
      <3> HIDE DEF C
      <3> QED
        BY <3>1, MinimalSubset
    <2>2. s \in SUBSET R /\ Sigma(d, s) # Sigma(a, s) - Sigma(b, s)
      BY <2>1
    <2>3. s # {}
      <3>1. ASSUME s = {} PROVE FALSE
        <4>1. Sigma(a, s) = 0 /\ Sigma(b, s) = 0 /\ Sigma(d, s) = 0
          BY <3>1, SigmaEmpty
        <4> QED
          BY <2>2, <4>1
      <3> QED
        BY <3>1
    <2>4. PICK x \in s : TRUE
      BY <2>3
    <2>5. s \ {x} \in SUBSET R /\ s \ {x} \notin C
      BY <2>1, <2>2, <2>4
    <2>6. Sigma(d, s \ {x}) = Sigma(a, s \ {x}) - Sigma(b, s \ {x})
      BY <2>5
    <2>7. IsFiniteSet(s) /\ IsFiniteSet(s \ {x})
      BY <2>2, <2>5, FS_Subset
    <2>8. \A z \in s : a[z] \in Int /\ b[z] \in Int /\ d[z] \in Int
      BY <2>2
    <2>9. /\ Sigma(a, s) = a[x] + Sigma(a, s \ {x})
          /\ Sigma(b, s) = b[x] + Sigma(b, s \ {x})
          /\ Sigma(d, s) = d[x] + Sigma(d, s \ {x})
      BY <2>4, <2>7, <2>8, SigmaRemove
    <2>10. Sigma(a, s \ {x}) \in Int /\ Sigma(b, s \ {x}) \in Int
      BY <2>7, <2>8, SigmaType
    <2>11. d[x] = a[x] - b[x] /\ a[x] \in Int /\ b[x] \in Int
      BY <2>2, <2>4
    <2> QED
      BY <2>2, <2>6, <2>9, <2>10, <2>11
  <1>2. R \in SUBSET R
    OBVIOUS
  <1> QED
    BY <1>1, <1>2

LEMMA SigmaNegative ==
    ASSUME NEW R, IsFiniteSet(R), NEW a, NEW d,
           \A x \in R : a[x] \in Int /\ d[x] = -a[x]
    PROVE  Sigma(d, R) = -Sigma(a, R)
  <1> DEFINE z == [x \in R |-> 0]
  <1>1. \A x \in R : z[x] \in Int /\ z[x] = a[x] - a[x] /\ d[x] = z[x] - a[x]
    OBVIOUS
  <1> HIDE DEF z
  <1>2. Sigma(z, R) = Sigma(a, R) - Sigma(a, R)
    BY <1>1, SigmaDifference
  <1>3. Sigma(d, R) = Sigma(z, R) - Sigma(a, R)
    BY <1>1, SigmaDifference
  <1>4. Sigma(a, R) \in Int
    BY SigmaType
  <1> QED
    BY <1>2, <1>3, <1>4
-----------------------------------------------------------------------------
(* Every movement is explained *)

\* What a capture is worth to its order over its lifetime.
CaptureNet(L) ==
    [p \in Captured(L) |->
        p.amount - ExpectedFee(p) - Total(RefundsOf(L, p))]

\* The captures and refunds of a ledger are finitely many, with amounts.
LEMMA LedgerAmounts ==
    ASSUME NEW L \in SUBSET Record, IsFiniteSet(L)
    PROVE  /\ IsFiniteSet(Orders(L)) /\ IsFiniteSet(Captured(L))
           /\ IsFiniteSet(Refunded(L))
           /\ \A p \in Captured(L) :
                /\ p.amount \in Int /\ ExpectedFee(p) \in Int
                /\ Total(RefundsOf(L, p)) \in Int
                /\ CaptureNet(L)[p] \in Int
                /\ CaptureNet(L)[p] =
                     p.amount - ExpectedFee(p) - Total(RefundsOf(L, p))
           /\ \A r \in Refunded(L) : r.amount \in Int
  <1>1. /\ IsFiniteSet(Orders(L)) /\ IsFiniteSet(Captured(L))
        /\ IsFiniteSet(Refunded(L))
    BY FS_Subset DEF Orders, Captured, Refunded
  <1>2. \A p \in Captured(L) : p.amount \in Nat
    BY RecordAmounts DEF Captured
  <1>3. \A p \in Captured(L) : ExpectedFee(p) \in Int
    BY <1>2, ExpectedFeeType
  <1>4. \A r \in Refunded(L) : r.amount \in Nat
    BY RecordAmounts DEF Refunded
  <1>5. ASSUME NEW p \in Captured(L) PROVE Total(RefundsOf(L, p)) \in Int
    <2>1. RefundsOf(L, p) \in SUBSET Refunded(L)
      BY DEF RefundsOf
    <2>2. IsFiniteSet(RefundsOf(L, p))
      BY <1>1, <2>1, FS_Subset
    <2>3. \A r \in RefundsOf(L, p) : r.amount \in Int
      BY <1>4, <2>1
    <2> QED
      BY <2>2, <2>3, TotalType
  <1>6. \A p \in Captured(L) :
          CaptureNet(L)[p] = p.amount - ExpectedFee(p) - Total(RefundsOf(L, p))
    BY DEF CaptureNet
  <1> QED
    BY <1>1, <1>2, <1>3, <1>4, <1>5, <1>6

\* The net of a set of captures: what they brought, less what was refunded of
\* them and their expected fees.
LEMMA NetOfCaptures ==
    ASSUME NEW L \in SUBSET Record, IsFiniteSet(L), HasOneVersionEach(L),
           NEW C \in SUBSET Captured(L)
    PROVE  LET refunds == UNION {RefundsOf(L, p) : p \in C}
           IN  /\ Sigma(CaptureNet(L), C) = Total(C) - ExpectedFees(C) - Total(refunds)
               /\ Total(C) \in Int /\ ExpectedFees(C) \in Int
               /\ Total(refunds) \in Int
               /\ IsFiniteSet(refunds) /\ refunds \subseteq Refunded(L)
  <1> DEFINE a  == [p \in C |-> p.amount]
             e  == [p \in C |-> ExpectedFee(p)]
             ae == [p \in C |-> p.amount - ExpectedFee(p)]
             q  == [p \in C |-> Total(RefundsOf(L, p))]
             F  == [p \in C |-> RefundsOf(L, p)]
             ra == [r \in Refunded(L) |-> r.amount]
             n  == CaptureNet(L)
             U  == UNION {F[p] : p \in C}
  <1>1. IsFiniteSet(C) /\ IsFiniteSet(Refunded(L))
    BY LedgerAmounts, FS_Subset
  <1>2. \A p \in C :
          /\ a[p] \in Int /\ e[p] \in Int /\ ae[p] \in Int /\ q[p] \in Int
          /\ a[p] = p.amount /\ e[p] = ExpectedFee(p)
          /\ ae[p] = a[p] - e[p] /\ n[p] = ae[p] - q[p]
          /\ q[p] = Total(F[p])
    BY LedgerAmounts
  <1>3. \A r \in Refunded(L) : ra[r] = r.amount /\ ra[r] \in Int
    BY LedgerAmounts
  <1>4. \A p \in C : F[p] \subseteq Refunded(L)
    BY DEF RefundsOf
  <1>5. \A p, s \in C : p # s => F[p] \cap F[s] = {}
    BY DEF RefundsOf, Captured, HasOneVersionEach
  <1>6. U = UNION {RefundsOf(L, p) : p \in C}
    OBVIOUS
  <1>7. U \in SUBSET Refunded(L)
    BY <1>4
  <1> HIDE DEF a, e, ae, q, F, ra, n
  <1>8. \A p \in C : q[p] = Sigma(ra, F[p])
    <2>1. ASSUME NEW p \in C PROVE q[p] = Sigma(ra, F[p])
      <3>1. IsFiniteSet(F[p])
        BY <1>1, <1>4, <2>1, FS_Subset
      <3>2. \A r \in F[p] : ra[r] = r.amount
        BY <1>3, <1>4, <2>1
      <3>3. Total(F[p]) = Sigma(ra, F[p])
        BY <3>1, <3>2, TotalIsSigma
      <3> QED
        BY <1>2, <2>1, <3>3
    <2> QED
      BY <2>1
  <1>9. Sigma(ra, U) = Sigma(q, C)
    <2> DEFINE R == Refunded(L)
    <2>1. /\ IsFiniteSet(R)
          /\ \A r \in R : ra[r] \in Int
          /\ \A p \in C : F[p] \subseteq R
      BY <1>1, <1>3, <1>4
    <2> HIDE DEF R
    <2> QED
      BY <1>1, <1>5, <1>8, <2>1, SigmaFamily
  <1> HIDE DEF U
  <1>10. IsFiniteSet(U)
    BY <1>1, <1>7, FS_Subset
  <1>11. Total(U) = Sigma(ra, U)
    BY <1>3, <1>7, <1>10, TotalIsSigma
  <1>12. Total(C) = Sigma(a, C) /\ ExpectedFees(C) = Sigma(e, C)
    BY <1>1, <1>2, TotalIsSigma, ExpectedFeesIsSigma
  <1>13. Sigma(ae, C) = Sigma(a, C) - Sigma(e, C)
    BY <1>1, <1>2, SigmaDifference
  <1>14. Sigma(n, C) = Sigma(ae, C) - Sigma(q, C)
    BY <1>1, <1>2, SigmaDifference
  <1>15. Sigma(a, C) \in Int /\ Sigma(e, C) \in Int /\ Sigma(q, C) \in Int
    BY <1>1, <1>2, SigmaType
  <1>16. /\ Sigma(n, C) = Total(C) - ExpectedFees(C) - Total(U)
         /\ Total(C) \in Int /\ ExpectedFees(C) \in Int /\ Total(U) \in Int
    BY <1>9, <1>11, <1>12, <1>13, <1>14, <1>15
  <1> QED
    BY <1>6, <1>7, <1>10, <1>16 DEF n

\* TransactionNet and OrphanNet are sums.
LEMMA TransactionNetIsSigma ==
    ASSUME NEW L, NEW S, IsFiniteSet(Transactions(L, S)), NEW w,
           \A t \in Transactions(L, S) : w[t] = t.net
    PROVE  TransactionNet(L, S) = Sigma(w, Transactions(L, S))
  <1> DEFINE R == Transactions(L, S)
             F(g) == [s \in SUBSET R |->
                        IF s = {} THEN 0
                        ELSE LET x == CHOOSE x \in s : TRUE
                             IN  NetOf(x) + g[s \ {x}]]
             it == CHOOSE g : g = F(g)
  <1>1. TransactionNet(L, S) = it[R]
    BY DEF TransactionNet, MapThenSumSet, MapThenFoldSet
  <1> HIDE DEF R
  <1>2. \A g : F(g) = [s \in SUBSET R |->
                         IF s = {} THEN 0 ELSE w[Pick(s)] + g[s \ {Pick(s)}]]
    <2>1. \A t \in R : w[t] = NetOf(t)
      BY DEF NetOf, R
    <2> QED
      BY <2>1, PickIsMember DEF Pick
  <1>3. PICK h : IsSum(h, w, R)
    BY SumExists DEF R
  <1>4. h = F(h)
    BY <1>2, <1>3 DEF IsSum
  <1>5. it = F(it)
    <2> HIDE DEF F
    <2> QED BY <1>4
  <1>6. IsSum(it, w, R)
    BY <1>2, <1>5 DEF IsSum
  <1>7. Sigma(w, R) = it[R]
    <2> HIDE DEF it
    <2> QED BY <1>6, SigmaIsSum DEF R
  <1> QED
    BY <1>1, <1>7 DEF R

LEMMA OrphanNetIsSigma ==
    ASSUME NEW L \in SUBSET Record, IsFiniteSet(L), NEW S
    PROVE  OrphanNet(L, S) = Sigma(CaptureNet(L), OrphanPayments(L, S))
  <1> DEFINE R == OrphanPayments(L, S)
             w == CaptureNet(L)
             NetOfPayment(p) == p.amount - ExpectedFee(p) - Total(RefundsOf(L, p))
             F(g) == [s \in SUBSET R |->
                        IF s = {} THEN 0
                        ELSE LET x == CHOOSE x \in s : TRUE
                             IN  NetOfPayment(x) + g[s \ {x}]]
             it == CHOOSE g : g = F(g)
  <1>1. OrphanNet(L, S) = it[R]
    BY DEF OrphanNet, MapThenSumSet, MapThenFoldSet
  <1>2. R \in SUBSET Captured(L)
    BY DEF OrphanPayments
  <1>3. IsFiniteSet(R)
    BY <1>2, LedgerAmounts, FS_Subset
  <1>4. \A p \in R : w[p] = NetOfPayment(p)
    BY <1>2, LedgerAmounts
  <1> HIDE DEF R, w, NetOfPayment
  <1>5. \A g : F(g) = [s \in SUBSET R |->
                         IF s = {} THEN 0 ELSE w[Pick(s)] + g[s \ {Pick(s)}]]
    BY <1>4, PickIsMember DEF Pick
  <1>6. PICK h : IsSum(h, w, R)
    BY <1>3, SumExists
  <1>7. h = F(h)
    BY <1>5, <1>6 DEF IsSum
  <1>8. it = F(it)
    <2> HIDE DEF F
    <2> QED BY <1>7
  <1>9. IsSum(it, w, R)
    BY <1>5, <1>8 DEF IsSum
  <1>10. Sigma(w, R) = it[R]
    <2> HIDE DEF it
    <2> QED BY <1>3, <1>9, SigmaIsSum
  <1> QED
    BY <1>1, <1>10 DEF R, w

\* The orders together are worth the captures that have an order.
LEMMA NetOfOrders ==
    ASSUME NEW L \in SUBSET Record, IsFiniteSet(L), HasOneVersionEach(L), NEW S
    PROVE  TransactionNet(L, S) =
             Sigma(CaptureNet(L), UNION {CapturesOf(L, o) : o \in Orders(L)})
  <1> DEFINE K == Orders(L)
             P == Captured(L)
             n == CaptureNet(L)
             f == [o \in K |-> Transaction(L, S, o)]
             w == [t \in Transactions(L, S) |-> t.net]
             v == [o \in K |-> Transaction(L, S, o).net]
             F == [o \in K |-> CapturesOf(L, o)]
  <1>1. IsFiniteSet(K) /\ IsFiniteSet(P) /\ \A p \in P : n[p] \in Int
    BY LedgerAmounts
  <1>2. \A o \in K : F[o] \subseteq P
    BY DEF CapturesOf
  <1>3. \A j, k \in K : j # k => F[j] \cap F[k] = {}
    BY DEF CapturesOf, Orders, HasOneVersionEach
  <1>4. ASSUME NEW o \in K
        PROVE  Transaction(L, S, o).net = Sigma(n, CapturesOf(L, o)) /\ v[o] \in Int
    <2> DEFINE C == CapturesOf(L, o)
               U == UNION {RefundsOf(L, p) : p \in C}
    <2>1. Transaction(L, S, o).net = Total(C) - Total(U) - ExpectedFees(C)
      BY DEF Transaction
    <2>2. C \in SUBSET Captured(L)
      BY DEF CapturesOf
    <2>3. /\ Sigma(n, C) = Total(C) - ExpectedFees(C) - Total(U)
          /\ Total(C) \in Int /\ ExpectedFees(C) \in Int /\ Total(U) \in Int
      BY <2>2, NetOfCaptures
    <2>4. v[o] = Transaction(L, S, o).net
      OBVIOUS
    <2> HIDE DEF C, U, n, v
    <2>5. Transaction(L, S, o).net = Sigma(n, C) /\ v[o] \in Int
      BY <2>1, <2>3, <2>4
    <2> QED
      BY <2>5 DEF C
  <1>5. \A o \in K : v[o] = Sigma(n, F[o]) /\ v[o] \in Int
    BY <1>4
  <1>6. /\ Transactions(L, S) = {f[o] : o \in K}
        /\ f = [o \in K |-> f[o]]
    BY DEF Transactions
  <1>7. \A o \in K : f[o] \in Transactions(L, S) /\ v[o] = w[f[o]]
    BY DEF Transactions
  <1>8. \A j, k \in K : f[j] = f[k] => j = k
    <2>1. \A o \in K : f[o].order = o.id
      BY DEF Transaction
    <2>2. \A j, k \in K : j.id = k.id => j = k
      BY DEF Orders, HasOneVersionEach
    <2> HIDE DEF f, K
    <2> QED
      BY <2>1, <2>2
  <1>9. \A t \in Transactions(L, S) : w[t] = t.net
    OBVIOUS
  <1>10. UNION {F[o] : o \in K} = UNION {CapturesOf(L, o) : o \in K}
    OBVIOUS
  <1> HIDE DEF K, P, n, f, w, v, F
  <1>11. IsFiniteSet(Transactions(L, S))
    BY ResultKeys
  <1>12. TransactionNet(L, S) = Sigma(w, Transactions(L, S))
    BY <1>9, <1>11, TransactionNetIsSigma
  <1>13. Sigma(w, {f[o] : o \in K}) = Sigma(v, K)
    <2>1. \A o \in K : w[f[o]] \in Int /\ v[o] = w[f[o]]
      BY <1>5, <1>7
    <2> QED
      BY <1>1, <1>6, <1>8, <2>1, SigmaImage
  <1>14. Sigma(n, UNION {F[o] : o \in K}) = Sigma(v, K)
    BY <1>1, <1>2, <1>3, <1>5, SigmaFamily
  <1> QED
    BY <1>6, <1>10, <1>12, <1>13, <1>14 DEF n, K

\* Captures belong to an order or are orphans, refunds to a capture or are.
LEMMA NetOfAll ==
    ASSUME NEW L \in SUBSET Record, IsFiniteSet(L), HasOneVersionEach(L), NEW S,
           ReportsComplete(S, TransactionRequiredReports)
    PROVE  /\ TransactionNet(L, S) + OrphanNet(L, S) - Total(OrphanRefunds(L, S)) =
                Total(Captured(L)) - ExpectedFees(Captured(L)) - Total(Refunded(L))
           /\ Total(Captured(L)) \in Int /\ ExpectedFees(Captured(L)) \in Int
           /\ Total(Refunded(L)) \in Int
  <1> DEFINE P == Captured(L)
             n == CaptureNet(L)
             X == UNION {CapturesOf(L, o) : o \in Orders(L)}
             Y == OrphanPayments(L, S)
             U == UNION {RefundsOf(L, p) : p \in P}
             Z == OrphanRefunds(L, S)
             ra == [r \in Refunded(L) |-> r.amount]
  <1>1. IsFiniteSet(P) /\ IsFiniteSet(Refunded(L)) /\ \A p \in P : n[p] \in Int
    BY LedgerAmounts
  <1>2. /\ ReportsComplete(S, {"orders", "payments"})
        /\ ReportsComplete(S, {"payments", "refunds"})
    BY DEF ReportsComplete, TransactionRequiredReports
  <1>3. X \cup Y = P /\ X \cap Y = {} /\ X \in SUBSET P /\ Y \in SUBSET P
    BY <1>2 DEF CapturesOf, OrphanPayments
  <1>4. U \cup Z = Refunded(L) /\ U \cap Z = {}
    <2>1. \A r \in Refunded(L) : r \in U <=> IsCapture(L, r.payment)
      BY DEF RefundsOf, IsCapture
    <2>2. \A r \in Refunded(L) : r \in Z <=> ~IsCapture(L, r.payment)
      BY <1>2 DEF OrphanRefunds
    <2>3. U \subseteq Refunded(L) /\ Z \subseteq Refunded(L)
      BY DEF RefundsOf, OrphanRefunds
    <2> HIDE DEF U, Z
    <2> QED
      BY <2>1, <2>2, <2>3
  <1>5. \A r \in Refunded(L) : ra[r] = r.amount /\ ra[r] \in Int
    BY LedgerAmounts
  <1>6. /\ TransactionNet(L, S) = Sigma(n, X)
        /\ OrphanNet(L, S) = Sigma(n, Y)
    BY NetOfOrders, OrphanNetIsSigma
  <1>7. /\ Sigma(n, P) = Total(P) - ExpectedFees(P) - Total(U)
        /\ Total(P) \in Int /\ ExpectedFees(P) \in Int /\ Total(U) \in Int
    <2>1. P \in SUBSET Captured(L)
      OBVIOUS
    <2> QED
      BY <2>1, NetOfCaptures
  <1> HIDE DEF P, n, X, Y, U, Z, ra
  <1>8. IsFiniteSet(X) /\ IsFiniteSet(Y)
    BY <1>1, <1>3, FS_Subset
  <1>9. Sigma(n, P) = Sigma(n, X) + Sigma(n, Y)
    BY <1>1, <1>3, <1>8, SigmaUnion
  <1>10. IsFiniteSet(U) /\ IsFiniteSet(Z)
    <2>1. U \in SUBSET Refunded(L) /\ Z \in SUBSET Refunded(L)
      BY <1>4
    <2> QED
      BY <1>1, <2>1, FS_Subset
  <1>11. /\ Total(U) = Sigma(ra, U) /\ Total(Z) = Sigma(ra, Z)
         /\ Total(Refunded(L)) = Sigma(ra, Refunded(L))
    <2>1. \A r \in U : ra[r] = r.amount
      BY <1>4, <1>5
    <2>2. \A r \in Z : ra[r] = r.amount
      BY <1>4, <1>5
    <2> QED
      BY <1>1, <1>5, <1>10, <2>1, <2>2, TotalIsSigma
  <1>12. Sigma(ra, U \cup Z) = Sigma(ra, U) + Sigma(ra, Z)
    BY <1>4, <1>5, <1>10, SigmaUnion
  <1>13. Sigma(ra, Z) \in Int
    BY <1>4, <1>5, <1>10, SigmaType
  <1>14. Total(Refunded(L)) = Total(U) + Total(Z) /\ Total(Z) \in Int
    BY <1>4, <1>11, <1>12, <1>13
  <1>15. Sigma(n, X) \in Int /\ Sigma(n, Y) \in Int
    BY <1>1, <1>3, <1>8, SigmaType
  <1>16. /\ TransactionNet(L, S) + OrphanNet(L, S) - Total(Z) =
              Total(P) - ExpectedFees(P) - Total(Refunded(L))
         /\ Total(P) \in Int /\ ExpectedFees(P) \in Int
         /\ Total(Refunded(L)) \in Int
    BY <1>6, <1>7, <1>9, <1>14, <1>15
  <1> QED
    BY <1>16 DEF P, Z

\* The expected movements of captures, of fees and of refunds are different
\* movements, one for each capture, capture and refund.
LEMMA MovementsAreDistinct ==
    ASSUME NEW L, HasOneVersionEach(L)
    PROVE  /\ \A p, q \in Captured(L) : CaptureMovement(p) # FeeMovement(L, q)
           /\ \A p \in Captured(L), r \in Refunded(L) :
                /\ CaptureMovement(p) # RefundMovement(r)
                /\ FeeMovement(L, p) # RefundMovement(r)
           /\ \A p, q \in Captured(L) :
                /\ CaptureMovement(p) = CaptureMovement(q) => p = q
                /\ FeeMovement(L, p) = FeeMovement(L, q) => p = q
           /\ \A r, s \in Refunded(L) : RefundMovement(r) = RefundMovement(s) => r = s
  <1>1. \A p : CaptureMovement(p).id = p.id /\ CaptureMovement(p).invented = FALSE
    BY Zenon DEF CaptureMovement
  <1>2. \A r : RefundMovement(r).id = r.id /\ RefundMovement(r).invented = FALSE
    BY Zenon DEF RefundMovement
  <1>3. \A p : LET m == FeeMovement(L, p)
               IN  \/ m.id = p.id /\ m.invented = TRUE
                   \/ \E f \in FeesOf(L, p) : m.id = f.id /\ m.invented = FALSE
    BY FeeMovementKey
  <1>4. /\ \A p \in Captured(L) : p.id \in Payment
        /\ \A p, f : f \in FeesOf(L, p) => f.id \in Fee
        /\ \A r \in Refunded(L) : r.id \in Refund
    BY DEF Captured, FeesOf, Fees, Refunded
  <1>5. /\ \A k : ~(k \in Payment /\ k \in Fee)
        /\ \A k : ~(k \in Payment /\ k \in Refund)
        /\ \A k : ~(k \in Refund /\ k \in Fee)
    BY RecordAssumption
  <1>6. \A p, q \in Captured(L) : p.id = q.id => p = q
    BY DEF HasOneVersionEach, Captured
  <1>7. \A r, s \in Refunded(L) : r.id = s.id => r = s
    BY DEF HasOneVersionEach, Refunded
  <1>8. \A p, q \in Captured(L) : \A f \in FeesOf(L, p), g \in FeesOf(L, q) :
          f.id = g.id => p = q
    BY <1>6 DEF HasOneVersionEach, FeesOf, Fees
  <1> DEFINE IsInvented(m, p) == m.id = p.id /\ m.invented = TRUE
             IsReported(m, p) ==
               \E f \in FeesOf(L, p) : m.id = f.id /\ m.invented = FALSE
  <1>9. ASSUME NEW p \in Captured(L), NEW q \in Captured(L)
        PROVE  CaptureMovement(p) # FeeMovement(L, q)
    BY <1>1, <1>3, <1>4, <1>5, Zenon
  <1>10. ASSUME NEW p \in Captured(L), NEW r \in Refunded(L)
         PROVE  CaptureMovement(p) # RefundMovement(r)
    BY <1>1, <1>2, <1>4, <1>5, Zenon
  <1>11. ASSUME NEW p \in Captured(L), NEW r \in Refunded(L),
                FeeMovement(L, p) = RefundMovement(r)
         PROVE  FALSE
    <2>1. RefundMovement(r).id \in Refund
      BY <1>2, <1>4
    <2>2. \/ FeeMovement(L, p).id = p.id
          \/ \E f \in FeesOf(L, p) : FeeMovement(L, p).id = f.id
      BY <1>3, Zenon
    <2> QED
      BY <1>4, <1>5, <1>11, <2>1, <2>2, Zenon
  <1>12. ASSUME NEW p \in Captured(L), NEW q \in Captured(L),
                FeeMovement(L, p) = FeeMovement(L, q)
         PROVE  p = q
    <2> DEFINE m == FeeMovement(L, p)
    <2>1. IsInvented(m, p) \/ IsReported(m, p)
      BY <1>3, Zenon
    <2>2. IsInvented(m, q) \/ IsReported(m, q)
      BY <1>3, <1>12, Zenon
    <2> HIDE DEF m
    <2>3. CASE IsInvented(m, p) /\ IsInvented(m, q)
      BY <1>6, <2>3, Zenon
    <2>4. CASE IsReported(m, p) /\ IsReported(m, q)
      BY <1>8, <2>4, Zenon
    <2>5. ~(IsInvented(m, p) /\ IsReported(m, q))
      BY Zenon
    <2>6. ~(IsReported(m, p) /\ IsInvented(m, q))
      BY Zenon
    <2> QED
      BY <2>1, <2>2, <2>3, <2>4, <2>5, <2>6, Zenon
  <1>13. ASSUME NEW p \in Captured(L), NEW q \in Captured(L),
                CaptureMovement(p) = CaptureMovement(q)
         PROVE  p = q
    <2>1. p.id = q.id
      BY <1>1, <1>13, Zenon
    <2> QED
      BY <1>6, <2>1
  <1>14. ASSUME NEW r \in Refunded(L), NEW s \in Refunded(L),
                RefundMovement(r) = RefundMovement(s)
         PROVE  r = s
    <2>1. r.id = s.id
      BY <1>2, <1>14, Zenon
    <2> QED
      BY <1>7, <2>1
  <1> QED
    BY <1>9, <1>10, <1>11, <1>12, <1>13, <1>14

\* The total of the expected movements of a ledger.
LEMMA TotalOfMovements ==
    ASSUME NEW L \in SUBSET Record, IsFiniteSet(L), HasOneVersionEach(L)
    PROVE  Total(ExpectedMovements(L)) =
             Total(Captured(L)) - ExpectedFees(Captured(L)) - Total(Refunded(L))
  <1> DEFINE P == Captured(L)
             R == Refunded(L)
             M == ExpectedMovements(L)
             w == [m \in M |-> m.amount]
             c == [p \in P |-> CaptureMovement(p)]
             f == [p \in P |-> FeeMovement(L, p)]
             r == [q \in R |-> RefundMovement(q)]
             a == [p \in P |-> p.amount]
             e == [p \in P |-> ExpectedFee(p)]
             b == [q \in R |-> q.amount]
             ne == [p \in P |-> -ExpectedFee(p)]
             nb == [q \in R |-> -q.amount]
             CM == {c[p] : p \in P}
             FM == {f[p] : p \in P}
             RM == {r[q] : q \in R}
  <1>1. IsFiniteSet(P) /\ IsFiniteSet(R) /\ IsFiniteSet(M)
    BY LedgerAmounts, MovementsAreFinite
  <1>2. /\ \A p \in P : /\ a[p] = p.amount /\ a[p] \in Int
                        /\ e[p] = ExpectedFee(p) /\ e[p] \in Int
                        /\ ne[p] = -e[p] /\ ne[p] \in Int
        /\ \A q \in R : /\ b[q] = q.amount /\ b[q] \in Int
                        /\ nb[q] = -b[q] /\ nb[q] \in Int
    BY LedgerAmounts
  <1>3. /\ \A p \in P : c[p] \in M /\ f[p] \in M
        /\ \A q \in R : r[q] \in M
    BY DEF ExpectedMovements
  <1>4. /\ \A p \in P : c[p].amount = p.amount /\ f[p].amount = -ExpectedFee(p)
        /\ \A q \in R : r[q].amount = -q.amount
    <2>1. \A p : CaptureMovement(p).amount = p.amount
      BY DEF CaptureMovement
    <2>2. \A p : FeeMovement(L, p).amount = -ExpectedFee(p)
      BY DEF FeeMovement
    <2>3. \A q : RefundMovement(q).amount = -q.amount
      BY DEF RefundMovement
    <2> QED
      BY <2>1, <2>2, <2>3
  <1>5. M = (CM \cup FM) \cup RM
    BY DEF ExpectedMovements
  <1>6. /\ \A p, q \in P : c[p] # f[q]
        /\ \A p \in P, q \in R : c[p] # r[q] /\ f[p] # r[q]
        /\ \A p, q \in P : (c[p] = c[q] => p = q) /\ (f[p] = f[q] => p = q)
        /\ \A p, q \in R : r[p] = r[q] => p = q
    BY MovementsAreDistinct
  <1>7. c = [p \in P |-> c[p]] /\ f = [p \in P |-> f[p]] /\ r = [q \in R |-> r[q]]
    OBVIOUS
  <1>8. \A m \in M : w[m] = m.amount
    OBVIOUS
  <1> HIDE DEF P, R, M, w, c, f, r, a, e, b, ne, nb
  <1>9. /\ \A p \in P : w[c[p]] = a[p] /\ w[f[p]] = ne[p]
        /\ \A q \in R : w[r[q]] = nb[q]
    BY <1>2, <1>3, <1>4, <1>8
  <1>10. Sigma(w, CM) = Sigma(a, P)
    <2>1. /\ \A p, q \in P : c[p] = c[q] => p = q
          /\ \A p \in P : w[c[p]] \in Int /\ a[p] = w[c[p]]
      BY <1>2, <1>6, <1>9
    <2> QED
      BY <1>1, <1>7, <2>1, SigmaImage
  <1>11. Sigma(w, FM) = Sigma(ne, P)
    <2>1. /\ \A p, q \in P : f[p] = f[q] => p = q
          /\ \A p \in P : w[f[p]] \in Int /\ ne[p] = w[f[p]]
      BY <1>2, <1>6, <1>9
    <2> QED
      BY <1>1, <1>7, <2>1, SigmaImage
  <1>12. Sigma(w, RM) = Sigma(nb, R)
    <2>1. /\ \A p, q \in R : r[p] = r[q] => p = q
          /\ \A q \in R : w[r[q]] \in Int /\ nb[q] = w[r[q]]
      BY <1>2, <1>6, <1>9
    <2> QED
      BY <1>1, <1>7, <2>1, SigmaImage
  <1>13. /\ CM \cap FM = {} /\ (CM \cup FM) \cap RM = {}
    BY <1>6
  <1>14. \A m \in M : w[m] \in Int
    BY <1>2, <1>5, <1>9
  <1> HIDE DEF CM, FM, RM
  <1>15. CM \in SUBSET M /\ FM \in SUBSET M /\ RM \in SUBSET M /\ CM \cup FM \in SUBSET M
    BY <1>5
  <1>16. IsFiniteSet(CM) /\ IsFiniteSet(FM) /\ IsFiniteSet(RM) /\ IsFiniteSet(CM \cup FM)
    BY <1>1, <1>15, FS_Subset
  <1>17. Sigma(w, CM \cup FM) = Sigma(w, CM) + Sigma(w, FM)
    BY <1>13, <1>14, <1>15, <1>16, SigmaUnion
  <1>18. Sigma(w, M) = Sigma(w, CM \cup FM) + Sigma(w, RM)
    <2> DEFINE D == CM \cup FM
    <2>1. /\ IsFiniteSet(D) /\ D \cap RM = {} /\ M = D \cup RM
          /\ \A m \in D \cup RM : w[m] \in Int
      BY <1>5, <1>13, <1>14, <1>16
    <2> HIDE DEF D
    <2>2. Sigma(w, D \cup RM) = Sigma(w, D) + Sigma(w, RM)
      BY <1>16, <2>1, SigmaUnion
    <2> QED
      BY <2>1, <2>2 DEF D
  <1>19. Sigma(ne, P) = -Sigma(e, P) /\ Sigma(nb, R) = -Sigma(b, R)
    BY <1>1, <1>2, SigmaNegative
  <1>20. Sigma(a, P) \in Int /\ Sigma(e, P) \in Int /\ Sigma(b, R) \in Int
    BY <1>1, <1>2, SigmaType
  <1>21. /\ Total(M) = Sigma(w, M)
         /\ Total(P) = Sigma(a, P)
         /\ Total(R) = Sigma(b, R)
         /\ ExpectedFees(P) = Sigma(e, P)
    BY <1>1, <1>2, <1>8, TotalIsSigma, ExpectedFeesIsSigma
  <1>22. Total(M) = Total(P) - ExpectedFees(P) - Total(R)
    BY <1>10, <1>11, <1>12, <1>17, <1>18, <1>19, <1>20, <1>21
  <1> QED
    BY <1>22 DEF M, P, R

\* No money disappears between the transaction and the payout view, for every
\* set of canonical records: the expected movements add up to the lifetime net
\* of the orders and of the orphans.
THEOREM MovementsExplained == Spec => []EveryMovementIsExplained
  <1>1. ASSUME PlanInv, ChangeInv
        PROVE  EveryMovementIsExplained
    <2>1. /\ ledger \in SUBSET Record /\ IsFiniteSet(ledger)
          /\ HasOneVersionEach(ledger)
      BY <1>1 DEF PlanInv, PlanTypeOK, ChangeInv
    <2>2. ASSUME NEW S, ReportsComplete(S, TransactionRequiredReports)
          PROVE  Total(ExpectedMovements(ledger)) =
                   TransactionNet(ledger, S) + OrphanNet(ledger, S)
                     - Total(OrphanRefunds(ledger, S))
      <3>1. Total(ExpectedMovements(ledger)) =
              Total(Captured(ledger)) - ExpectedFees(Captured(ledger))
                - Total(Refunded(ledger))
        BY <2>1, TotalOfMovements
      <3>2. TransactionNet(ledger, S) + OrphanNet(ledger, S)
              - Total(OrphanRefunds(ledger, S)) =
              Total(Captured(ledger)) - ExpectedFees(Captured(ledger))
                - Total(Refunded(ledger))
        BY <2>1, <2>2, NetOfAll
      <3> QED
        BY <3>1, <3>2
    <2> QED
      BY <2>2 DEF EveryMovementIsExplained
  <1> QED
    BY <1>1, ChangeInvariant, PTL
-----------------------------------------------------------------------------
(* Windows *)

HasMinimal(C) == \E s \in C : \A t \in C : ~(t \subseteq s /\ t # s)

LEMMA SomeIsMinimal ==
    ASSUME NEW R, IsFiniteSet(R), NEW C, C \subseteq SUBSET R, C # {}
    PROVE  HasMinimal(C)
  BY MinimalSubset DEF HasMinimal

\* A nonempty finite set of days has a first and a last one.
LEMMA FirstAndLast ==
    ASSUME NEW S \in SUBSET Nat, IsFiniteSet(S), S # {}
    PROVE  /\ Min(S) \in S /\ \A n \in S : Min(S) <= n
           /\ Max(S) \in S /\ \A n \in S : n <= Max(S)
  <1> DEFINE UpTo(n) == {k \in S : k <= n}
             From(n) == {k \in S : k >= n}
             C == {UpTo(n) : n \in S}
             E == {From(n) : n \in S}
  <1>1. \E m \in S : \A n \in S : m <= n
    <2>1. PICK s \in C : \A t \in C : ~(t \subseteq s /\ t # s)
      <3>1. C \subseteq SUBSET S /\ C # {}
        OBVIOUS
      <3> HIDE DEF C
      <3>2. HasMinimal(C)
        BY <3>1, SomeIsMinimal
      <3> QED
        BY <3>2 DEF HasMinimal
    <2>2. PICK m \in S : s = UpTo(m)
      BY <2>1
    <2>3. ASSUME NEW n \in S, n < m
          PROVE  FALSE
      <3>1. UpTo(n) \in C
        OBVIOUS
      <3>2. m \in Nat /\ n \in Nat /\ S \subseteq Nat
        OBVIOUS
      <3>3. m \in UpTo(m) /\ m \notin UpTo(n)
        BY <2>3, <3>2
      <3>4. UpTo(n) \subseteq UpTo(m)
        <4> SUFFICES ASSUME NEW k \in S, k <= n PROVE k <= m
          OBVIOUS
        <4>1. k \in Nat
          BY <3>2
        <4> QED
          BY <2>3, <3>2, <4>1
      <3> HIDE DEF UpTo, C
      <3> QED
        BY <2>1, <2>2, <3>1, <3>3, <3>4
    <2> QED
      BY <2>3
  <1>2. \E m \in S : \A n \in S : n <= m
    <2>1. PICK s \in E : \A t \in E : ~(t \subseteq s /\ t # s)
      <3>1. E \subseteq SUBSET S /\ E # {}
        OBVIOUS
      <3> HIDE DEF E
      <3>2. HasMinimal(E)
        BY <3>1, SomeIsMinimal
      <3> QED
        BY <3>2 DEF HasMinimal
    <2>2. PICK m \in S : s = From(m)
      BY <2>1
    <2>3. ASSUME NEW n \in S, m < n
          PROVE  FALSE
      <3>1. From(n) \in E
        OBVIOUS
      <3>2. m \in Nat /\ n \in Nat /\ S \subseteq Nat
        OBVIOUS
      <3>3. m \in From(m) /\ m \notin From(n)
        BY <2>3, <3>2
      <3>4. From(n) \subseteq From(m)
        <4> SUFFICES ASSUME NEW k \in S, k >= n PROVE k >= m
          OBVIOUS
        <4>1. k \in Nat
          BY <3>2
        <4> QED
          BY <2>3, <3>2, <4>1
      <3> HIDE DEF From, E
      <3> QED
        BY <2>1, <2>2, <3>1, <3>3, <3>4
    <2> QED
      BY <2>3
  <1>3. \E m \in S : \A n \in S : m >= n
    BY <1>2
  <1> QED
    BY <1>1, <1>3 DEF Min, Max

\* g is the function of the subsets of R that the loop of compress_dates
\* unfolds from base.
IsLoop(g, base, R) ==
    g = [s \in SUBSET R |->
           IF s = {} THEN base ELSE ExtendWindow(g[s \ {Max(s)}], Max(s))]

LEMMA LoopValue ==
    ASSUME NEW g, NEW base, NEW R, IsLoop(g, base, R), NEW s \in SUBSET R
    PROVE  g[s] = IF s = {} THEN base
                  ELSE ExtendWindow(g[s \ {Max(s)}], Max(s))
  BY DEF IsLoop

\* The loop over R is the loop over all days but the last, and one iteration.
LEMMA LoopExtends ==
    ASSUME NEW R \in SUBSET Nat, IsFiniteSet(R), R # {}, NEW base, NEW g,
           IsLoop(g, base, R \ {Max(R)})
    PROVE  \E h : IsLoop(h, base, R)
  <1> DEFINE m == Max(R)
             h == [s \in SUBSET R |->
                     IF m \in s THEN ExtendWindow(g[s \ {m}], m) ELSE g[s]]
  <1>1. ASSUME NEW s \in SUBSET R
        PROVE  h[s] = IF s = {} THEN base
                      ELSE ExtendWindow(h[s \ {Max(s)}], Max(s))
    <2>1. IsFiniteSet(s) /\ s \in SUBSET Nat
      BY FS_Subset
    <2>2. CASE s = {}
      BY <2>2, LoopValue
    <2>3. CASE s # {} /\ m \in s
      <3>1. Max(s) \in s /\ m <= Max(s) /\ Max(s) <= m
        BY <2>1, <2>3, FirstAndLast
      <3>2. Max(s) = m
        <4>1. Max(s) \in Nat /\ m \in Nat
          BY <2>1, <2>3, <3>1
        <4> HIDE DEF m
        <4> QED
          BY <3>1, <4>1
      <3>3. s \ {m} \in SUBSET R /\ m \notin s \ {m}
        OBVIOUS
      <3>4. h[s \ {m}] = g[s \ {m}]
        BY <3>3
      <3>5. h[s] = ExtendWindow(g[s \ {m}], m)
        BY <2>3
      <3> HIDE DEF h, m
      <3> QED
        BY <2>3, <3>2, <3>4, <3>5
    <2>4. CASE s # {} /\ m \notin s
      <3>1. s \in SUBSET (R \ {m}) /\ m \notin s \ {Max(s)}
            /\ s \ {Max(s)} \in SUBSET R
        BY <2>4
      <3>2. h[s] = g[s] /\ h[s \ {Max(s)}] = g[s \ {Max(s)}]
        BY <2>4, <3>1
      <3>3. g[s] = ExtendWindow(g[s \ {Max(s)}], Max(s))
        <4> HIDE DEF h
        <4> QED
          BY <2>4, <3>1, LoopValue
      <3> HIDE DEF h, m
      <3> QED
        BY <2>4, <3>2, <3>3
    <2> QED
      BY <2>2, <2>3, <2>4
  <1>2. h = [s \in SUBSET R |-> h[s]]
    OBVIOUS
  <1> HIDE DEF h
  <1>3. h = [s \in SUBSET R |->
               IF s = {} THEN base
               ELSE ExtendWindow(h[s \ {Max(s)}], Max(s))]
    BY <1>1, <1>2
  <1> QED
    BY <1>3 DEF IsLoop

LEMMA LoopExists ==
    ASSUME NEW R \in SUBSET Nat, IsFiniteSet(R), NEW base
    PROVE  \E g : IsLoop(g, base, R)
  <1> DEFINE C == {T \in SUBSET R : ~ \E g : IsLoop(g, base, T)}
  <1> SUFFICES ASSUME C # {} PROVE FALSE
    OBVIOUS
  <1>1. PICK T \in C : \A U \in C : ~(U \subseteq T /\ U # T)
    <2>1. C \subseteq SUBSET R
      OBVIOUS
    <2> HIDE DEF C
    <2>2. HasMinimal(C)
      BY <2>1, SomeIsMinimal
    <2> QED
      BY <2>2 DEF HasMinimal
  <1>2. T \in SUBSET Nat /\ IsFiniteSet(T)
    BY <1>1, FS_Subset
  <1>3. CASE T = {}
    <2> DEFINE h == [s \in {{}} |-> base]
    <2>1. h = [s \in SUBSET T |->
                 IF s = {} THEN base
                 ELSE ExtendWindow(h[s \ {Max(s)}], Max(s))]
      <3>1. SUBSET T = {{}}
        BY <1>3
      <3>2. \A s \in {{}} : base = IF s = {} THEN base
                 ELSE ExtendWindow(h[s \ {Max(s)}], Max(s))
        OBVIOUS
      <3> QED
        BY <3>1, <3>2
    <2>2. IsLoop(h, base, T)
      BY <2>1 DEF IsLoop
    <2> QED
      BY <1>1, <2>2
  <1>4. CASE T # {}
    <2>1. Max(T) \in T
      BY <1>2, <1>4, FirstAndLast
    <2>2. T \ {Max(T)} \in SUBSET R /\ T \ {Max(T)} \notin C
      BY <1>1, <2>1
    <2>3. PICK g : IsLoop(g, base, T \ {Max(T)})
      BY <2>2
    <2>4. \E h : IsLoop(h, base, T)
      BY <1>2, <1>4, <2>3, LoopExtends
    <2> QED
      BY <1>1, <2>4
  <1> QED
    BY <1>3, <1>4

DaysOfWindow(w) == w.start .. (w.end - 1)

AreApart(W) == \A v, w \in W : v # w => v.end < w.start \/ w.end < v.start

\* The loop invariant of compress_dates behind the days T: the finished windows
\* and the open one are the runs of consecutive days in T.
LoopInv(acc, T) ==
    /\ acc \in [windows : SUBSET [start : Nat, end : Nat], start : Nat, previous : Nat]
    /\ acc.start <= acc.previous
    /\ \A n \in T : n \in Nat /\ n <= acc.previous
    /\ \A w \in acc.windows : w.end < acc.start
    /\ AreApart(acc.windows)
    /\ \A n \in Nat : n \in T <=>
         \/ n \in acc.start .. acc.previous
         \/ \E w \in acc.windows : n \in DaysOfWindow(w)

LEMMA LoopStep ==
    ASSUME NEW acc, NEW T, LoopInv(acc, T), NEW d \in Nat, \A n \in T : n < d
    PROVE  LoopInv(ExtendWindow(acc, d), T \cup {d})
  <1>1. /\ acc \in [windows : SUBSET [start : Nat, end : Nat],
                    start : Nat, previous : Nat]
        /\ acc.start <= acc.previous
        /\ \A n \in T : n \in Nat /\ n <= acc.previous
        /\ \A w \in acc.windows : w.end < acc.start
        /\ AreApart(acc.windows)
        /\ \A n \in Nat : n \in T <=>
             \/ n \in acc.start .. acc.previous
             \/ \E w \in acc.windows : n \in DaysOfWindow(w)
    BY DEF LoopInv
  <1>2. acc.previous < d
    BY <1>1
  <1>3. CASE d = acc.previous + 1
    <2> DEFINE next == [windows |-> acc.windows, start |-> acc.start, previous |-> d]
    <2>1. ExtendWindow(acc, d) = next
      BY <1>1, <1>3 DEF ExtendWindow
    <2>2. ASSUME NEW n \in Nat
          PROVE  n \in T \cup {d} <=>
                   \/ n \in acc.start .. d
                   \/ \E w \in acc.windows : n \in DaysOfWindow(w)
      <3>1. n \in acc.start .. d <=> n \in acc.start .. acc.previous \/ n = d
        BY <1>1, <1>3
      <3> QED
        BY <1>1, <3>1
    <2>3. LoopInv(next, T \cup {d})
      BY <1>1, <1>2, <2>2 DEF LoopInv
    <2> QED
      BY <2>1, <2>3
  <1>4. CASE d # acc.previous + 1
    <2> DEFINE closed == Window(acc.start, acc.previous)
               W == acc.windows \cup {closed}
               next == [windows |-> W, start |-> d, previous |-> d]
    <2>1. ExtendWindow(acc, d) = next
      BY <1>4 DEF ExtendWindow
    <2>2. /\ closed \in [start : Nat, end : Nat]
          /\ closed.start = acc.start /\ closed.end = acc.previous + 1
      BY <1>1 DEF Window
    <2>3. DaysOfWindow(closed) = acc.start .. acc.previous
      BY <1>1, <2>2 DEF DaysOfWindow
    <2> HIDE DEF closed
    <2>4. \A w \in W : w.end < d
      BY <1>1, <1>2, <1>4, <2>2
    <2>5. AreApart(W)
      BY <1>1, <2>2 DEF AreApart
    <2>6. ASSUME NEW n \in Nat
          PROVE  n \in T \cup {d} <=>
                   \/ n \in d .. d
                   \/ \E w \in W : n \in DaysOfWindow(w)
      <3>1. n \in d .. d <=> n = d
        OBVIOUS
      <3>2. (\E w \in W : n \in DaysOfWindow(w)) <=>
              \/ n \in acc.start .. acc.previous
              \/ \E w \in acc.windows : n \in DaysOfWindow(w)
        BY <2>3
      <3> QED
        BY <1>1, <3>1, <3>2
    <2>7. next \in [windows : SUBSET [start : Nat, end : Nat],
                    start : Nat, previous : Nat]
      BY <1>1, <2>2
    <2>8. \A n \in T \cup {d} : n \in Nat /\ n <= d
      BY <1>1
    <2>9. LoopInv(next, T \cup {d})
      <3>1. next.windows = W /\ next.start = d /\ next.previous = d
        OBVIOUS
      <3> HIDE DEF next, W
      <3> QED
        BY <2>4, <2>5, <2>6, <2>7, <2>8, <3>1 DEF LoopInv
    <2> QED
      BY <2>1, <2>9
  <1> QED
    BY <1>3, <1>4

\* What the loop returns, by minimal counterexample among the subsets of R.
LEMMA LoopIsCorrect ==
    ASSUME NEW R \in SUBSET Nat, IsFiniteSet(R), NEW f \in Nat,
           \A n \in R : f < n, NEW g,
           IsLoop(g, [windows |-> {}, start |-> f, previous |-> f], R)
    PROVE  LoopInv(g[R], R \cup {f})
  <1> DEFINE base == [windows |-> {}, start |-> f, previous |-> f]
             C == {s \in SUBSET R : ~LoopInv(g[s], s \cup {f})}
  <1> SUFFICES ASSUME C # {} PROVE FALSE
    OBVIOUS
  <1>1. PICK s \in C : \A t \in C : ~(t \subseteq s /\ t # s)
    <2>1. C \subseteq SUBSET R
      OBVIOUS
    <2> HIDE DEF C
    <2>2. HasMinimal(C)
      BY <2>1, SomeIsMinimal
    <2> QED
      BY <2>2 DEF HasMinimal
  <1>2. s \in SUBSET R /\ s \in SUBSET Nat /\ IsFiniteSet(s)
    BY <1>1, FS_Subset
  <1>3. CASE s = {}
    <2>1. g[s] = base
      BY <1>2, <1>3, LoopValue
    <2>2. \A n \in Nat : n \in f .. f <=> n = f
      OBVIOUS
    <2>3. LoopInv(base, {f})
      BY <2>2 DEF LoopInv, AreApart
    <2>4. s \cup {f} = {f}
      BY <1>3
    <2> QED
      BY <1>1, <2>1, <2>3, <2>4
  <1>4. CASE s # {}
    <2> DEFINE m == Max(s)
               t == s \ {m}
    <2>1. m \in s /\ \A n \in s : n <= m
      BY <1>2, <1>4, FirstAndLast
    <2>2. t \in SUBSET R /\ t \notin C
      BY <1>1, <2>1
    <2>3. LoopInv(g[t], t \cup {f})
      BY <2>2
    <2>4. g[s] = ExtendWindow(g[t], m)
      BY <1>2, <1>4, LoopValue
    <2>5. m \in Nat /\ \A n \in t \cup {f} : n < m
      BY <1>2, <2>1
    <2>6. (t \cup {f}) \cup {m} = s \cup {f}
      BY <2>1
    <2> HIDE DEF m, t
    <2>7. LoopInv(ExtendWindow(g[t], m), (t \cup {f}) \cup {m})
      BY <2>3, <2>5, LoopStep
    <2> QED
      BY <1>1, <2>4, <2>6, <2>7
  <1> QED
    BY <1>3, <1>4

\* compress_dates, for every finite set of days: its windows have exactly these
\* days, and no two of them touch.
LEMMA WindowsOfDays ==
    ASSUME NEW D \in SUBSET Nat, IsFiniteSet(D)
    PROVE  /\ UNION {DaysOfWindow(w) : w \in CompressDates(D)} = D
           /\ AreApart(CompressDates(D))
  <1>1. CASE D = {}
    BY <1>1 DEF CompressDates, AreApart
  <1>2. CASE D # {}
    <2> DEFINE f == Min(D)
               R == D \ {f}
               base == [windows |-> {}, start |-> f, previous |-> f]
               F(g) == [s \in SUBSET R |->
                          IF s = {} THEN base
                          ELSE ExtendWindow(g[s \ {Max(s)}], Max(s))]
               it == CHOOSE g : g = F(g)
               last == it[R]
    <2>1. CompressDates(D) = last.windows \cup {Window(last.start, last.previous)}
      BY <1>2 DEF CompressDates, MapThenFoldSet
    <2>2. /\ f \in Nat /\ f \in D
          /\ R \in SUBSET Nat /\ IsFiniteSet(R)
          /\ \A n \in R : f < n
      <3>1. f \in D /\ \A n \in D : f <= n
        BY <1>2, FirstAndLast
      <3>2. IsFiniteSet(R)
        BY FS_Subset
      <3> HIDE DEF f
      <3> QED
        BY <3>1, <3>2
    <2>3. it = F(it)
      <3>1. PICK g : IsLoop(g, base, R)
        <4> HIDE DEF base, R
        <4> QED
          BY <2>2, LoopExists
      <3>2. g = F(g)
        BY <3>1 DEF IsLoop
      <3> HIDE DEF F
      <3> QED
        BY <3>2
    <2>4. IsLoop(it, base, R)
      <3> HIDE DEF it, base, R
      <3> QED
        BY <2>3 DEF IsLoop
    <2>5. LoopInv(last, R \cup {f})
      <3> HIDE DEF it, R, f
      <3> QED
        BY <2>2, <2>4, LoopIsCorrect
    <2>6. R \cup {f} = D
      BY <2>2
    <2> DEFINE open == Window(last.start, last.previous)
               W == last.windows \cup {open}
    <2> HIDE DEF f, R, base, F, it, last
    <2>7. /\ last.start \in Nat /\ last.previous \in Nat
          /\ last.windows \subseteq [start : Nat, end : Nat]
          /\ last.start <= last.previous
          /\ \A w \in last.windows : w.end < last.start
          /\ AreApart(last.windows)
          /\ \A n \in Nat : n \in D <=>
               \/ n \in last.start .. last.previous
               \/ \E w \in last.windows : n \in DaysOfWindow(w)
      BY <2>5, <2>6 DEF LoopInv
    <2>8. open.start = last.start /\ open.end = last.previous + 1
      BY DEF Window
    <2>9. DaysOfWindow(open) = last.start .. last.previous
      BY <2>7, <2>8 DEF DaysOfWindow
    <2> HIDE DEF open
    <2>10. AreApart(W)
      <3> SUFFICES ASSUME NEW v \in W, NEW w \in W, v # w
                   PROVE  v.end < w.start \/ w.end < v.start
        BY DEF AreApart
      <3>1. CASE v \in last.windows /\ w \in last.windows
        BY <2>7, <3>1 DEF AreApart
      <3>2. CASE v = open \/ w = open
        BY <2>7, <2>8, <3>2
      <3> QED
        BY <3>1, <3>2
    <2>11. ASSUME NEW w \in W
           PROVE  DaysOfWindow(w) \subseteq Nat
      <3>1. w.start \in Nat /\ w.end \in Nat
        BY <2>7, <2>8
      <3> QED
        BY <3>1 DEF DaysOfWindow
    <2>12. \A n \in Nat : n \in D <=> \E w \in W : n \in DaysOfWindow(w)
      BY <2>7, <2>9
    <2>13. UNION {DaysOfWindow(w) : w \in W} = D
      <3> HIDE DEF W
      <3> QED
        BY <2>11, <2>12
    <2> QED
      BY <2>1, <2>10, <2>13 DEF open
  <1> QED
    BY <1>1, <1>2

\* A plan is made from finitely many records and has finitely many days.
FiniteInv == IsFiniteSet(before) /\ IsFiniteSet(changed) /\ IsFiniteSet(visitedDays)

LEMMA FiniteNext ==
    ASSUME PlanInv, ChangeInv, FiniteInv, [Next]_vars
    PROVE  FiniteInv'
  <1> USE DEF FiniteInv
  <1>1. CASE UNCHANGED vars
    BY <1>1 DEF vars, planVars
  <1>2. ASSUME NEW r \in Record, CorrectRecord(r) \/ ConflictRecord(r)
        PROVE  FiniteInv'
    <2>1. IsFiniteSet(CurrentOf(r.id))
      BY FS_Subset DEF ChangeInv, CurrentOf
    <2>2. IsFiniteSet(CurrentOf(r.id) \cup {r})
      BY <2>1, FS_AddElement
    <2> QED
      BY <1>2, <2>2 DEF CorrectRecord, ConflictRecord, BeginExpansion
  <1>3. ASSUME NEW r \in Record, RepeatRecord(r) \/ ChangeWithoutEvidence(r)
        PROVE  FiniteInv'
    BY <1>3, FS_EmptySet, FS_Singleton
    DEF RepeatRecord, ChangeWithoutEvidence, Return
  <1>4. CASE ChangeCompleteness
    BY <1>4 DEF ChangeCompleteness, Return
  <1>5. ASSUME NEW k \in pending, Visit(k)
        PROVE  FiniteInv'
    <2> DEFINE G == {q \in Graph : q.id = k /\ IsDated(q)}
    <2>1. IsFiniteSet(Graph)
      BY FS_Union DEF Graph, ChangeInv
    <2>2. IsFiniteSet(G)
      BY <2>1, FS_Subset
    <2>3. IsFiniteSet({r.day : r \in G})
      <3> DEFINE dayOf == [r \in G |-> r.day]
                 T == {r.day : r \in G}
      <3> HIDE DEF G
      <3>1. dayOf \in Surjection(G, T)
        BY DEF Surjection
      <3> HIDE DEF dayOf, T
      <3>2. IsFiniteSet(T)
        BY <2>2, <3>1, FS_Surjection
      <3> QED
        BY <3>2 DEF T
    <2>4. IsFiniteSet(Days(Graph, k))
      BY <2>3, FS_Difference DEF Days
    <2>5. IsFiniteSet(visitedDays \cup Days(Graph, k))
      BY <2>4, FS_Union
    <2> QED
      BY <1>5, <2>5 DEF Visit
  <1>6. CASE FinishPlan
    BY <1>6 DEF FinishPlan
  <1>7. CASE ApplyPlan
    BY <1>7, FS_EmptySet DEF ApplyPlan, ChangeInv
  <1> QED
    BY <1>1, <1>2, <1>3, <1>4, <1>5, <1>6, <1>7 DEF Next

\* compress_dates turns the days of every plan into windows that have exactly
\* these days and do not touch, for any records, changes and gaps.
THEOREM WindowsCorrect == Spec => []WindowsAreTheDays
  <1>1. Init => FiniteInv
    BY PlanAssumption, FS_EmptySet DEF Init, FiniteInv
  <1>2. PlanInv /\ ChangeInv /\ FiniteInv /\ [Next]_vars => FiniteInv'
    BY FiniteNext
  <1>3. PlanInv /\ FiniteInv => WindowsAreTheDays
    <2> SUFFICES ASSUME PlanInv, FiniteInv PROVE WindowsAreTheDays
      OBVIOUS
    <2>1. visitedDays \in SUBSET Nat /\ IsFiniteSet(visitedDays)
      BY DEF PlanInv, PlanTypeOK, FiniteInv, Day
    <2>2. /\ UNION {DaysOfWindow(w) : w \in CompressDates(visitedDays)} = visitedDays
          /\ AreApart(CompressDates(visitedDays))
      BY <2>1, WindowsOfDays
    <2> QED
      BY <2>2 DEF WindowsAreTheDays, DaysOfWindow, AreApart
  <1> QED
    BY <1>1, <1>2, <1>3, ChangeInvariant, PTL DEF Spec
=============================================================================
