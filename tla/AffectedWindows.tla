--------------------------- MODULE AffectedWindows --------------------------
(***************************************************************************)
(* plan_affected_windows (affected_windows.py): which orders and payout    *)
(* days a change of the canonical records can affect.  The change is an    *)
(* action of the environment, the worklist of _ImpactGraph.expand runs one *)
(* key per step, in any order.                                             *)
(***************************************************************************)
EXTENDS FinancialRecords, FiniteSets

CONSTANTS
    Ledgers,      \* initial sets of canonical records
    MaxChanges    \* bound: number of changes planned for

\* canonical_records: one version of an entity.
HasOneVersionEach(L) == \A q, r \in L : q.id = r.id => q = r

ASSUME PlanAssumption ==
    /\ \A L \in Ledgers :
         L \subseteq Record /\ IsFiniteSet(L) /\ HasOneVersionEach(L)
    /\ MaxChanges \in Nat

VARIABLES
    ledger,       \* after_records: the canonical records now
    before,       \* before_records
    changed,      \* changed_records: previous and incoming variants
    phase,        \* where the planner is
    scope,        \* RecoveryScope of the last plan
    pending, visited, visitedDays,   \* expand
    reasons,      \* are there reason codes that force a full rebuild?
    changes       \* number of changes so far

planVars == <<phase, scope, pending, visited, visitedDays, reasons>>
vars == <<ledger, before, changed, changes, planVars>>

PlanTypeOK ==
    /\ ledger \subseteq Record
    /\ before \subseteq Record
    /\ changed \subseteq Record
    /\ phase \in {"idle", "expand", "planned"}
    /\ scope \in {"NONE", "WINDOWS", "FULL"}
    /\ pending \subseteq Key
    /\ visited \subseteq Key
    /\ visitedDays \subseteq Day
    /\ reasons \in BOOLEAN
    /\ changes \in Nat

Init ==
    /\ ledger \in Ledgers
    /\ before = ledger
    /\ changed = {}
    /\ phase = "idle"
    /\ scope = "NONE"
    /\ pending = {}
    /\ visited = {}
    /\ visitedDays = {}
    /\ reasons = FALSE
    /\ changes = 0
-----------------------------------------------------------------------------
(* _ImpactGraph over the records G it was given *)

\* The keys a record names.
Parents(r) ==
    CASE r.id \in Order \cup Payout   -> {}
      [] r.id \in Payment             -> {r.order}
      [] r.id \in Refund \cup Fee     -> {r.payment}
      [] r.id \in SettlementLine      -> {r.payout, r.movement}

\* Mutant: refunds have no day.
IsDatedWithPayment(r) == r.id \in Payment \cup Payout

IsDated(r) == r.id \in Payment \cup Refund \cup Payout

Known(G) == {r.id : r \in G}

\* Relationships are followed in both directions.
Neighbors(G, k) ==
    {p \in Key : \E r \in G : r.id = k /\ p \in Parents(r)}
        \cup {r.id : r \in {q \in G : k \in Parents(q)}}

Days(G, k) ==
    {r.day : r \in {q \in G : q.id = k /\ IsDated(q)}} \ {NoDay}

KeysOn(G, d) == {r.id : r \in {q \in G : IsDated(q) /\ q.day = d}}

\* CAPTURE_DATE_UNRESOLVED and REFUND_DATE_UNRESOLVED; records that passed
\* the contract have no other issue, and not these either.
HasIssue(r) ==
    /\ r.id \in Payment \cup Refund
    /\ r.status \in {"CAPTURED", "SUCCEEDED"}
    /\ r.day = NoDay

\* Mutant: the graph holds the new records only.
AfterGraph == ledger \cup {r \in changed : r \in ledger}

\* Old edges and days are kept when a correction moves a relationship.
Graph == before \cup ledger \cup changed

\* Mutant: movements that share a day are not followed.
ReachedByLinks(G, k, seenDays) == Neighbors(G, k)

\* What a visit of k adds to the worklist.
Reached(G, k, seenDays) ==
    Neighbors(G, k) \cup (UNION {KeysOn(G, d) : d \in Days(G, k) \ seenDays})
-----------------------------------------------------------------------------
(* Changes, and the early returns of plan_affected_windows *)

CurrentOf(k) == {q \in ledger : q.id = k}

MayChange == phase = "idle" /\ changes < MaxChanges

Return(s) ==
    /\ phase' = "planned"
    /\ scope' = s
    /\ UNCHANGED <<pending, visited, visitedDays, reasons>>

BeginExpansion(seeds) ==
    /\ phase' = "expand"
    /\ pending' = {r.id : r \in seeds}
    /\ UNCHANGED <<scope, visited, visitedDays, reasons>>

\* NEW_FACT or HIGHER_VERSION_CORRECTION.
CorrectRecord(r) ==
    /\ MayChange
    /\ r \notin ledger
    /\ ledger' = (ledger \ CurrentOf(r.id)) \cup {r}
    /\ changed' = CurrentOf(r.id) \cup {r}
    /\ BeginExpansion(CurrentOf(r.id) \cup {r})
    /\ changes' = changes + 1
    /\ UNCHANGED before

\* SAME_VERSION_CONFLICT: the entity has no canonical record any more.
ConflictRecord(r) ==
    /\ MayChange
    /\ r \notin ledger
    /\ CurrentOf(r.id) # {}
    /\ ledger' = ledger \ CurrentOf(r.id)
    /\ changed' = CurrentOf(r.id) \cup {r}
    /\ BeginExpansion(CurrentOf(r.id) \cup {r})
    /\ changes' = changes + 1
    /\ UNCHANGED before

\* EXACT_DUPLICATE or STALE_VERSION: nothing canonical changes.
RepeatRecord(r) ==
    /\ MayChange
    /\ CurrentOf(r.id) # {}
    /\ changed' = {r}
    /\ Return("NONE")
    /\ changes' = changes + 1
    /\ UNCHANGED <<ledger, before>>

\* A canonical change without changed_records.
ChangeWithoutEvidence(r) ==
    /\ MayChange
    /\ r \notin ledger
    /\ ledger' = (ledger \ CurrentOf(r.id)) \cup {r}
    /\ changed' = {}
    /\ Return("FULL")
    /\ changes' = changes + 1
    /\ UNCHANGED before

\* completeness_changed.
ChangeCompleteness ==
    /\ MayChange
    /\ Return("FULL")
    /\ changes' = changes + 1
    /\ UNCHANGED <<ledger, before, changed>>
-----------------------------------------------------------------------------
(* expand *)

\* Mutant: visited keys are expanded again.
VisitAgain(k) ==
    /\ phase = "expand"
    /\ k \in pending
    /\ pending' = (pending \ {k}) \cup Reached(Graph, k, {})
    /\ visited' = visited \cup {k}
    /\ visitedDays' = visitedDays \cup Days(Graph, k)
    /\ UNCHANGED <<ledger, before, changed, changes, phase, scope, reasons>>

\* pending.pop() of a key.  The list may hold a key several times; the later
\* ones are skipped, so that a set has the same effect.
Visit(k) ==
    /\ phase = "expand"
    /\ k \in pending
    /\ pending' = (pending \ {k}) \cup
         (IF k \in visited THEN {} ELSE Reached(Graph, k, visitedDays))
    /\ visited' = visited \cup {k}
    /\ visitedDays' = visitedDays \cup Days(Graph, k)
    /\ reasons' = (reasons \/ k \notin Known(Graph)
                     \/ \E r \in Graph : r.id = k /\ HasIssue(r))
    /\ UNCHANGED <<ledger, before, changed, changes, phase, scope>>

\* The worklist is empty: the plan.
FinishPlan ==
    /\ phase = "expand"
    /\ pending = {}
    /\ phase' = "planned"
    /\ scope' = IF reasons THEN "FULL" ELSE "WINDOWS"
    /\ UNCHANGED <<ledger, before, changed, changes, pending, visited,
                   visitedDays, reasons>>

\* The caller recovers as planned; the next change starts from here.
ApplyPlan ==
    /\ phase = "planned"
    /\ phase' = "idle"
    /\ before' = ledger
    /\ changed' = {}
    /\ scope' = "NONE"
    /\ visited' = {}
    /\ visitedDays' = {}
    /\ reasons' = FALSE
    /\ UNCHANGED <<ledger, changes, pending>>

Next ==
    \/ \E r \in Record : CorrectRecord(r)
    \/ \E r \in Record : ConflictRecord(r)
    \/ \E r \in Record : RepeatRecord(r)
    \/ \E r \in Record : ChangeWithoutEvidence(r)
    \/ ChangeCompleteness
    \/ \E k \in pending : Visit(k)
    \/ FinishPlan
    \/ ApplyPlan

Spec == Init /\ [][Next]_vars
-----------------------------------------------------------------------------
(* Properties *)

Seeds == {r.id : r \in changed}

\* A set of keys that expand could not leave: every neighbour of a member,
\* and everything available on a day of a member, is a member.
IsClosed(S) ==
    \A k \in S :
        /\ Neighbors(Graph, k) \subseteq S
        /\ \A d \in Days(Graph, k) : KeysOn(Graph, d) \subseteq S

\* Whatever order the worklist is popped in, expand returns the least set of
\* keys that contains the changed ones and cannot be left: the days already
\* seen hide no key, and nothing unrelated is dragged in.  A plan that
\* rebuilds windows only rests on known records alone.
ExpansionIsLeast ==
    phase = "planned" /\ changed # {} /\ scope # "NONE" =>
        /\ Seeds \subseteq visited
        /\ IsClosed(visited)
        /\ visitedDays = UNION {Days(Graph, k) : k \in visited}
        /\ \A S \in SUBSET Key :
             Seeds \subseteq S /\ IsClosed(S) => visited \subseteq S
        /\ scope = "WINDOWS" => visited \subseteq Known(Graph)

\* expand terminates although a visit may extend its worklist: every
\* iteration either visits a new key, of which there are finitely many, or
\* takes a key out of the worklist and adds none, and no visited key is
\* forgotten.
ExpansionDescends ==
    [][phase = "expand" /\ phase' = "expand" =>
         /\ visited \subseteq visited'
         /\ visited' = visited => pending' \subseteq pending /\ pending' # pending
      ]_vars
=============================================================================
