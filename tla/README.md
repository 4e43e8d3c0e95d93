# Threadline: TLA+ models, checks and proofs

Threadline ingests versioned source files (orders, payments, refunds, fees,
settlement lines, payouts), keeps every received row as immutable evidence in
PostgreSQL, resolves which version of each entity is canonical, and publishes a
reconciliation of the canonical records. Late data, corrections and conflicts
schedule a full rebuild from the evidence. This directory models the parts of
the program whose correctness depends on order, interleaving, failure or a
combination of rules, checks them with TLC on small instances and proves the
central properties with TLAPS for every instance.

Paths below are relative to the repository; module `M` is `M.tla`.

## 1. Inventory

| Component (code in `threadline/`) | State | Operations | Hard part | Correct means |
|---|---|---|---|---|
| Canonicalization (`canonicalize.py`) | none | group variants, choose the winner, classify receipts | same-version conflicts | result depends on the set of receipts only |
| Durable ingestion (`durable_ingestion.py`, `entity_locks.py`) | batch, receipts, record_version, entity_resolution, recovery_request rows; advisory locks | `ingest_source_file`, one transaction per delivery | concurrent deliveries about one entity, aborts, lost commit acknowledgements | the committed rows are those of a canonicalization of all receipts; a retry finds all or nothing |
| Older ledger writer (`ingestion/service.py`, `db/`) | the same batch and receipt tables | `record_delivery` | takes no financial lock | does not disturb rebuilds |
| Recovery queue (`recovery_queue.py`) | recovery_request, recovery_attempt | `next_ready`, `mark_succeeded`, `record_failure`, `requeue_failed` | back-off, attempt budget, reuse of rows | attempts match the row; every request settles |
| Full rebuild (`full_rebuild_recovery.py`, `recovery_rebuild.py`, `durable_completeness.py`) | reconciliation_run, recovery_result, publication_pointer | `run_next` | many reads under READ COMMITTED, crash between two transactions | each publication is the view of everything committed |
| Inspection (`recovery_behavior.py`) | none | `inspect_recovery` | combinations it rejects as inconsistent | no reachable state is rejected |
| File handshake (`source_files.py`, `verify_delivery`) | data, manifest and `.part` files | `publish_source_file`, `inspect_source_file`, `verify_delivery` | racing producers, crash, power loss, reads of several files | a visible manifest completes its data |
| Archival (`archival.py`) | source files, archive objects, archive_status | `archive_batch` | failure at every hook, shared objects, power loss | the last verified copy is never destroyed |
| Affected windows (`affected_windows.py`) | a worklist | `plan_affected_windows` | corrections that move a relationship or day | what the plan leaves out is unaffected |
| Reconciliation (`reconcile.py`, `money.py`, `contracts.py`) | none | `reconcile` | rules guarded by different reports | no false `RECONCILED`, no lost money |
| Completeness (`completeness.py`, `durable_completeness.py`) | report evidence in the ledger, completeness of the published run | `evaluate_report`, `load_completeness` | deadlines on the nights the clocks change, frozen cutoffs, rebuilds out of order | what is published is right at its cutoff, and current once the queue is empty |
| Late data (`late_data.py`) | none | build a candidate, classify it against a published run | corrections that leave a covered day | what it calls harmless changes no covered day |
| File publication (`publication.py`) | the result file, its temporary files, a lock per store instance | `validate_for_publication`, `publish`, `read_current` | racing instances, crash, power loss between rename and fsync | one durable register |
| Runtime (`recovery_runner.py`, `recovery_runtime.py`, adapters, fingerprints) | none | drain loop, wiring, hashing | none of its own | appears as fairness |
| CLI, DAGs, generator, benchmarks, migrations | - | - | scheduling only | appear as fairness and as the shape of the store |

Interactions: the file gate decides when a delivery may be ingested; ingestion
commits evidence together with a request; recovery workers drain requests and
move the publication pointer; a rebuild evaluates completeness at the cutoff of
its request; results outside the database go through the file store; archival
moves the file of a committed batch; the financial advisory lock (740031)
serialises ingestion and rebuilds, the entity
locks (740033) order ingesters, the archive lock serialises archivals.
`PROJECT.json` lists each hazard at its line.

## 2. Modules

    FileSystem ┬─ SourceFiles ─┬ MCSourceFiles
               │               └ SourceFilesProofs
               └─ Archival ────┬ MCArchival
                               └ ArchivalProofs
    LedgerData ── LedgerStore ┬─ DurableIngestion ──┬──────────── MCIngestion
    (Canonicalize)            │                     │  DurableIngestionProofs
                              └─ RecoveryQueue ─ FullRebuildRecovery ─ RecoveryBehavior
                                                    └──┐          │
                         ReplayEngine (abstract) ◁── ReplaySystem ┘── MCReplay
                                                       └─ ReplaySystemProofs ── RecoveryQueueProofs
    FinancialRecords ┬─ Reconcile ───────┬─ IncrementalReplay ── MCIncremental
                     ├─ LateData ────────┤
                     └─ AffectedWindows ─┘           └── IncrementalReplayProofs
    Completeness ── StoredCompleteness ┬─ MCStoredCompleteness
                                       └─ CompletenessProofs
    DurableRegister (abstract) ◁── FilePublication ┬─ MCFilePublication
                                                   └─ FilePublicationProofs

**Canonicalize, LedgerData.** `canonicalize` as operators on a set of variants
(entity, version, payload hash). LedgerData fixes the constants: what each
delivery file contains, which rows the contract rejects (`InvalidRow`).

**LedgerStore.** The PostgreSQL tables as variables, the financial lock and the
clock. Uncommitted writes are never here: an action on the store is a commit.

**DurableIngestion.** `ingest_source_file`: financial lock, entity locks in
`entity_sort_key` order (two entities may share a lock number), look-up of an
existing batch, receipts and history (`InsertRows`), per-entity resolution and
reclassification of earlier receipts (`ResolveTouched`), request and commit
(`CommitIngestion`), abort at any point. A transaction's writes stay in
`staged` until it commits. `RecordDelivery` is the older writer.

**RecoveryQueue, FullRebuildRecovery.** The queue's operators give the row each
statement leaves. A worker takes the session lock, picks a ready request, and
reads evidence in three statements (`BuildCandidate`, completeness,
fingerprint), each seeing what is committed when it runs; it then publishes, or
rolls back and records the failure in a second transaction. It may crash
between any two steps. The writes of one transaction become visible in one
step, its commit: that a rollback leaves none of them is PostgreSQL's promise
and no property of the model.

**RecoveryBehavior.** `inspect_recovery` as an operator; `"ERROR"` stands for
`RecoveryStateError`.

**ReplayEngine, ReplaySystem.** ReplayEngine is the promise: deliveries are
accepted, and now and then the published view becomes the canonical view of all
accepted deliveries. ReplaySystem composes ingestion, recovery, the older
writer, the operator and the clock, and implements it with
`accepted <- Committed, view <- PublishedView`.

**FileSystem, SourceFiles, Archival.** A file system with volatile and durable
directory entries and contents; `fsync` of a file or directory makes them
durable, a loss of power keeps any subset of the rest. `publish_source_file`
and `archive_batch` are modelled one system call per action; the two gates read
their files one at a time. A producer is given the metadata it declares
(`Declared`); `Parses` is `_parse_manifest`, which the producer runs before it
creates a file and both gates run on what they read, and `Accepts` adds what
each gate checks besides.

**FinancialRecords, Reconcile.** The parsed record types, with the constraints
the parsers enforce, and `reconcile` as operators on a set of canonical records
and the state of each report. `IsPublishable` is `validate_for_publication`
together with the checks of the result types.

**AffectedWindows, IncrementalReplay.** A change of the ledger starts
`plan_affected_windows`; each early return is a `Return`, and `expand` visits
one key per step. IncrementalReplay adds `compress_dates` and asks whether the
plan is right for the rules of `Reconcile`.

**LateData.** `resolve_record_impact`, `build_late_data_candidate` and
`classify_late_data` as operators. The look-ups its caller has to supply
(`ImpactContext`) are made in the canonical records. IncrementalReplay applies
them to the change being planned and compares the verdict with what `Reconcile`
computes before and after.

**Completeness, StoredCompleteness.** Completeness holds the operators of
`completeness.py`: deadlines (`ReportDeadline`, with zoneinfo's reading of
skipped and repeated hours), visibility of evidence, `CollectIssues`,
`EvaluateReport`, and the evidence `cli.py` builds for a golden scenario.
StoredCompleteness puts `load_completeness` into its surroundings: deliveries
commit or are recorded as defective, retained bytes are damaged, requests are
rebuilt in any order at the cutoff of their delivery, time passes deadlines.

**DurableRegister, FilePublication.** `AtomicFilePublicationStore.publish` and
`read_current`, one system call per action. `entries` is the history of files
the target name referred to; `stable` counts those that the last directory
fsync covers. Publishers share a lock only if they share a store instance. The
promise is DurableRegister: publications take effect one after another, and a
loss of power may undo the last ones, never one whose receipt was returned.
The implementation maps `log` to the runs in `entries` and `receipted` to the
last acknowledged position.

## 3. Runs

Passing runs:

| Run | Instance | Shows |
|---|---|---|
| `ingestion` | 2 ingesters, 3 overlapping deliveries, 2 of the older writer, 2 entities on one lock number | resolutions and dispositions are those of a canonicalization of all committed receipts; a retry finds a whole delivery; history rows never change |
| `replay` | 1 ingester, 2 workers, 2 conflicting deliveries, 1 of the older writer; 2 attempts, 1 requeue | refinement of the replay engine; fingerprints identify input; attempts match the queue; inspection never fails; a request in work stays pending until its worker settles it; the evidence behind the publication grows |
| `replay_liveness` | 1 ingester, 1 worker | every request settles; every committed delivery is published or waits for an operator |
| `source_files` | 4 producers of one name (acceptable metadata, a source system `verify_delivery` rejects, a schema version both gates reject, an entity the producer rejects), one reader per gate, crashes and power loss | a visible manifest has its whole data; a gate rejects a file only for the metadata it declares, and all verdicts are on one manifest; two READY verdicts agree; under the producer contract every gate reaches the verdict the metadata deserves and nothing blocks it |
| `archival` | 2 workers, 2 batches with one object, a foreign writer | ARCHIVED means verified; the last copy and the marker are kept; objects are immutable |
| `archival_liveness` | 1 worker, crashes and power loss | no half-written file under a final name; retries finish wherever earlier attempts stopped |
| `incremental` | 2 orders, 2 payments, refund, fee, 2 lines, 2 payouts; 2 changes; 3 report states | the plan is the least closed set; what it leaves out reconciles to the same rows; windows are the days; no false reconciliation; every movement is explained; every computed result passes the publication validators; late-data classification fails closed and agrees with the plan about days; each iteration of the worklist makes progress |
| `completeness` | 3 order reports (one quarantined, one with its own generation time) for two days, 1 payment report with a wrong manifest; cutoffs before, at and between deadlines, clocks going forward | both evaluators agree but for what only one of them sees; PENDING and INCOMPLETE are right by the wall clock; time alone only makes a pending report overdue; published completeness is current when nothing is queued; a past cutoff is only revised by evidence that belongs there |
| `publication` | 3 publishers on 2 store instances, 1 reader, 3 publications, one run that fails validation; failures and power loss anywhere | refinement of the durable register; a reader gets a whole result no older than any acknowledged before its call |

Runs in which the code disagrees with its documentation, a comment or a test:

| Run | Disagreement |
|---|---|
| `replay_cutoff` | A rebuild that runs after a later delivery committed uses it in its amounts, although its completeness evaluation is at the request's frozen `as_of_utc`. |
| `replay_unlocked_writer` | `record_delivery` can commit between two evidence reads, since it does not take the lock every financial writer is said to take; the stored fingerprint then names a batch the result was not built from. |
| `unreported_movement` | Expected movements are compared per payout header; a movement on a day without one is never reported as missing. |

Observed without a run of its own: the loser of a race between two producers
leaves its `.part` file, after which the gate reports the finished delivery as
not ready (`source_files.py:284`); `source_files.py:4` asks for one producer per filename.
Behaviours with `contract` true keep to that, and only they are asked to end
with a verdict. An order in `PAYMENT_PENDING`
with a capture gets no code and can be `RECONCILED`. Two canonical payouts on
one day make every rebuild raise. Also:

- The producer and the two gates check different metadata. `publish_source_file`
  writes any schema version and any source system, `inspect_source_file` rejects
  an unsupported schema version (`source_files.py:354`) and never looks at the
  source system, `verify_delivery` also rejects a source system that is not the
  report's (`durable_ingestion.py:208`). The file of
  `tests/test_source_files.py:38` (`PAYMENT_PROVIDER`) is READY for the first
  gate and rejected by the second.
- The request of an empty report has no trigger receipt, and `inspect_recovery`
  (`recovery_behavior.py:122`) raises for it in every state; `ReplaySystem`
  models the request, and `InspectionIsTotal` leaves it out.
- A retry of archival that finds the object returns without the directory fsync
  an interrupted attempt owed (`archival.py:207`) and then unlinks the source; a
  loss of power can take both.
- `publish` can raise after `os.replace` (directory fsync or clock); the failed
  candidate is then already the published result, while
  `docs/financial-contracts.md:424` says that a failed run leaves it unchanged.
  The register therefore lets an unacknowledged publication take effect. A
  write that fails leaves its temporary file, since `temporary_path` is set
  after the fsync.
- Nothing re-evaluates completeness when a deadline passes, although
  `docs/financial-contracts.md:291` mentions a catch-up on a deadline
  transition; a recorded but defective delivery can declare a new day without
  scheduling a rebuild; a delayed retry with an older cutoff that publishes last
  takes the published completeness back to that cutoff. `PublishedIsCurrent`
  names these cases as its exceptions and holds in every other.
- `load_completeness` restricts the batches by `as_of_utc`, but not the expected
  days: a day first declared later is held against an earlier cutoff.
- A delivery that fails verification is `INCOMPLETE` to both evaluators, but for
  a different reason: the ledger reports it as missing.
- The evaluators differ on what only one of them sees. Quarantined rows and
  damaged bytes of a committed batch make a report unresolved for
  `load_completeness` (`durable_completeness.py:90`), while `evaluate_report`
  calls the same files COMPLETE. A `generated_at_utc` after the receipt is
  `MANIFEST_GENERATED_AFTER_RECEIPT` for `evaluate_report`; the manifests that
  `verify_delivery` accepts have no such field, although
  `docs/financial-contracts.md:176` lists it, so the ledger calls the report
  COMPLETE.
- A second settlement line for a movement of a covered payout marks that payout
  as well, although the line's own payout date makes it `FUTURE_IMPACT`.

### Bounds

- Ingestion: three deliveries contain each interesting pair (first version and
  conflict, conflict and correction, repeat inside a file and between files).
  Two ingesters are every interleaving of two transactions; the locks admit one
  at a time. `MaxTime` bounds the clock.
- Replay: two attempts and one requeue reach success, retry, exhaustion and
  reuse of an exhausted row. `AttemptBound` limits requeues, `MaxTime` the
  clock; `BaseDelay` 1 and a clock of 2 make a request both delayed and ready.
- File modules: two producers or workers make every race on one path (the
  handshake has one more for each kind of metadata); crashes and losses of power
  are not counted, they may happen anywhere.
- Incremental: two ledgers (one fully reconciled) and two consecutive changes
  among corrections that move a payment to another order and day, cancel an
  order, fail a payment or refund, move a fee and duplicate a line. The days 1,
  2 and 4 contain a neighbour and a gap. The amounts are chosen at a rounding
  half (45.5 cents) and off one. `CHECK_DEADLOCK FALSE` is set because the
  behaviour ends at `MaxChanges`.
- Completeness: two deliveries of one report and day (the later one wins), a
  second day of the same report (the worst day wins) and a delivery that fails
  verification. The hours 47, 58 and 71 lie before the first deadline, exactly
  on the noon deadline of day 1 and exactly on the first deadline of day 2, in
  the night the clocks go forward; the autumn change is covered by the proof.
  `CHECK_DEADLOCK FALSE`: the behaviour ends when every delivery was handled and
  the last hour is reached.
- Publication: two threads of one store and a process with its own store make
  every race; three publications let an acknowledged one be followed by a
  failing and a lost one. Losses of power are not counted.

Symmetry is used for interchangeable workers, ingesters and batches in runs
that check no liveness.

### Fairness

- An ingester that has started makes progress (WF): its statements return.
  Starting one is not fair: nobody has to deliver.
- A worker gets the financial lock if it is free again and again (SF):
  PostgreSQL's lock queue is first come, first served, and the DAG starts a
  drain every minute. Its other steps are WF. Failing, crashing and requeueing
  are never fair.
- The clock advances (WF).
- `RequestsSettle` and `CommittedIsPublished` assume that crashes which cost
  work come to an end (`CrashesEnd`): a crash before the failure is recorded is
  not counted, so a worker that always crashes there retries for ever.
- Archival: retries are started as long as a batch is not archived (SF), steps
  of a running attempt are WF, and interruptions, losses of power included, end
  (`InterruptionsEnd`).
- File handshake: a producer that has begun and the polling readers go on (WF).

The planner is a loop in one process; that it ends is `ExpansionDescends`, a
variant that needs no fairness and is proved.

## 4. Proofs

The type invariants (`IngestTypeOK`, `ReplayTypeOK`, `PlanTypeOK`,
`PublicationTypeOK`, `StoredTypeOK`, `ArchiveTypeOK`, `SourceTypeOK`) are theorems;
only `SourceTypeOK` is still part of a run.

TLAPS proves the following for every value of the constants that the named
assumptions of the modules admit. Besides types these say: a ledger of canonical
records is finite and has one version of each entity (`PlanAssumption`, what
`canonicalize` returns), the two kinds of readers of the file gate are different
processes (`SourceAssumption`), and absent evidence is no evidence
(`AbsentAssumption`).

**DurableIngestionProofs.** `IngestTypeCorrect`, `ResolutionCorrect`
(`ResolutionMatchesCanonical`), `RetryCorrect` (`RetryFindsWholeDelivery`),
`DispositionsCorrect` (`DispositionsMatchCanonical`) and `HistoryCorrect`
(`HistoryIsImmutable`).
`ResolutionMatchesCanonical` speaks of committed rows only and is not
inductive: what a commit writes was computed two steps earlier. The invariant
`IngestInv` adds that whoever is past the first step holds the financial lock
(`LockIsHeld`), that the delivery in work is not committed (`DeliveryIsNew`),
that history rows are exactly the delivered variants (`HistoryIsDelivered`),
and that the staged resolution is the one of the history including the staged
rows (`ResolvedIsCurrent`, `ResolutionIsCurrent`). The lock is what makes the
staged part stable under the other ingesters' steps. Dispositions are not a
function of the committed receipts until the last reclassification is known, so
`DispositionInv` adds that each one is what `_resolve_entity` gave it when it last
resolved the entity and that nothing has outdated it (`DispositionsAreCurrent`),
that a variant has one history row (`HistoryIsUnique`), and the same of what a
transaction holds back (`StagedIsComplete`).

**ReplaySystemProofs.** `ReplayTypeCorrect` and `EngineImplemented`
(`Spec => Engine!EngineSpec`), the refinement. `ReplayInv` consists of types,
the ingestion invariant,
`EvidenceInv` (committed receipts are quarantined exactly when their row was
rejected, and so are all receipts of the older writer) and
`CandidateIsCurrent`: between build and publish, a candidate's view is the
canonical view of everything committed, because its worker holds the lock and
the older writer's rows are never canonical. Every action but the
publication is a stutter or an acceptance of the abstract engine.
`EvidenceAlwaysUsable` follows with `DispositionInv`: `build_candidate` never
finds an unresolved receipt in a finalized batch, so neither of its
`RuntimeError`s can use up the attempts of a request.

**RecoveryQueueProofs.** `QueueCorrect` (`AttemptsMatchQueue`),
`InspectionCorrect` (`InspectionIsTotal`), `TakenCorrect`
(`TakenStaysPending`), `EvidenceGrows` (`PublishedEvidenceGrows`),
`FingerprintCovers` and `FingerprintExact`. `QueueInv` says of each row that its
attempt history and its counters match (`RowsAreSound`) and that requests and
published runs name each other (`RunsMatchRequests`); every branch of
`inspect_recovery` that raises contradicts one of the two. `TakenStaysPending`
follows from `ReplayInv`: from `next_ready` to the settlement the worker holds the
session lock, which keeps out the other workers and the ingesters, and
`requeue_failed`, which it does not keep out, touches only failed requests
(`WorkerIsAlone`, `NextKeepsTaken`). That evidence only
grows needs the candidates, not only the published runs: what a worker has read
contains what the published run used, because batches stay finalized and the
holder of the lock is the only one to publish (`EvidenceIsCovered`).
`FingerprintIdentifiesInput` is false once the older writer has finalized a
defective delivery between two reads of a rebuild (`replay_unlocked_writer`).
`FingerprintExact` proves it for as long as no such delivery was recorded
(`NothingDefective`); `FingerprintCovers` proves without a condition that the
fingerprint covers all the batches a run used and names exactly its resolutions.

**IncrementalReplayProofs.** For every set of records, change and order of the
worklist:

- The planner: `PlanTypeCorrect`, `ExpansionCorrect` (`ExpansionIsLeast`) and
  `ExpansionProgress` (`ExpansionDescends`). `WorklistInv` is the classical
  invariant of a search: the changed keys are visited or pending, so are the
  neighbours of a visited key and everything on a visited day; the visited days
  are the days of the visited keys; nothing visited or pending is outside any
  closed set that holds the seeds; an unknown visited key has set a reason.
- The plan against the rules: `PlanCorrect` (`PlanCoversChange`). `ChangeInv`
  relates the planner's inputs: the records before and after differ in the
  changed versions only, and each has one version of an entity. From this and
  closedness the plan `Separates` the difference from the rest: a record outside
  the plan is in both ledgers, and what it names and its day are outside too.
  Each operator of `Reconcile` then gives the same row for an order or a payout
  outside the plan.
- The windows: `WindowsCorrect` (`WindowsAreTheDays`). `LoopInv` is the loop
  invariant of `compress_dates`: behind the days seen so far, the finished windows
  and the open one are their runs. A plan has finitely many days (`FiniteInv`).
- Late data: `LateDatesCorrect` (`LateDatesArePlanned`) and `LateDataCorrect`
  (`LateDataFailsClosed`). If every day of a change lies behind the covered ones,
  each ledger has everything the other one has on the covered days
  (`KeepsCovered`), and movements and payouts of a day depend on nothing else.
- The rules themselves: `ResultsCorrect` (`ResultsArePublishable`),
  `ReconciliationCorrect` (`NoFalseReconciliation`) and `MovementsExplained`
  (`EveryMovementIsExplained`). The last two compare sums over different index
  sets: over the lines of a payout and the movements of a day, over movements
  and over orders. The laws they need (a sum exists and is unique, sums of unions,
  of disjoint families, of images, of differences) are not in the library and
  are proved from the recursive definition of `MapThenSumSet`; in place of an
  induction over finite sets, a smallest subset that violates the law is
  contradicted (`FS_StrictSubsetOrderingWellFounded`). The same argument serves
  the loop of `compress_dates`.

**SourceFilesProofs.** `SourceTypeCorrect`, `ManifestCompletes`
(`ManifestCompletesData`), `RejectionIsDeserved`
(`RejectedForItsMetadata`), `VerifiedOnce`
(`OneVerifiedDelivery`) and `NotBlocked` (`CompletedIsNotBlocked`), for any number
of racing producers with any metadata, crashes and losses of power. A manifest completes its data
only if it was that producer's data which was renamed before: `PublishInv` says
that one producer has the `.part` file (`ClaimIsExclusive`), that behind the
second check it is alone and what it renames is on the disk (`WriterIsAlone`), and
what stands under the final names in between. `ReaderOK` says what each reader
may have seen so far: a reader that found the manifest finds the data, and what
it verified or rejected is the declaration for data that is durable and stays
(`VerifiedIsDurable`, `RejectedIsDurable`). `DeclarationsParse` keeps what the
producer's own check established, so that a rejection can only be about the
schema version or the source system.
`ContractIsKept` is the invariant of behaviours that keep to the producer
contract: every temporary file has a producer at work on it.

**FilePublicationProofs.** `PublicationTypeCorrect`, `ReadersSeeAcknowledged`
(`ReadsAreFresh`) and `PublicationRefines` (`ImplementsRegister`), for any number
of runs, stores, publishers and readers. `PublicationInv` adds that every file
under the target name was fsynced before its rename and holds a publishable run
(`EntriesAreWhole`), that a publisher between its directory fsync and its receipt
has a durable position (`PublishersAreOrdered`), that no receipt was returned for
a position that is not durable (`acked <= stable`), and that readers opened an existing entry no
older than the last receipt before their call (`ReadersAreBehind`). The store
lock is not needed for any of it: the temporary file is private and the rename
is atomic.

**ArchivalProofs.** `ArchiveTypeCorrect`, `MarkerPreserved`
(`MarkerIsPreserved`), `NothingIsTorn` (`NoTornFile`) and, under the assumption
that power is not lost, `ObjectsImmutable` (`ObjectsAreImmutable`),
`ArchivedVerified` (`ArchivedIsVerified`) and `EvidenceKept` (`EvidenceIsKept`),
for any batches, objects, workers, failures and foreign
writers of source files. `WorkersHoldLock` says that whoever is in
`archive_batch` holds the archive lock and, past the preparation, works on a
committed batch: this is why nobody else can take back a marker. Objects change
only where there is none, so the bytes verified by an installation are still
there when the marker is written (`ObjectIsVerified`); they are also the copy
that remains when the source is unlinked. Without the assumption
`ArchivedIsVerified` is false: see the missing directory fsync in section 3.
`NoTornFile` needs no assumption, but the temporary files: `WholeInv` adds that
one that was fsynced, and may be renamed, is whole on the disk (`TempsAreWhole`).

**CompletenessProofs.** `StoredTypeCorrect`, `PublishedDueCorrect`
(`PublishedIsDue`), `CutoffIsStable` (`OnlyEvidenceReachesBack`), `OnlyWorsens`
(`TimeAloneOnlyWorsens`), `EvaluatorsCorrect` (`EvaluatorsAgree`) and
`PublishedCurrent` (`PublishedIsCurrent`), for any deliveries, any instants and any pair of clock
changes. The core is `DeadlineIsWallClock`: comparing a UTC hour with
`report_deadline_utc` is reading the wall clock in Berlin, also in the skipped
and the repeated hour. `WorstIsAReport` shows that the maximum of
`load_completeness` exists; it rests on the least-number principle
(`LeastNatural`), derived from the well-foundedness of strict inclusion on finite
sets. `DueInv` adds that a pending request belongs to a batch in the ledger with
a receipt time (`RequestsAreGrounded`), so that a rebuild has an expected day.
`SoundInv` adds that a batch was received by now and has the status its files
deserve (`BatchesAreSound`): `EvaluatedByFiles` then computes what
`evaluate_report` says of its files, and `EvaluatorsAgree` compares it with the
ledger case by case, the cases in which the two differ included.
`PublishedIsCurrent` compares the published run with the present and says nothing
of what a rebuild in between must find. Its invariant `PublishedWasComputed` is
about the published run's own cutoff: once no request is pending, what is
published is what the ledger says of that cutoff now.

Every safety property of a passing run is thus a theorem, under the conditions
named above (`NothingDefective`, power is not lost). Only model-checked are
the liveness properties (`RequestsSettle`, `CommittedIsPublished`,
`PublicationIsJudged`, `RetriesFinish`), which need fairness.

## 5. Abstractions

- Payloads are hashes; a file is the sequence of its rows; hashing is injective.
- All writes of one PostgreSQL transaction are one step. The statements of
  `input_fingerprint` are one read (`InputFingerprint`): under the lock nothing
  commits between them, and the older writer, which does, is met between the
  steps that are modelled.
- `RecoveryBehavior` compares rows; the hash and version verification of a
  published result (`recovery_behavior.py:147`) is left out with the payloads.
- `IsPublishable` leaves out the uniqueness of exception and completeness keys
  (`publication.py:209`) and the variance of exceptions (`publication.py:333`).
  They always hold: `reconcile.py:1400` removes duplicates by the same key,
  `_new_exception` computes the variance, and completeness has one result per
  report. Its comparison of a transaction's net amount holds by definition.
- The file gate: the records given to `publish_source_file` are JSON objects, so
  its data parses back to them. A source system is the one `enum_member` finds
  for the declared string, by name or by value.
- `as_of_utc` is read and the transaction begun in one tick of the clock.
- `next_ready` may return any of the requests that tie in its order.
- `stabilize_conflict_evidence` reads once more under the same lock and is part
  of `BuildCandidate`.
- Deliveries of the older writer and of durable ingestion have different
  delivery keys.
- After a loss of power each directory entry survives or not independently of
  the others, more than a real file system would do.
- Archival attempt counts are left out; the verification of a batch and its
  commit are one step of the environment there.
- The planner's worklist is a set: a key that is in the list twice is skipped
  the second time. The planner has no caller in the program; changes come from
  the environment.
- Completeness counts time in hours: every deadline is on a full hour. An
  ingestion and a rebuild are one step each in StoredCompleteness; ReplaySystem
  shows that the lock makes them so. The `as_of_utc` of an ingestion is an hour
  its caller read earlier, at most the current one. Of `_verify_stored_report`
  only damaged bytes and quarantined rows can occur after a commit; the other
  checks repeat what `verify_delivery` has established.
- File publication: a temporary file left behind is never read and is forgotten.
  After a loss of power the name refers to the file of the last directory fsync
  or to any later one.
- Late data: the watermark comparison is an argument; only receipts after the
  watermark are interesting. The kind of a change is the one canonicalization
  would give it.
- Amounts are cents and days numbers. Amounts of exceptions, formatting and
  parse errors are left out. Every currency is EUR, so
  `REFUND_CURRENCY_MISMATCH` cannot occur.

## 6. Plan

Done, in this order: ingestion, recovery and their composition; inspection;
file handshake; archival; reconciliation and affected windows; file publication;
completeness, stored completeness and late data.

Next:

1. The path of one file through handshake, ingestion and archival as one
   system, with the file gate deciding what StoredCompleteness may commit.

### Not modelled

- The drain loop of `recovery_runner.py` and the wiring of the runtime: the loop
  calls `run_next` until nothing is ready or its limit is reached and keeps no
  state; that it runs again is the fairness of ReplaySystem.
- Serialization, `InMemoryPublicationStore` (a test double with one lock),
  fingerprint hashing and row formatting: conversions without a state.
- Argument parsing, DAG definitions, generator, benchmarks, running and
  reverting migrations.
- Liveness is model-checked, not proved.
