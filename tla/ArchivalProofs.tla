---------------------------- MODULE ArchivalProofs --------------------------
(***************************************************************************)
(* Proofs about archival, for any batches, objects and workers and any     *)
(* failures: its types, that a committed marker is not taken back, that    *)
(* not even a loss of power tears a file and, as long as power is not      *)
(* lost, that archive objects never change, that ARCHIVED means verified   *)
(* and that the last verified copy of a batch is never destroyed.          *)
(***************************************************************************)
EXTENDS Archival, TLAPS

\* Whoever is in archive_batch holds the archive lock, and works on a batch
\* that was committed when it got past _prepare_attempt.
WorkersHoldLock ==
    \A w \in Worker :
        /\ pc[w] # "idle" => archiveLock = w
        /\ marker[w] => pc[w] # "idle"
        /\ pc[w] \notin {"idle", "prepare"} => job[w] \in committed

ArchiveInv == ArchiveTypeOK /\ WorkersHoldLock

\* From the verification of the source to the marker the object is verified.
BehindInstall == {"verifySource", "unlink", "syncSource", "mark"}

ObjectIsVerified ==
    \A w \in Worker : pc[w] \in BehindInstall =>
        file[ObjectOf[job[w]]] = Checksum[ObjectOf[job[w]]]

\* What a step does to the objects.
ObjectsStay == \A o \in Object : Exists(o) => file'[o] = file[o]

\* The names and bytes a worker deals with.
LEMMA WorkerPaths ==
    ASSUME NEW w \in Worker, ArchiveTypeOK
    PROVE  /\ job[w] \in Batch /\ ObjectOf[job[w]] \in Object
           /\ job[w] \in Path /\ ObjectOf[job[w]] \in Path
           /\ From(w) \in Path /\ To(w) \in Path
           /\ ChecksumOf(w) \in Contents
BY ArchiveAssumption DEF ArchiveTypeOK, From, To, ChecksumOf, Contents

\* Where a worker goes after an exception or an installation.
LEMMA RaiseGoes ==
    ASSUME NEW w \in Worker, ArchiveTypeOK, Raise(w)
    PROVE  /\ pc' \in [Worker -> WorkerPC]
           /\ pc'[w] \in {"record", "failed"}
           /\ \A v \in Worker \ {w} : pc'[v] = pc[v]
BY DEF Raise, Goto, ArchiveTypeOK, WorkerPC

LEMMA InstalledGoes ==
    ASSUME NEW w \in Worker, ArchiveTypeOK, Installed(w)
    PROVE  /\ pc' \in [Worker -> WorkerPC]
           /\ pc'[w] = IF restoring[w] THEN "record" ELSE "verifySource"
           /\ \A v \in Worker \ {w} : pc'[v] = pc[v]
BY DEF Installed, Goto, ArchiveTypeOK, WorkerPC

\* Surviving bytes are bytes.
LEMMA SurvivingType ==
    ASSUME NEW p \in Path, FileTypeOK
    PROVE  Surviving(p) \in Contents
BY DEF FileTypeOK, Surviving, Contents

\* The file operations keep the types of the file system.
LEMMA PutType ==
    ASSUME NEW p \in Path, NEW bytes \in Contents, NEW f \in BOOLEAN,
           FileTypeOK, Put(p, bytes, f)
    PROVE  FileTypeOK'
BY DEF FileTypeOK, Put, Contents

LEMMA FsyncDirectoryType ==
    ASSUME NEW entries, FileTypeOK, FsyncDirectory(entries)
    PROVE  FileTypeOK'
<1>1. durable' \in [Path -> Contents]
  BY SurvivingType DEF FileTypeOK, FsyncDirectory
<1> QED
  BY <1>1 DEF FileTypeOK, FsyncDirectory, Contents

LEMMA FilesKept ==
    ASSUME FileTypeOK, UNCHANGED fileVars
    PROVE  FileTypeOK'
BY DEF FileTypeOK, fileVars, Contents
-----------------------------------------------------------------------------
(* Types and the lock *)

\* The steps of an attempt move the worker that holds the lock between
\* places behind _prepare_attempt and leave its job, lock and marker alone.
Moves(w) ==
    /\ pc[w] \notin {"idle", "prepare"}
    /\ pc' \in [Worker -> WorkerPC]
    /\ pc'[w] \notin {"idle", "prepare"}
    /\ \A v \in Worker \ {w} : pc'[v] = pc[v]

LEMMA AttemptKeeps ==
    ASSUME NEW w \in Worker, ArchiveInv, Moves(w), FileTypeOK',
           temp' \in [Worker -> [bytes : Contents, fsynced : BOOLEAN]],
           restoring' \in [Worker -> BOOLEAN],
           UNCHANGED <<rowVars, archiveLock, job, marker>>
    PROVE  ArchiveInv'
<1>1. ArchiveTypeOK'
  BY DEF ArchiveInv, ArchiveTypeOK, Moves, rowVars, Contents
<1>2. WorkersHoldLock'
  BY DEF ArchiveInv, ArchiveTypeOK, WorkersHoldLock, Moves, rowVars
<1> QED
  BY <1>1, <1>2 DEF ArchiveInv

\* Ending a session keeps the invariant.
LEMMA EndSessionKeeps ==
    ASSUME NEW w \in Worker, ArchiveInv, EndSession(w), pc[w] # "idle",
           UNCHANGED <<fileVars, committed>>,
           status' \in [Batch -> {"PENDING", "FAILED", "ARCHIVED"}]
    PROVE  ArchiveInv'
<1>1. FileTypeOK'
  BY FilesKept DEF ArchiveInv, ArchiveTypeOK
<1>2. temp' \in [Worker -> [bytes : Contents, fsynced : BOOLEAN]]
  BY DEF ArchiveInv, ArchiveTypeOK, EndSession, NoTemp, Contents
<1>3. ArchiveTypeOK'
  BY <1>1, <1>2
  DEF ArchiveInv, ArchiveTypeOK, EndSession, Goto, WorkerPC, Contents
<1>4. WorkersHoldLock'
  BY DEF ArchiveInv, ArchiveTypeOK, WorkersHoldLock, EndSession, Goto
<1> QED
  BY <1>3, <1>4 DEF ArchiveInv

LEMMA InitArchive == Init => ArchiveInv
<1> SUFFICES ASSUME Init
             PROVE  ArchiveInv
  OBVIOUS
<1>1. FileTypeOK
  <2>1. PICK objects \in [Object -> {NoFile, Foreign}] :
           FileInit([p \in Path |-> IF p \in Batch THEN Checksum[ObjectOf[p]]
                                    ELSE objects[p]])
    BY DEF Init
  <2>2. \A p \in Path : (IF p \in Batch THEN Checksum[ObjectOf[p]]
                         ELSE objects[p]) \in Contents
    BY <2>1, ArchiveAssumption DEF Contents
  <2> QED
    BY <2>1, <2>2 DEF FileInit, FileTypeOK
<1>2. (CHOOSE b \in Batch : TRUE) \in Batch
  BY ArchiveAssumption
<1>3. ArchiveTypeOK
  BY <1>1, <1>2 DEF Init, ArchiveTypeOK, WorkerPC, NoTemp, Contents
<1> QED
  BY <1>3 DEF Init, ArchiveInv, WorkersHoldLock

\* An attempt step that writes no file under a final name.
LEMMA QuietAttemptKeeps ==
    ASSUME NEW w \in Worker, ArchiveInv,
           \/ BeginInstall(w) \/ CopyToTemporary(w) \/ FsyncTemporary(w)
           \/ VerifyTemporary(w) \/ VerifyFinal(w) \/ VerifySource(w)
           \/ AttemptRaises(w) \/ RestoreSource(w)
    PROVE  ArchiveInv' /\ UNCHANGED <<fileVars, rowVars>>
<1> USE DEF ArchiveInv
<1>1. pc[w] \notin {"idle", "prepare"} /\ UNCHANGED <<fileVars, rowVars>>
  BY DEF BeginInstall, CopyToTemporary, FsyncTemporary, VerifyTemporary,
         VerifyFinal, VerifySource, AttemptRaises, RestoreSource,
         InstallUnchanged
<1>2. UNCHANGED <<archiveLock, job, marker>>
  BY DEF BeginInstall, CopyToTemporary, FsyncTemporary, VerifyTemporary,
         VerifyFinal, VerifySource, AttemptRaises, RestoreSource,
         InstallUnchanged
<1>3. restoring' \in [Worker -> BOOLEAN]
  BY DEF BeginInstall, CopyToTemporary, FsyncTemporary, VerifyTemporary,
         VerifyFinal, VerifySource, AttemptRaises, RestoreSource,
         InstallUnchanged, ArchiveTypeOK
<1>4. temp' \in [Worker -> [bytes : Contents, fsynced : BOOLEAN]]
  <2>1. temp \in [Worker -> [bytes : Contents, fsynced : BOOLEAN]]
    BY DEF ArchiveTypeOK
  <2>2. CASE UNCHANGED temp
    BY <2>1, <2>2
  <2>3. CASE temp' = [temp EXCEPT ![w] = NoTemp]
    BY <2>1, <2>3 DEF NoTemp, Contents
  <2>4. CASE temp' = [temp EXCEPT ![w].fsynced = TRUE]
    BY <2>1, <2>4
  <2>5. CASE temp' = [temp EXCEPT ![w] =
                        [bytes |-> file[From(w)], fsynced |-> FALSE]]
    <3>1. file[From(w)] \in Contents
      BY WorkerPaths DEF ArchiveTypeOK, FileTypeOK
    <3> QED
      BY <2>1, <2>5, <3>1
  <2> QED
    BY <2>2, <2>3, <2>4, <2>5
    DEF BeginInstall, CopyToTemporary, FsyncTemporary, VerifyTemporary,
        VerifyFinal, VerifySource, AttemptRaises, RestoreSource
<1>5. \/ Raise(w) \/ Installed(w)
      \/ \E to \in WorkerPC \ {"idle", "prepare"} : Goto(w, to)
  BY DEF BeginInstall, CopyToTemporary, FsyncTemporary, VerifyTemporary,
         VerifyFinal, VerifySource, AttemptRaises, RestoreSource, WorkerPC
<1>6. Moves(w)
  <2>1. CASE Raise(w)
    BY <1>1, <2>1, RaiseGoes DEF Moves
  <2>2. CASE Installed(w)
    BY <1>1, <2>2, InstalledGoes DEF Moves
  <2>3. CASE \E to \in WorkerPC \ {"idle", "prepare"} : Goto(w, to)
    BY <1>1, <2>3 DEF Moves, Goto, ArchiveTypeOK
  <2> QED
    BY <1>5, <2>1, <2>2, <2>3
<1>7. FileTypeOK'
  BY <1>1, FilesKept DEF ArchiveTypeOK
<1> QED
  BY <1>1, <1>2, <1>3, <1>4, <1>6, <1>7, AttemptKeeps

\* An attempt step that changes the file system.
LEMMA FileStepKeeps ==
    ASSUME NEW w \in Worker, ArchiveInv,
           \/ ReplaceDestination(w) \/ SyncDirectory(w)
           \/ UnlinkSource(w) \/ SyncSourceDirectory(w)
    PROVE  ArchiveInv'
<1> USE DEF ArchiveInv
<1>1. pc[w] \notin {"idle", "prepare"} /\ InstallUnchanged
  BY DEF ReplaceDestination, SyncDirectory, UnlinkSource, SyncSourceDirectory
<1>2. temp \in [Worker -> [bytes : Contents, fsynced : BOOLEAN]]
  BY DEF ArchiveTypeOK
<1>3. temp' \in [Worker -> [bytes : Contents, fsynced : BOOLEAN]]
  <2>1. CASE ReplaceDestination(w)
    <3>1. temp' = [temp EXCEPT ![w] = NoTemp]
      BY <2>1 DEF ReplaceDestination
    <3> QED
      BY <1>2, <3>1 DEF NoTemp, Contents
  <2>2. CASE SyncDirectory(w) \/ UnlinkSource(w) \/ SyncSourceDirectory(w)
    BY <1>2, <2>2 DEF SyncDirectory, UnlinkSource, SyncSourceDirectory
  <2> QED
    BY <2>1, <2>2
<1>4. Raise(w) \/ \E to \in WorkerPC \ {"idle", "prepare"} : Goto(w, to)
  BY DEF ReplaceDestination, SyncDirectory, UnlinkSource, SyncSourceDirectory,
         WorkerPC
<1>5. Moves(w)
  <2>1. CASE Raise(w)
    BY <1>1, <2>1, RaiseGoes DEF Moves
  <2>2. CASE \E to \in WorkerPC \ {"idle", "prepare"} : Goto(w, to)
    BY <1>1, <2>2 DEF Moves, Goto, ArchiveTypeOK
  <2> QED
    BY <1>4, <2>1, <2>2
<1>6. FileTypeOK'
  <2>0. FileTypeOK
    BY DEF ArchiveTypeOK
  <2>1. CASE ReplaceDestination(w)
    <3>1. CASE Put(To(w), temp[w].bytes, temp[w].fsynced)
      <4>1. temp[w].bytes \in Contents /\ temp[w].fsynced \in BOOLEAN
        BY <1>2
      <4> QED
        BY <2>0, <3>1, <4>1, WorkerPaths, PutType
    <3>2. CASE UNCHANGED fileVars
      BY <2>0, <3>2, FilesKept
    <3> QED
      BY <2>1, <3>1, <3>2 DEF ReplaceDestination
  <2>2. CASE SyncDirectory(w)
    BY <2>0, <2>2, FsyncDirectoryType DEF SyncDirectory
  <2>3. CASE UnlinkSource(w)
    <3>1. NoFile \in Contents /\ job[w] \in Path
      BY WorkerPaths DEF Contents
    <3> QED
      BY <2>0, <2>3, <3>1, PutType DEF UnlinkSource, Unlink
  <2>4. CASE SyncSourceDirectory(w)
    BY <2>0, <2>4, FsyncDirectoryType DEF SyncSourceDirectory
  <2> QED
    BY <2>1, <2>2, <2>3, <2>4
<1>7. /\ restoring' \in [Worker -> BOOLEAN]
      /\ UNCHANGED <<rowVars, archiveLock, job, marker>>
  BY <1>1 DEF InstallUnchanged, ArchiveTypeOK
<1> QED
  BY <1>3, <1>5, <1>6, <1>7, AttemptKeeps

\* A step at which the session begins or ends, or the marker is written.
LEMMA SessionStepKeeps ==
    ASSUME NEW w \in Worker, NEW b \in Batch, ArchiveInv,
           \/ AcquireArchiveLock(w, b) \/ PrepareAttempt(w) \/ MarkArchived(w)
           \/ MarkRaises(w) \/ RecordFailure(w) \/ CrashWorker(w)
    PROVE  ArchiveInv' /\ UNCHANGED <<fileVars, committed>>
<1> USE DEF ArchiveInv
<1>1. UNCHANGED <<fileVars, committed>>
  BY DEF AcquireArchiveLock, PrepareAttempt, MarkArchived, MarkRaises,
         RecordFailure, CrashWorker, rowVars
<1>2. FileTypeOK'
  BY <1>1, FilesKept DEF ArchiveTypeOK
<1>3. job[w] \in Batch /\ status \in [Batch -> {"PENDING", "FAILED", "ARCHIVED"}]
  BY DEF ArchiveTypeOK
<1>4. CASE AcquireArchiveLock(w, b)
  <2>1. ArchiveTypeOK'
    BY <1>2, <1>4 DEF AcquireArchiveLock, ArchiveTypeOK, Goto, WorkerPC,
                      rowVars, Contents
  <2>2. WorkersHoldLock'
    BY <1>4, ArchiveAssumption
    DEF AcquireArchiveLock, ArchiveLockIsFree, ArchiveTypeOK, Goto,
        WorkersHoldLock, rowVars
  <2> QED
    BY <1>1, <2>1, <2>2
<1>5. CASE PrepareAttempt(w)
  <2>1. CASE job[w] \in committed
    <3>1. ArchiveTypeOK'
      BY <1>2, <1>5, <2>1 DEF PrepareAttempt, ArchiveTypeOK, Goto, WorkerPC,
                              rowVars, Contents
    <3>2. WorkersHoldLock'
      BY <1>5, <2>1 DEF PrepareAttempt, ArchiveTypeOK, Goto, WorkersHoldLock,
                        rowVars
    <3> QED
      BY <1>1, <3>1, <3>2
  <2>2. CASE job[w] \notin committed
    BY <1>1, <1>3, <1>5, <2>2, EndSessionKeeps DEF PrepareAttempt, rowVars
  <2> QED
    BY <2>1, <2>2
<1>6. CASE MarkArchived(w)
  <2>1. status' \in [Batch -> {"PENDING", "FAILED", "ARCHIVED"}]
    BY <1>3, <1>6 DEF MarkArchived
  <2> QED
    BY <1>1, <1>6, <2>1, EndSessionKeeps DEF MarkArchived
<1>7. CASE MarkRaises(w)
  <2>1. status' \in [Batch -> {"PENDING", "FAILED", "ARCHIVED"}]
    BY <1>3, <1>7 DEF MarkRaises
  <2>2. ArchiveTypeOK'
    BY <1>2, <1>7, <2>1 DEF MarkRaises, ArchiveTypeOK, Goto, WorkerPC, Contents
  <2>3. WorkersHoldLock'
    BY <1>7 DEF MarkRaises, ArchiveTypeOK, Goto, WorkersHoldLock
  <2> QED
    BY <1>1, <2>2, <2>3
<1>8. CASE RecordFailure(w)
  <2>1. status' \in [Batch -> {"PENDING", "FAILED", "ARCHIVED"}]
    BY <1>3, <1>8 DEF RecordFailure
  <2> QED
    BY <1>1, <1>8, <2>1, EndSessionKeeps DEF RecordFailure
<1>9. CASE CrashWorker(w)
  BY <1>1, <1>3, <1>9, EndSessionKeeps DEF CrashWorker, rowVars
<1> QED
  BY <1>4, <1>5, <1>6, <1>7, <1>8, <1>9

\* The environment and loss of power.
LEMMA EnvironmentKeeps ==
    ASSUME NEW b \in Batch, ArchiveInv,
           CommitBatch(b) \/ ChangeSource(b) \/ Redeliver(b)
    PROVE  ArchiveInv'
<1> USE DEF ArchiveInv
<1>0. FileTypeOK /\ b \in Path
  BY ArchiveAssumption DEF ArchiveTypeOK
<1>1. FileTypeOK'
  <2>1. CASE CommitBatch(b)
    BY <1>0, <2>1, FilesKept DEF CommitBatch
  <2>2. CASE ChangeSource(b)
    <3>1. Foreign \in Contents
      BY ArchiveAssumption DEF Contents
    <3> QED
      BY <1>0, <2>2, <3>1, PutType DEF ChangeSource
  <2>3. CASE Redeliver(b)
    <3>1. Checksum[ObjectOf[b]] \in Contents
      BY ArchiveAssumption DEF Contents
    <3> QED
      BY <1>0, <2>3, <3>1, PutType DEF Redeliver
  <2> QED
    BY <2>1, <2>2, <2>3
<1>2. UNCHANGED <<status, workerVars>> /\ committed' \in {committed, committed \cup {b}}
  BY DEF CommitBatch, ChangeSource, Redeliver, rowVars
<1>3. ArchiveTypeOK'
  BY <1>1, <1>2 DEF ArchiveTypeOK, workerVars, Contents
<1>4. WorkersHoldLock'
  BY <1>2 DEF WorkersHoldLock, workerVars
<1> QED
  BY <1>3, <1>4

LEMMA PowerLossKeeps ==
    ASSUME ArchiveInv, PowerLoss
    PROVE  ArchiveInv'
<1> USE DEF ArchiveInv
<1>1. FileTypeOK'
  BY DEF PowerLoss, LosePower, FileTypeOK, Contents
<1>2. temp' \in [Worker -> [bytes : Contents, fsynced : BOOLEAN]]
  BY DEF PowerLoss, NoTemp, Contents
<1>3. ArchiveTypeOK'
  BY <1>1, <1>2 DEF PowerLoss, ArchiveTypeOK, WorkerPC, rowVars, Contents
<1>4. WorkersHoldLock'
  BY DEF PowerLoss, WorkersHoldLock
<1> QED
  BY <1>3, <1>4

LEMMA NextKeepsArchive == ArchiveInv /\ [Next]_vars => ArchiveInv'
<1> SUFFICES ASSUME ArchiveInv, [Next]_vars
             PROVE  ArchiveInv'
  OBVIOUS
<1>1. ASSUME NEW w \in Worker, NEW b \in Batch, AcquireArchiveLock(w, b)
      PROVE  ArchiveInv'
  BY <1>1, SessionStepKeeps
<1>2. ASSUME NEW w \in Worker, WorkerProgress(w) \/ Interruption(w)
      PROVE  ArchiveInv'
  <2>1. PICK b \in Batch : TRUE
    BY ArchiveAssumption
  <2> QED
    BY <1>2, <2>1, QuietAttemptKeeps, FileStepKeeps, SessionStepKeeps
    DEF WorkerProgress, Interruption
<1>3. ASSUME NEW b \in Batch, CommitBatch(b) \/ ChangeSource(b) \/ Redeliver(b)
      PROVE  ArchiveInv'
  BY <1>3, EnvironmentKeeps
<1>4. CASE PowerLoss
  BY <1>4, PowerLossKeeps
<1>5. CASE UNCHANGED vars
  BY <1>5 DEF vars, fileVars, rowVars, workerVars, ArchiveInv, ArchiveTypeOK,
              FileTypeOK, WorkersHoldLock, Contents
<1> QED
  BY <1>1, <1>2, <1>3, <1>4, <1>5 DEF Next

\* Attempts, failures, foreign writers and losses of power keep ArchiveInv.
THEOREM ArchiveInvariant == Spec => []ArchiveInv
<1> QED
  BY InitArchive, NextKeepsArchive, PTL DEF Spec

\* archive_batch keeps its types: archive_status is one of the three values of
\* the schema, whatever fails.
THEOREM ArchiveTypeCorrect == Spec => []ArchiveTypeOK
<1>1. ArchiveInv => ArchiveTypeOK
  BY DEF ArchiveInv
<1> QED
  BY <1>1, ArchiveInvariant, PTL
-----------------------------------------------------------------------------
(* The marker *)

\* A step changes the status of a batch only for the worker that holds the
\* lock, so that nobody else can take back the marker of w.
LEMMA MarkerStays ==
    ASSUME ArchiveInv, [Next]_vars, NEW w \in Worker,
           marker[w], status[job[w]] = "ARCHIVED"
    PROVE  status'[job[w]] = "ARCHIVED"
<1> USE DEF ArchiveInv
<1>1. job[w] \in Batch /\ status \in [Batch -> {"PENDING", "FAILED", "ARCHIVED"}]
  BY DEF ArchiveTypeOK
<1>2. archiveLock = w
  BY DEF WorkersHoldLock
<1>3. ASSUME NEW v \in Worker, pc[v] # "idle"
      PROVE  v = w
  BY <1>2, <1>3 DEF WorkersHoldLock
<1>4. ASSUME NEW v \in Worker, MarkArchived(v) \/ MarkRaises(v) \/ RecordFailure(v)
      PROVE  status'[job[w]] = "ARCHIVED"
  <2>1. v = w
    BY <1>3, <1>4 DEF MarkArchived, MarkRaises, RecordFailure
  <2> QED
    BY <1>1, <1>4, <2>1
    DEF MarkArchived, MarkRaises, RecordFailure, MayRecordFailure
<1>5. CASE UNCHANGED status
  BY <1>5
<1>6. ASSUME NEW v \in Worker, WorkerProgress(v) \/ Interruption(v)
      PROVE  \/ UNCHANGED status
             \/ MarkArchived(v) \/ MarkRaises(v) \/ RecordFailure(v)
  BY <1>6 DEF WorkerProgress, Interruption, PrepareAttempt, BeginInstall,
     CopyToTemporary, FsyncTemporary, VerifyTemporary, ReplaceDestination,
     SyncDirectory, VerifyFinal, VerifySource, UnlinkSource,
     SyncSourceDirectory, RestoreSource, AttemptRaises, CrashWorker,
     InstallUnchanged, rowVars
<1>7. \/ UNCHANGED status
      \/ \E v \in Worker : MarkArchived(v) \/ MarkRaises(v) \/ RecordFailure(v)
  <2>1. ASSUME NEW v \in Worker, NEW b \in Batch, AcquireArchiveLock(v, b)
        PROVE  UNCHANGED status
    BY <2>1 DEF AcquireArchiveLock, rowVars
  <2>2. ASSUME NEW b \in Batch, CommitBatch(b) \/ ChangeSource(b) \/ Redeliver(b)
        PROVE  UNCHANGED status
    BY <2>2 DEF CommitBatch, ChangeSource, Redeliver, rowVars
  <2>3. PowerLoss => UNCHANGED status
    BY DEF PowerLoss, rowVars
  <2>4. UNCHANGED vars => UNCHANGED status
    BY DEF vars, rowVars
  <2> QED
    BY <1>6, <2>1, <2>2, <2>3, <2>4 DEF Next
<1> QED
  BY <1>4, <1>5, <1>7

\* preserve_committed_marker, for any workers and failures: an ARCHIVED marker
\* whose acknowledgement was lost is not overwritten by the failure handler.
THEOREM MarkerPreserved == Spec => MarkerIsPreserved
<1>1. ArchiveInv /\ [Next]_vars =>
        [\A w \in Worker : marker[w] /\ status[job[w]] = "ARCHIVED" =>
            status'[job[w]] = "ARCHIVED"]_vars
  <2> SUFFICES ASSUME ArchiveInv, [Next]_vars, NEW w \in Worker,
                      marker[w], status[job[w]] = "ARCHIVED",
                      vars' # vars
               PROVE  status'[job[w]] = "ARCHIVED"
    OBVIOUS
  <2>1. status'[job[w]] = "ARCHIVED"
    BY MarkerStays
  <2> QED
    BY <2>1
<1> QED
  BY <1>1, ArchiveInvariant, PTL DEF Spec, MarkerIsPreserved
-----------------------------------------------------------------------------
(* Objects, as long as power is not lost *)

\* os.replace happens only where nothing is, and only sources are unlinked.
LEMMA NextKeepsObjects ==
    ASSUME ~PowerFails, ArchiveInv, [Next]_vars
    PROVE  ObjectsStay
<1> USE DEF ArchiveInv
<1>1. FileTypeOK
  BY DEF ArchiveTypeOK
<1>2. CASE UNCHANGED fileVars
  BY <1>2 DEF fileVars, ObjectsStay
<1>3. ASSUME NEW w \in Worker, ReplaceDestination(w)
      PROVE  ObjectsStay
  <2>1. \/ UNCHANGED fileVars
        \/ ~Exists(To(w)) /\ file' = [file EXCEPT ![To(w)] = temp[w].bytes]
    BY <1>3 DEF ReplaceDestination, Put
  <2>2. CASE ~Exists(To(w)) /\ file' = [file EXCEPT ![To(w)] = temp[w].bytes]
    BY <1>1, <2>2, ArchiveAssumption DEF ObjectsStay, FileTypeOK
  <2> QED
    BY <1>2, <2>1, <2>2
<1>4. ASSUME NEW b \in Batch, NEW bytes, Put(b, bytes, TRUE)
      PROVE  ObjectsStay
  BY <1>1, <1>4, ArchiveAssumption DEF ObjectsStay, Put, FileTypeOK
<1>5. ASSUME NEW w \in Worker, UnlinkSource(w)
      PROVE  ObjectsStay
  BY <1>4, <1>5, WorkerPaths DEF UnlinkSource, Unlink
<1>6. ASSUME NEW w \in Worker, SyncDirectory(w) \/ SyncSourceDirectory(w)
      PROVE  ObjectsStay
  BY <1>6 DEF SyncDirectory, SyncSourceDirectory, FsyncDirectory, ObjectsStay
<1>7. ASSUME NEW w \in Worker, WorkerProgress(w) \/ Interruption(w)
      PROVE  ObjectsStay
  <2>1. \/ UNCHANGED fileVars
        \/ ReplaceDestination(w) \/ SyncDirectory(w)
        \/ UnlinkSource(w) \/ SyncSourceDirectory(w)
    BY <1>7 DEF WorkerProgress, Interruption, PrepareAttempt, BeginInstall,
       CopyToTemporary, FsyncTemporary, VerifyTemporary, VerifyFinal,
       VerifySource, MarkArchived, RestoreSource, RecordFailure, MarkRaises,
       AttemptRaises, CrashWorker
  <2> QED
    BY <1>2, <1>3, <1>5, <1>6, <2>1
<1>8. ASSUME NEW b \in Batch, CommitBatch(b) \/ ChangeSource(b) \/ Redeliver(b)
      PROVE  ObjectsStay
  BY <1>2, <1>4, <1>8 DEF CommitBatch, ChangeSource, Redeliver
<1>9. ASSUME NEW w \in Worker, NEW b \in Batch, AcquireArchiveLock(w, b)
      PROVE  ObjectsStay
  BY <1>2, <1>9 DEF AcquireArchiveLock
<1>10. CASE UNCHANGED vars
  BY <1>2, <1>10 DEF vars
<1> QED
  BY <1>7, <1>8, <1>9, <1>10 DEF Next, PowerLoss

\* _install_verified_object, for any workers and failures: without a loss of
\* power nothing under a final archive name changes or disappears.
THEOREM ObjectsImmutable ==
    ASSUME ~PowerFails
    PROVE  Spec => ObjectsAreImmutable
<1>1. ArchiveInv /\ [Next]_vars =>
        [\A o \in Object : Exists(o) => file'[o] = file[o]]_vars
  BY NextKeepsObjects DEF ObjectsStay
<1> QED
  BY <1>1, ArchiveInvariant, PTL DEF Spec, ObjectsAreImmutable

\* A worker gets behind the installation with a verified object only.
LEMMA BehindInstallIsVerified ==
    ASSUME ArchiveInv, [Next]_vars, NEW v \in Worker, pc'[v] \in BehindInstall
    PROVE  /\ job'[v] = job[v]
           /\ \/ pc[v] \in BehindInstall
              \/ file[ObjectOf[job[v]]] = Checksum[ObjectOf[job[v]]]
<1> USE DEF ArchiveInv, BehindInstall
<1> DEFINE Good == /\ job'[v] = job[v]
                   /\ \/ pc[v] \in BehindInstall
                      \/ file[ObjectOf[job[v]]] = Checksum[ObjectOf[job[v]]]
<1>1. CASE UNCHANGED <<pc, job>>
  BY <1>1
<1>2. ASSUME NEW w \in Worker, NEW b \in Batch, AcquireArchiveLock(w, b)
      PROVE  Good
  BY <1>2 DEF AcquireArchiveLock, Goto, ArchiveTypeOK
<1>3. ASSUME NEW w \in Worker, EndSession(w)
      PROVE  Good
  BY <1>3 DEF EndSession, Goto, ArchiveTypeOK
<1>4. ASSUME NEW w \in Worker, UNCHANGED job,
             \E to \in WorkerPC \ BehindInstall : Goto(w, to)
      PROVE  Good
  BY <1>4 DEF Goto, ArchiveTypeOK
<1>5. ASSUME NEW w \in Worker, UNCHANGED job, Raise(w)
      PROVE  Good
  BY <1>5 DEF Raise, Goto, ArchiveTypeOK
<1>6. ASSUME NEW w \in Worker, UNCHANGED job, Installed(w),
             file[To(w)] = ChecksumOf(w)
      PROVE  Good
  BY <1>6 DEF Installed, Goto, To, ChecksumOf, ArchiveTypeOK
<1>7. ASSUME NEW w \in Worker, UNCHANGED job, pc[w] \in BehindInstall,
             \E to \in WorkerPC : Goto(w, to)
      PROVE  Good
  BY <1>7 DEF Goto, ArchiveTypeOK
<1>8. ASSUME NEW w \in Worker, WorkerProgress(w) \/ Interruption(w)
      PROVE  Good
  <2>1. CASE BeginInstall(w) \/ VerifyFinal(w)
    BY <1>4, <1>5, <1>6, <2>1
    DEF BeginInstall, VerifyFinal, InstallUnchanged, WorkerPC
  <2>2. CASE VerifySource(w) \/ UnlinkSource(w) \/ SyncSourceDirectory(w)
    BY <1>5, <1>7, <2>2
    DEF VerifySource, UnlinkSource, SyncSourceDirectory, InstallUnchanged,
        WorkerPC
  <2>3. CASE \/ CopyToTemporary(w) \/ FsyncTemporary(w) \/ VerifyTemporary(w)
             \/ ReplaceDestination(w) \/ SyncDirectory(w) \/ RestoreSource(w)
             \/ AttemptRaises(w) \/ MarkRaises(w)
    BY <1>4, <1>5, <2>3
    DEF CopyToTemporary, FsyncTemporary, VerifyTemporary, ReplaceDestination,
        SyncDirectory, RestoreSource, AttemptRaises, MarkRaises,
        InstallUnchanged, WorkerPC
  <2>4. CASE \/ PrepareAttempt(w) \/ MarkArchived(w) \/ RecordFailure(w)
             \/ CrashWorker(w)
    BY <1>3, <1>4, <2>4
    DEF PrepareAttempt, MarkArchived, RecordFailure, CrashWorker, WorkerPC
  <2> QED
    BY <1>8, <2>1, <2>2, <2>3, <2>4 DEF WorkerProgress, Interruption
<1>9. ASSUME NEW b \in Batch, CommitBatch(b) \/ ChangeSource(b) \/ Redeliver(b)
      PROVE  Good
  BY <1>1, <1>9 DEF CommitBatch, ChangeSource, Redeliver, workerVars
<1>10. CASE PowerLoss
  BY <1>10 DEF PowerLoss
<1>11. CASE UNCHANGED vars
  BY <1>1, <1>11 DEF vars, workerVars
<1> QED
  BY <1>2, <1>8, <1>9, <1>10, <1>11 DEF Next

\* Only a worker behind the installation writes the marker, and batches stay
\* committed.
LEMMA MarkedIsBehindInstall ==
    ASSUME ArchiveInv, [Next]_vars, NEW b \in Batch, status'[b] = "ARCHIVED"
    PROVE  /\ committed \subseteq committed'
           /\ \/ status[b] = "ARCHIVED"
              \/ \E w \in Worker : pc[w] = "mark" /\ job[w] = b
<1> USE DEF ArchiveInv
<1>1. status \in [Batch -> {"PENDING", "FAILED", "ARCHIVED"}]
  BY DEF ArchiveTypeOK
<1>2. CASE UNCHANGED rowVars
  BY <1>2 DEF rowVars
<1>3. ASSUME NEW w \in Worker, WorkerProgress(w) \/ Interruption(w)
      PROVE  \/ UNCHANGED rowVars
             \/ MarkArchived(w) \/ MarkRaises(w) \/ RecordFailure(w)
  BY <1>3 DEF WorkerProgress, Interruption, PrepareAttempt, BeginInstall,
     CopyToTemporary, FsyncTemporary, VerifyTemporary, ReplaceDestination,
     SyncDirectory, VerifyFinal, VerifySource, UnlinkSource,
     SyncSourceDirectory, RestoreSource, AttemptRaises, CrashWorker,
     InstallUnchanged
<1>4. ASSUME NEW w \in Worker, MarkArchived(w) \/ MarkRaises(w) \/ RecordFailure(w)
      PROVE  /\ committed \subseteq committed'
             /\ \/ status[b] = "ARCHIVED"
                \/ pc[w] = "mark" /\ job[w] = b
  BY <1>1, <1>4 DEF MarkArchived, MarkRaises, RecordFailure
<1>5. ASSUME NEW d \in Batch, CommitBatch(d) \/ ChangeSource(d) \/ Redeliver(d)
      PROVE  committed \subseteq committed' /\ status' = status
  BY <1>5 DEF CommitBatch, ChangeSource, Redeliver, rowVars
<1>6. ASSUME NEW w \in Worker, NEW d \in Batch, AcquireArchiveLock(w, d)
      PROVE  UNCHANGED rowVars
  BY <1>6 DEF AcquireArchiveLock
<1>7. PowerLoss => UNCHANGED rowVars
  BY DEF PowerLoss
<1>8. UNCHANGED vars => UNCHANGED rowVars
  BY DEF vars
<1> QED
  BY <1>2, <1>3, <1>4, <1>5, <1>6, <1>7, <1>8 DEF Next

\* The object a worker got past the installation with stays verified.
VerifiedInv == ArchiveInv /\ ObjectIsVerified

\* Without a loss of power an object that has its checksum keeps it.
LEMMA VerifiedObjectsStay ==
    ASSUME ~PowerFails, ArchiveInv, [Next]_vars,
           NEW o \in Object, file[o] = Checksum[o]
    PROVE  file'[o] = Checksum[o]
<1>1. Exists(o)
  BY ArchiveAssumption, FileAssumption DEF Exists
<1> QED
  BY <1>1, NextKeepsObjects DEF ObjectsStay

LEMMA NextKeepsVerified ==
    ASSUME ~PowerFails, VerifiedInv, [Next]_vars
    PROVE  VerifiedInv'
<1> USE DEF VerifiedInv
<1>1. ArchiveInv'
  BY NextKeepsArchive
<1>2. ObjectIsVerified'
  <2> SUFFICES ASSUME NEW v \in Worker, pc'[v] \in BehindInstall
               PROVE  file'[ObjectOf[job'[v]]] = Checksum[ObjectOf[job'[v]]]
    BY DEF ObjectIsVerified, BehindInstall
  <2>1. job'[v] = job[v]
        /\ file[ObjectOf[job[v]]] = Checksum[ObjectOf[job[v]]]
    BY BehindInstallIsVerified DEF ObjectIsVerified, BehindInstall
  <2>2. ObjectOf[job[v]] \in Object
    BY WorkerPaths DEF ArchiveInv
  <2> QED
    BY <2>1, <2>2, VerifiedObjectsStay
<1> QED
  BY <1>1, <1>2

\* Behind the installation the object of the job has the bytes of its checksum,
\* whatever other workers do, as long as power is not lost.
THEOREM VerifiedInvariant ==
    ASSUME ~PowerFails
    PROVE  Spec => []VerifiedInv
<1>1. Init => VerifiedInv
  BY InitArchive DEF Init, VerifiedInv, ObjectIsVerified, BehindInstall
<1>2. VerifiedInv /\ [Next]_vars => VerifiedInv'
  BY NextKeepsVerified
<1> QED
  BY <1>1, <1>2, PTL DEF Spec

\* archive_batch, for any workers, failures and foreign writers: as long as
\* power is not lost, an ARCHIVED batch is committed and its archive object has
\* the bytes of its checksum.
THEOREM ArchivedVerified ==
    ASSUME ~PowerFails
    PROVE  Spec => []ArchivedIsVerified
<1> DEFINE Inv == VerifiedInv /\ ArchivedIsVerified
<1>1. Init => Inv
  BY InitArchive DEF Init, VerifiedInv, ObjectIsVerified, BehindInstall,
     ArchivedIsVerified
<1>2. Inv /\ [Next]_vars => Inv'
  <2> SUFFICES ASSUME Inv, [Next]_vars
               PROVE  Inv'
    OBVIOUS
  <2>1. VerifiedInv' /\ ArchiveInv
    BY NextKeepsVerified DEF VerifiedInv
  <2>2. ArchivedIsVerified'
    <3> SUFFICES ASSUME NEW b \in Batch, status'[b] = "ARCHIVED"
                 PROVE  /\ b \in committed'
                        /\ file'[ObjectOf[b]] = Checksum[ObjectOf[b]]
      BY DEF ArchivedIsVerified
    <3>1. b \in committed /\ file[ObjectOf[b]] = Checksum[ObjectOf[b]]
      <4>1. CASE status[b] = "ARCHIVED"
        BY <4>1 DEF ArchivedIsVerified
      <4>2. CASE \E w \in Worker : pc[w] = "mark" /\ job[w] = b
        BY <4>2 DEF VerifiedInv, ObjectIsVerified, BehindInstall, ArchiveInv,
           WorkersHoldLock
      <4> QED
        BY <2>1, <4>1, <4>2, MarkedIsBehindInstall
    <3>2. committed \subseteq committed'
      BY <2>1, MarkedIsBehindInstall
    <3>3. ObjectOf[b] \in Object
      BY ArchiveAssumption
    <3> QED
      BY <2>1, <3>1, <3>2, <3>3, VerifiedObjectsStay
  <2> QED
    BY <2>1, <2>2
<1>3. Inv => ArchivedIsVerified
  OBVIOUS
<1> QED
  BY <1>1, <1>2, <1>3, PTL DEF Spec
-----------------------------------------------------------------------------
(* The last verified copy *)

\* What a step does to the files: only a worker behind the verification of the
\* source takes one away, and it is the source of its own job.
FilesStayBut(gone) ==
    \A p \in Path : Exists(p) => p \in gone \/ file'[p] = file[p]

LEMMA OnlyUnlinkRemoves ==
    ASSUME ~PowerFails, ArchiveInv, [Next]_vars,
           ~ \E b \in Batch : ChangeSource(b)
    PROVE  \/ FilesStayBut({})
           \/ \E w \in Worker : pc[w] = "unlink" /\ FilesStayBut({job[w]})
<1> DEFINE Good == \/ FilesStayBut({})
                   \/ \E w \in Worker : pc[w] = "unlink" /\ FilesStayBut({job[w]})
<1>1. file \in [Path -> Contents]
  BY DEF ArchiveInv, ArchiveTypeOK, FileTypeOK
<1>2. CASE UNCHANGED file
  BY <1>2 DEF FilesStayBut
<1>3. ASSUME NEW p \in Path, ~Exists(p), NEW bytes,
             file' = [file EXCEPT ![p] = bytes]
      PROVE  Good
  BY <1>1, <1>3 DEF FilesStayBut
<1>4. ASSUME NEW w \in Worker, UnlinkSource(w)
      PROVE  Good
  <2>1. pc[w] = "unlink" /\ file' = [file EXCEPT ![job[w]] = NoFile]
    BY <1>4 DEF UnlinkSource, Unlink, Put
  <2>2. FilesStayBut({job[w]})
    BY <1>1, <2>1 DEF FilesStayBut
  <2> QED
    BY <2>1, <2>2
<1>5. ASSUME NEW w \in Worker, ReplaceDestination(w)
      PROVE  Good
  <2>1. To(w) \in Path
    BY WorkerPaths DEF ArchiveInv
  <2>2. \/ UNCHANGED file
        \/ ~Exists(To(w)) /\ file' = [file EXCEPT ![To(w)] = temp[w].bytes]
    BY <1>5 DEF ReplaceDestination, Put, fileVars
  <2> QED
    BY <1>2, <1>3, <2>1, <2>2
<1>6. ASSUME NEW w \in Worker, WorkerProgress(w) \/ Interruption(w)
      PROVE  UNCHANGED file \/ ReplaceDestination(w) \/ UnlinkSource(w)
  BY <1>6 DEF WorkerProgress, Interruption, PrepareAttempt, BeginInstall,
     CopyToTemporary, FsyncTemporary, VerifyTemporary, SyncDirectory,
     VerifyFinal, VerifySource, SyncSourceDirectory, FsyncDirectory,
     MarkArchived, RestoreSource, RecordFailure, MarkRaises, AttemptRaises,
     CrashWorker, fileVars
<1>7. ASSUME NEW b \in Batch, CommitBatch(b) \/ Redeliver(b)
      PROVE  Good
  <2>1. b \in Path
    BY ArchiveAssumption
  <2> QED
    BY <1>2, <1>3, <1>7, <2>1 DEF CommitBatch, Redeliver, Put, fileVars
<1>8. ASSUME NEW w \in Worker, NEW b \in Batch, AcquireArchiveLock(w, b)
      PROVE  Good
  BY <1>2, <1>8 DEF AcquireArchiveLock, fileVars
<1>9. CASE UNCHANGED vars
  BY <1>2, <1>9 DEF vars, fileVars
<1> QED
  BY <1>2, <1>4, <1>5, <1>6, <1>7, <1>8, <1>9 DEF Next, PowerLoss

\* The source is unlinked only behind the installation, where the object of the
\* batch is verified, and that object stays.
LEMMA KeptStaysKept ==
    ASSUME ~PowerFails, VerifiedInv, [Next]_vars,
           ~ \E b \in Batch : ChangeSource(b),
           NEW d \in Batch, IsKept(d)
    PROVE  IsKept(d)'
<1>1. ArchiveInv
  BY DEF VerifiedInv
<1>2. d \in Path /\ ObjectOf[d] \in Object /\ Checksum[ObjectOf[d]] # NoFile
  BY ArchiveAssumption, FileAssumption
<1>3. CASE file[ObjectOf[d]] = Checksum[ObjectOf[d]]
  BY <1>1, <1>2, <1>3, VerifiedObjectsStay DEF IsKept
<1>4. CASE file[d] = Checksum[ObjectOf[d]]
  <2>1. Exists(d)
    BY <1>2, <1>4 DEF Exists
  <2>2. CASE file'[d] = file[d]
    BY <1>4, <2>2 DEF IsKept
  <2>3. ASSUME NEW w \in Worker, pc[w] = "unlink", d = job[w]
        PROVE  IsKept(d)'
    <3>1. file[ObjectOf[d]] = Checksum[ObjectOf[d]]
      BY <2>3 DEF VerifiedInv, ObjectIsVerified, BehindInstall
    <3> QED
      BY <1>3, <3>1
  <2> QED
    BY <1>1, <1>2, <2>1, <2>2, <2>3, OnlyUnlinkRemoves DEF FilesStayBut
<1> QED
  BY <1>3, <1>4 DEF IsKept

\* archive_batch and _restore_source, for any workers, batches that share
\* objects, failures and retries: as long as power is not lost and nobody
\* rewrites a source, no step destroys the last verified copy of a batch.
THEOREM EvidenceKept ==
    ASSUME ~PowerFails
    PROVE  Spec => EvidenceIsKept
<1>1. VerifiedInv /\ [Next]_vars =>
        [ \/ \A b \in committed : IsKept(b) => IsKept(b)'
          \/ \E b \in Batch : ChangeSource(b) ]_vars
  <2> SUFFICES ASSUME VerifiedInv, [Next]_vars,
                      ~ \E b \in Batch : ChangeSource(b),
                      NEW d \in committed, IsKept(d)
               PROVE  IsKept(d)'
    OBVIOUS
  <2>1. d \in Batch
    BY DEF VerifiedInv, ArchiveInv, ArchiveTypeOK
  <2> QED
    BY <2>1, KeptStaysKept
<1> QED
  BY <1>1, VerifiedInvariant, PTL DEF Spec, EvidenceIsKept
-----------------------------------------------------------------------------
(* Losses of power *)

\* The temporary file is written from whole bytes and fsynced before its
\* verification, so every name holds whole bytes that are on the disk.
FilesAreWhole == NoTornFile /\ synced = Path

TempsAreWhole ==
    \A w \in Worker :
        /\ temp[w].bytes # Torn
        /\ pc[w] \in {"verifyTemp", "replace"} => temp[w].fsynced

WholeInv == ArchiveInv /\ FilesAreWhole /\ TempsAreWhole

LEMMA InitWhole == Init => WholeInv
<1> SUFFICES ASSUME Init
             PROVE  WholeInv
  OBVIOUS
<1>1. PICK objects \in [Object -> {NoFile, Foreign}] :
         FileInit([p \in Path |-> IF p \in Batch THEN Checksum[ObjectOf[p]]
                                  ELSE objects[p]])
  BY DEF Init
<1>2. \A p \in Path : (IF p \in Batch THEN Checksum[ObjectOf[p]]
                       ELSE objects[p]) # Torn
  BY ArchiveAssumption, FileAssumption
<1>3. FilesAreWhole
  BY <1>1, <1>2 DEF FilesAreWhole, NoTornFile, FileInit
<1>4. TempsAreWhole
  BY FileAssumption DEF Init, TempsAreWhole, NoTemp
<1> QED
  BY <1>3, <1>4, InitArchive DEF WholeInv

\* Whole bytes put under a name with an fsync keep every name whole.
LEMMA PutWhole ==
    ASSUME FileTypeOK, FilesAreWhole, NEW p \in Path, NEW bytes,
           bytes # Torn, Put(p, bytes, TRUE)
    PROVE  FilesAreWhole'
BY DEF FileTypeOK, FilesAreWhole, NoTornFile, Put

\* What survives of whole synced files is the files.
LEMMA FsyncDirectoryWhole ==
    ASSUME FileTypeOK, FilesAreWhole, NEW entries, FsyncDirectory(entries)
    PROVE  FilesAreWhole'
BY DEF FileTypeOK, FilesAreWhole, NoTornFile, FsyncDirectory, Surviving

LEMMA LosePowerWhole ==
    ASSUME FileTypeOK, FilesAreWhole, LosePower
    PROVE  FilesAreWhole'
<1>1. \A p \in Path : Surviving(p) # Torn
  BY DEF FilesAreWhole, NoTornFile, Surviving
<1> QED
  BY <1>1 DEF FilesAreWhole, NoTornFile, LosePower

LEMMA NextKeepsFilesWhole ==
    ASSUME WholeInv, [Next]_vars
    PROVE  FilesAreWhole'
<1> USE DEF WholeInv
<1>1. FileTypeOK
  BY DEF ArchiveInv, ArchiveTypeOK
<1>2. CASE UNCHANGED fileVars
  BY <1>2 DEF FilesAreWhole, NoTornFile, fileVars
<1>3. ASSUME NEW w \in Worker, ReplaceDestination(w)
      PROVE  FilesAreWhole'
  <2>1. temp[w].bytes # Torn /\ temp[w].fsynced = TRUE
    <3>1. temp[w].fsynced \in BOOLEAN
      BY DEF ArchiveInv, ArchiveTypeOK
    <3> QED
      BY <1>3, <3>1 DEF TempsAreWhole, ReplaceDestination
  <2>2. To(w) \in Path
    BY WorkerPaths DEF ArchiveInv
  <2>3. UNCHANGED fileVars \/ Put(To(w), temp[w].bytes, TRUE)
    BY <1>3, <2>1 DEF ReplaceDestination
  <2> QED
    BY <1>1, <1>2, <2>1, <2>2, <2>3, PutWhole
<1>4. ASSUME NEW w \in Worker, UnlinkSource(w)
      PROVE  FilesAreWhole'
  <2>1. job[w] \in Path /\ NoFile # Torn
    BY WorkerPaths, FileAssumption DEF ArchiveInv
  <2> QED
    BY <1>1, <1>4, <2>1, PutWhole DEF UnlinkSource, Unlink
<1>5. ASSUME NEW w \in Worker, SyncDirectory(w) \/ SyncSourceDirectory(w)
      PROVE  FilesAreWhole'
  BY <1>1, <1>5, FsyncDirectoryWhole DEF SyncDirectory, SyncSourceDirectory
<1>6. ASSUME NEW w \in Worker, WorkerProgress(w) \/ Interruption(w)
      PROVE  FilesAreWhole'
  <2>1. \/ UNCHANGED fileVars
        \/ ReplaceDestination(w) \/ SyncDirectory(w)
        \/ UnlinkSource(w) \/ SyncSourceDirectory(w)
    BY <1>6 DEF WorkerProgress, Interruption, PrepareAttempt, BeginInstall,
       CopyToTemporary, FsyncTemporary, VerifyTemporary, VerifyFinal,
       VerifySource, MarkArchived, RestoreSource, RecordFailure, MarkRaises,
       AttemptRaises, CrashWorker
  <2> QED
    BY <1>2, <1>3, <1>4, <1>5, <2>1
<1>7. ASSUME NEW b \in Batch, CommitBatch(b) \/ ChangeSource(b) \/ Redeliver(b)
      PROVE  FilesAreWhole'
  <2>1. b \in Path /\ Foreign # Torn /\ Checksum[ObjectOf[b]] # Torn
    BY ArchiveAssumption, FileAssumption
  <2>2. \/ UNCHANGED fileVars
        \/ Put(b, Foreign, TRUE) \/ Put(b, Checksum[ObjectOf[b]], TRUE)
    BY <1>7 DEF CommitBatch, ChangeSource, Redeliver
  <2> QED
    BY <1>1, <1>2, <2>1, <2>2, PutWhole
<1>8. ASSUME NEW w \in Worker, NEW b \in Batch, AcquireArchiveLock(w, b)
      PROVE  FilesAreWhole'
  BY <1>2, <1>8 DEF AcquireArchiveLock
<1>9. CASE PowerLoss
  BY <1>1, <1>9, LosePowerWhole DEF PowerLoss
<1>10. CASE UNCHANGED vars
  BY <1>2, <1>10 DEF vars
<1> QED
  BY <1>6, <1>7, <1>8, <1>9, <1>10 DEF Next

\* A worker verifies and installs the temporary file it has fsynced.
LEMMA NextKeepsTempsWhole ==
    ASSUME WholeInv, [Next]_vars
    PROVE  TempsAreWhole'
<1> USE DEF WholeInv
<1>1. /\ pc \in [Worker -> WorkerPC]
      /\ temp \in [Worker -> [bytes : Contents, fsynced : BOOLEAN]]
  BY DEF ArchiveInv, ArchiveTypeOK
<1>2. NoTemp.bytes # Torn
  BY FileAssumption DEF NoTemp
<1> DEFINE Installing == {"verifyTemp", "replace"}
           DropsOrKeeps(w) == \/ UNCHANGED temp
                              \/ temp' = [temp EXCEPT ![w] = NoTemp]
<1>3. ASSUME NEW w \in Worker, DropsOrKeeps(w), NEW to \in WorkerPC \ Installing,
             Goto(w, to)
      PROVE  TempsAreWhole'
  BY <1>1, <1>2, <1>3 DEF Goto, TempsAreWhole
<1>4. CASE UNCHANGED <<pc, temp>>
  BY <1>4 DEF TempsAreWhole
<1>5. ASSUME NEW w \in Worker, FsyncTemporary(w)
      PROVE  TempsAreWhole'
  BY <1>1, <1>5 DEF FsyncTemporary, Goto, TempsAreWhole
<1>6. ASSUME NEW w \in Worker, CopyToTemporary(w)
      PROVE  TempsAreWhole'
  <2>1. file[From(w)] # Torn
    BY WorkerPaths DEF ArchiveInv, FilesAreWhole, NoTornFile
  <2>2. CASE Exists(From(w))
    BY <1>1, <1>6, <2>1, <2>2 DEF CopyToTemporary, Goto, TempsAreWhole
  <2>3. CASE ~Exists(From(w))
    BY <1>3, <1>6, <2>3 DEF CopyToTemporary, Raise, WorkerPC
  <2> QED
    BY <2>2, <2>3
<1>7. ASSUME NEW w \in Worker, VerifyTemporary(w)
      PROVE  TempsAreWhole'
  <2>1. CASE temp[w].bytes = ChecksumOf(w)
    BY <1>1, <1>7, <2>1 DEF VerifyTemporary, Goto, TempsAreWhole
  <2>2. CASE temp[w].bytes # ChecksumOf(w)
    BY <1>3, <1>7, <2>2 DEF VerifyTemporary, Raise, WorkerPC
  <2> QED
    BY <2>1, <2>2
<1>8. ASSUME NEW w \in Worker, WorkerProgress(w) \/ Interruption(w)
      PROVE  TempsAreWhole'
  <2>1. CASE \/ BeginInstall(w) \/ ReplaceDestination(w) \/ SyncDirectory(w)
             \/ VerifyFinal(w) \/ VerifySource(w) \/ UnlinkSource(w)
             \/ SyncSourceDirectory(w) \/ RestoreSource(w) \/ MarkRaises(w)
             \/ AttemptRaises(w)
    <3>1. DropsOrKeeps(w) /\ \E to \in WorkerPC \ Installing : Goto(w, to)
      BY <2>1 DEF BeginInstall, ReplaceDestination, SyncDirectory, VerifyFinal,
         VerifySource, UnlinkSource, SyncSourceDirectory, RestoreSource,
         MarkRaises, AttemptRaises, Raise, Installed, WorkerPC
    <3> QED
      BY <1>3, <3>1
  <2>2. CASE \/ PrepareAttempt(w) \/ MarkArchived(w) \/ RecordFailure(w)
             \/ CrashWorker(w)
    <3>1. DropsOrKeeps(w) /\ \E to \in WorkerPC \ Installing : Goto(w, to)
      BY <2>2 DEF PrepareAttempt, MarkArchived, RecordFailure, CrashWorker,
         EndSession, WorkerPC
    <3> QED
      BY <1>3, <3>1
  <2> QED
    BY <1>5, <1>6, <1>7, <1>8, <2>1, <2>2 DEF WorkerProgress, Interruption
<1>9. ASSUME NEW b \in Batch, CommitBatch(b) \/ ChangeSource(b) \/ Redeliver(b)
      PROVE  TempsAreWhole'
  BY <1>4, <1>9 DEF CommitBatch, ChangeSource, Redeliver, workerVars
<1>10. ASSUME NEW w \in Worker, NEW b \in Batch, AcquireArchiveLock(w, b)
       PROVE  TempsAreWhole'
  BY <1>3, <1>10 DEF AcquireArchiveLock, WorkerPC
<1>11. CASE PowerLoss
  BY <1>2, <1>11 DEF PowerLoss, TempsAreWhole
<1>12. CASE UNCHANGED vars
  BY <1>4, <1>12 DEF vars, workerVars
<1> QED
  BY <1>8, <1>9, <1>10, <1>11, <1>12 DEF Next

\* _install_verified_object, for any workers, failures, foreign writers and
\* losses of power at any point: no archive or inbox name ever holds, or would
\* hold after a loss of power, a half-written file.
THEOREM NothingIsTorn == Spec => []NoTornFile
<1>1. WholeInv /\ [Next]_vars => WholeInv'
  BY NextKeepsArchive, NextKeepsFilesWhole, NextKeepsTempsWhole DEF WholeInv
<1>2. WholeInv => NoTornFile
  BY DEF WholeInv, FilesAreWhole
<1> QED
  BY InitWhole, <1>1, <1>2, PTL DEF Spec
=============================================================================
