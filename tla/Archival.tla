------------------------------ MODULE Archival ------------------------------
(***************************************************************************)
(* ArchiveService.archive_batch (archival.py): workers that move the       *)
(* verified source file of a committed batch into the content-addressed    *)
(* archive and mark the batch ARCHIVED, while attempts fail, crash or lose *)
(* the acknowledgement of a commit at any point, and are retried.          *)
(***************************************************************************)
EXTENDS FileSystem

CONSTANTS
    Batch,       \* ingestion batches; each has a source file of its own
    Object,      \* archive_relative_path values
    ObjectOf,    \* the archive object of each batch
    Checksum,    \* file_checksum of each object (it is part of the path)
    Foreign,     \* bytes that match no recorded checksum
    Worker,
    NoOne,
    SourcesChange,  \* may a foreign writer change a source file?
    PowerFails   \* may power be lost?

ASSUME ArchiveAssumption ==
    /\ Path = Batch \cup Object
    /\ Batch # {} /\ Batch \cap Object = {}
    /\ ObjectOf \in [Batch -> Object]
    /\ Checksum \in [Object -> Bytes \ {Foreign}]
    /\ Foreign \in Bytes
    /\ NoOne \notin Worker
    /\ SourcesChange \in BOOLEAN
    /\ PowerFails \in BOOLEAN

VARIABLES
    committed,    \* batches with ingestion_status COMMITTED
    status,       \* archive_status of each batch
    archiveLock,  \* holder of ARCHIVE_STATE_LOCK
    pc, job,      \* where each worker is, and with which batch
    restoring,    \* _install_verified_object runs for _restore_source
    marker,       \* marker_attempted
    temp          \* the temporary file: its bytes, and whether fsynced

rowVars == <<committed, status>>
workerVars == <<archiveLock, pc, job, restoring, marker, temp>>
vars == <<fileVars, rowVars, workerVars>>

WorkerPC == {"idle", "prepare", "install", "copy", "fsync", "verifyTemp",
             "replace", "syncDir", "verifyFinal", "verifySource", "unlink",
             "syncSource", "mark", "failed", "record"}

NoTemp == [bytes |-> NoFile, fsynced |-> FALSE]

ArchiveTypeOK ==
    /\ FileTypeOK
    /\ committed \in SUBSET Batch
    /\ status \in [Batch -> {"PENDING", "FAILED", "ARCHIVED"}]
    /\ archiveLock \in Worker \cup {NoOne}
    /\ pc \in [Worker -> WorkerPC]
    /\ job \in [Worker -> Batch]
    /\ restoring \in [Worker -> BOOLEAN]
    /\ marker \in [Worker -> BOOLEAN]
    /\ temp \in [Worker -> [bytes : Contents, fsynced : BOOLEAN]]

\* Source files have been delivered; an archive object may already be there
\* with the wrong bytes.
Init ==
    /\ \E objects \in [Object -> {NoFile, Foreign}] :
          FileInit([p \in Path |-> IF p \in Batch THEN Checksum[ObjectOf[p]]
                                   ELSE objects[p]])
    /\ committed = {}
    /\ status = [b \in Batch |-> "PENDING"]
    /\ archiveLock = NoOne
    /\ pc = [w \in Worker |-> "idle"]
    /\ job = [w \in Worker |-> CHOOSE b \in Batch : TRUE]
    /\ restoring = [w \in Worker |-> FALSE]
    /\ marker = [w \in Worker |-> FALSE]
    /\ temp = [w \in Worker |-> NoTemp]
-----------------------------------------------------------------------------
ChecksumOf(w) == Checksum[ObjectOf[job[w]]]

\* The arguments source and destination of _install_verified_object.
From(w) == IF restoring[w] THEN ObjectOf[job[w]] ELSE job[w]
To(w)   == IF restoring[w] THEN job[w] ELSE ObjectOf[job[w]]

Goto(w, to) == pc' = [pc EXCEPT ![w] = to]

\* An exception: in the attempt itself it goes to the handler, in
\* _restore_source it is added to the error as a note.
Raise(w) == Goto(w, IF restoring[w] THEN "record" ELSE "failed")

\* The end of _install_verified_object.
Installed(w) == Goto(w, IF restoring[w] THEN "record" ELSE "verifySource")

\* Mutant: a pooled connection keeps its session-level lock.
EndSessionLocked(w) ==
    /\ Goto(w, "idle")
    /\ restoring' = [restoring EXCEPT ![w] = FALSE]
    /\ marker' = [marker EXCEPT ![w] = FALSE]
    /\ temp' = [temp EXCEPT ![w] = NoTemp]
    /\ UNCHANGED <<archiveLock, job>>

\* Closing the connection releases the session-level lock; a temporary file
\* that is left behind has a unique name and is never read again.
EndSession(w) ==
    /\ Goto(w, "idle")
    /\ archiveLock' = IF archiveLock = w THEN NoOne ELSE archiveLock
    /\ restoring' = [restoring EXCEPT ![w] = FALSE]
    /\ marker' = [marker EXCEPT ![w] = FALSE]
    /\ temp' = [temp EXCEPT ![w] = NoTemp]
    /\ UNCHANGED job

ArchiveLockIsFree == archiveLock = NoOne

AcquireArchiveLock(w, b) ==
    /\ pc[w] = "idle"
    /\ ArchiveLockIsFree
    /\ archiveLock' = w
    /\ job' = [job EXCEPT ![w] = b]
    /\ Goto(w, "prepare")
    /\ UNCHANGED <<fileVars, rowVars, restoring, marker, temp>>

\* Mutant: any batch is archived.
PrepareAnyAttempt(w) ==
    /\ pc[w] = "prepare"
    /\ Goto(w, "install")
    /\ UNCHANGED <<fileVars, rowVars, archiveLock, job, restoring, marker, temp>>

\* Only committed batches are archived.  The attempt count, its time and the
\* cleared error message are not modelled.
PrepareAttempt(w) ==
    /\ pc[w] = "prepare"
    /\ IF job[w] \in committed
       THEN /\ Goto(w, "install")
            /\ UNCHANGED <<archiveLock, job, restoring, marker, temp>>
       ELSE EndSession(w)
    /\ UNCHANGED <<fileVars, rowVars>>
-----------------------------------------------------------------------------
(* _install_verified_object *)

InstallUnchanged ==
    UNCHANGED <<rowVars, archiveLock, job, restoring, marker>>

\* Mutant: an existing object is reused whatever it contains.
BeginInstallUnverified(w) ==
    /\ pc[w] = "install"
    /\ IF Exists(To(w)) THEN Installed(w)
       ELSE IF file[From(w)] = ChecksumOf(w) THEN Goto(w, "copy") ELSE Raise(w)
    /\ UNCHANGED <<fileVars, temp>>
    /\ InstallUnchanged

\* Reuse a matching object, or verify the source to copy.
BeginInstall(w) ==
    /\ pc[w] = "install"
    /\ IF Exists(To(w))
       THEN IF file[To(w)] = ChecksumOf(w) THEN Installed(w) ELSE Raise(w)
       ELSE IF file[From(w)] = ChecksumOf(w) THEN Goto(w, "copy") ELSE Raise(w)
    /\ UNCHANGED <<fileVars, temp>>
    /\ InstallUnchanged

\* copyfileobj into a new temporary file of the destination's directory; the
\* source is read again.
CopyToTemporary(w) ==
    /\ pc[w] = "copy"
    /\ IF Exists(From(w))
       THEN /\ temp' = [temp EXCEPT ![w] =
                          [bytes |-> file[From(w)], fsynced |-> FALSE]]
            /\ Goto(w, "fsync")
       ELSE Raise(w) /\ UNCHANGED temp
    /\ UNCHANGED fileVars
    /\ InstallUnchanged

\* Mutant: the temporary file is not fsynced.
SkipTemporaryFsync(w) ==
    /\ pc[w] = "fsync"
    /\ Goto(w, "verifyTemp")
    /\ UNCHANGED <<fileVars, temp>>
    /\ InstallUnchanged

FsyncTemporary(w) ==
    /\ pc[w] = "fsync"
    /\ temp' = [temp EXCEPT ![w].fsynced = TRUE]
    /\ Goto(w, "verifyTemp")
    /\ UNCHANGED fileVars
    /\ InstallUnchanged

VerifyTemporary(w) ==
    /\ pc[w] = "verifyTemp"
    /\ IF temp[w].bytes = ChecksumOf(w) THEN Goto(w, "replace") ELSE Raise(w)
    /\ UNCHANGED <<fileVars, temp>>
    /\ InstallUnchanged

\* The second look at the destination, and os.replace.
ReplaceDestination(w) ==
    /\ pc[w] = "replace"
    /\ \/ /\ ~Exists(To(w))
          /\ Put(To(w), temp[w].bytes, temp[w].fsynced)
          /\ Goto(w, "syncDir")
       \/ /\ Exists(To(w))
          /\ IF file[To(w)] = ChecksumOf(w) THEN Goto(w, "syncDir") ELSE Raise(w)
          /\ UNCHANGED fileVars
    /\ temp' = [temp EXCEPT ![w] = NoTemp]
    /\ InstallUnchanged

SyncDirectory(w) ==
    /\ pc[w] = "syncDir"
    /\ FsyncDirectory({To(w)})
    /\ Goto(w, "verifyFinal")
    /\ UNCHANGED temp
    /\ InstallUnchanged

VerifyFinal(w) ==
    /\ pc[w] = "verifyFinal"
    /\ IF file[To(w)] = ChecksumOf(w) THEN Installed(w) ELSE Raise(w)
    /\ UNCHANGED <<fileVars, temp>>
    /\ InstallUnchanged
-----------------------------------------------------------------------------
(* archive_batch after the object is installed *)

\* Detect a changed source before deleting it.
VerifySource(w) ==
    /\ pc[w] = "verifySource"
    /\ IF ~Exists(job[w]) THEN Goto(w, "mark")
       ELSE IF file[job[w]] = ChecksumOf(w) THEN Goto(w, "unlink") ELSE Raise(w)
    /\ UNCHANGED <<fileVars, temp>>
    /\ InstallUnchanged

UnlinkSource(w) ==
    /\ pc[w] = "unlink"
    /\ Unlink(job[w])
    /\ Goto(w, "syncSource")
    /\ UNCHANGED temp
    /\ InstallUnchanged

SyncSourceDirectory(w) ==
    /\ pc[w] = "syncSource"
    /\ FsyncDirectory({job[w]})
    /\ Goto(w, "mark")
    /\ UNCHANGED temp
    /\ InstallUnchanged

\* The status transaction commits, and archive_batch returns.
MarkArchived(w) ==
    /\ pc[w] = "mark"
    /\ status' = [status EXCEPT ![job[w]] = "ARCHIVED"]
    /\ EndSession(w)
    /\ UNCHANGED <<fileVars, committed>>

\* The status transaction raises: it may have committed all the same, its
\* acknowledgement lost.
MarkRaises(w) ==
    /\ pc[w] = "mark"
    /\ marker' = [marker EXCEPT ![w] = TRUE]
    /\ Goto(w, "failed")
    /\ \/ status' = [status EXCEPT ![job[w]] = "ARCHIVED"]
       \/ UNCHANGED status
    /\ UNCHANGED <<fileVars, committed, archiveLock, job, restoring, temp>>

\* Mutant: the cleanup removes the destination.
AttemptRaisesAndRemoves(w) ==
    /\ pc[w] \notin {"idle", "prepare", "mark", "failed", "record"}
    /\ Raise(w)
    /\ temp' = [temp EXCEPT ![w] = NoTemp]
    /\ Unlink(To(w))
    /\ InstallUnchanged

\* A failure hook, a full disk or an I/O error during the attempt.
AttemptRaises(w) ==
    /\ pc[w] \notin {"idle", "prepare", "mark", "failed", "record"}
    /\ Raise(w)
    /\ temp' = [temp EXCEPT ![w] = NoTemp]
    /\ UNCHANGED fileVars
    /\ InstallUnchanged

\* _restore_source: only a missing source, only from a verified object.
RestoreSource(w) ==
    /\ pc[w] = "failed"
    /\ IF ~Exists(job[w]) /\ file[ObjectOf[job[w]]] = ChecksumOf(w)
       THEN Goto(w, "install") /\ restoring' = [restoring EXCEPT ![w] = TRUE]
       ELSE Goto(w, "record") /\ UNCHANGED restoring
    /\ UNCHANGED <<fileVars, rowVars, archiveLock, job, marker, temp>>

\* Mutant: the failure overwrites a marker that did commit.
OverwritesStatus(w) == TRUE

\* preserve_committed_marker.
MayRecordFailure(w) == ~(marker[w] /\ status[job[w]] = "ARCHIVED")

\* _record_failure; it may raise too, and then changes nothing.
RecordFailure(w) ==
    /\ pc[w] = "record"
    /\ \/ /\ MayRecordFailure(w)
          /\ status' = [status EXCEPT ![job[w]] = "FAILED"]
       \/ UNCHANGED status
    /\ EndSession(w)
    /\ UNCHANGED <<fileVars, committed>>

\* The process dies or is killed; its connection closes.
CrashWorker(w) ==
    /\ pc[w] # "idle"
    /\ EndSession(w)
    /\ UNCHANGED <<fileVars, rowVars>>
-----------------------------------------------------------------------------
(* The environment *)

\* ingest_source_file commits the batch of a verified source file.
CommitBatch(b) ==
    /\ b \notin committed
    /\ file[b] = Checksum[ObjectOf[b]]
    /\ committed' = committed \cup {b}
    /\ UNCHANGED <<fileVars, status, workerVars>>

\* Somebody breaks the producer contract and rewrites a source file.
ChangeSource(b) ==
    /\ SourcesChange
    /\ Put(b, Foreign, TRUE)
    /\ UNCHANGED <<rowVars, workerVars>>

\* The same bytes are delivered again under the same name.
Redeliver(b) ==
    /\ ~Exists(b)
    /\ Put(b, Checksum[ObjectOf[b]], TRUE)
    /\ UNCHANGED <<rowVars, workerVars>>

PowerLoss ==
    /\ PowerFails
    /\ LosePower
    /\ archiveLock' = NoOne
    /\ pc' = [w \in Worker |-> "idle"]
    /\ restoring' = [w \in Worker |-> FALSE]
    /\ marker' = [w \in Worker |-> FALSE]
    /\ temp' = [w \in Worker |-> NoTemp]
    /\ UNCHANGED <<rowVars, job>>

WorkerProgress(w) ==
    \/ PrepareAttempt(w)
    \/ BeginInstall(w)
    \/ CopyToTemporary(w)
    \/ FsyncTemporary(w)
    \/ VerifyTemporary(w)
    \/ ReplaceDestination(w)
    \/ SyncDirectory(w)
    \/ VerifyFinal(w)
    \/ VerifySource(w)
    \/ UnlinkSource(w)
    \/ SyncSourceDirectory(w)
    \/ MarkArchived(w)
    \/ RestoreSource(w)
    \/ RecordFailure(w)

Interruption(w) == MarkRaises(w) \/ AttemptRaises(w) \/ CrashWorker(w)

Next ==
    \/ \E w \in Worker : \E b \in Batch : AcquireArchiveLock(w, b)
    \/ \E w \in Worker : WorkerProgress(w) \/ Interruption(w)
    \/ \E b \in Batch : CommitBatch(b) \/ ChangeSource(b) \/ Redeliver(b)
    \/ PowerLoss

Spec == Init /\ [][Next]_vars

\* Somebody retries unarchived batches, and a worker that holds the lock
\* goes on.  The lock queue is first come, first served.
FairSpec ==
    /\ Spec
    /\ \A b \in Batch : SF_vars(status[b] # "ARCHIVED" /\
                             \E w \in Worker : AcquireArchiveLock(w, b))
    /\ \A w \in Worker : WF_vars(WorkerProgress(w))
-----------------------------------------------------------------------------
(* Properties *)

\* The verified bytes of a batch are in the inbox or in the archive.
IsKept(b) ==
    \E p \in {b, ObjectOf[b]} : file[p] = Checksum[ObjectOf[b]]

\* No step of archival destroys the last verified copy of a committed batch:
\* whatever crashes, errors and restorations happen in between, and with two
\* batches that share one archive object.
EvidenceIsKept ==
    [][ \/ \A b \in committed : IsKept(b) => IsKept(b)'
        \/ \E b \in Batch : ChangeSource(b) ]_vars

\* A batch is marked ARCHIVED only while its archive object has the verified
\* bytes, also when the marker's acknowledgement was lost, when a retry of an
\* archived batch fails, and when another batch shares the object.
ArchivedIsVerified ==
    \A b \in Batch : status[b] = "ARCHIVED" =>
        b \in committed /\ file[ObjectOf[b]] = Checksum[ObjectOf[b]]

\* A committed ARCHIVED marker is not taken back by the attempt that could
\* not see its own commit.
MarkerIsPreserved ==
    [][\A w \in Worker : marker[w] /\ status[job[w]] = "ARCHIVED" =>
          status'[job[w]] = "ARCHIVED"]_vars

\* Whatever is under a final archive name stays: matching objects are shared
\* and mismatching ones are never overwritten; without a loss of power no
\* object disappears.
ObjectsAreImmutable ==
    [][\A o \in Object : Exists(o) => file'[o] = file[o]]_vars

\* Even a loss of power leaves no half-written file under an archive or an
\* inbox name: every file archival installs there was fsynced and verified.
NoTornFile == \A p \in Path : file[p] # Torn /\ durable[p] # Torn

InterruptionsEnd ==
    <>[][~ \E w \in Worker : \E b \in Batch :
            Interruption(w) \/ ChangeSource(b) \/ PowerLoss]_vars

\* Once interruptions and losses of power end, retries finish every committed
\* batch whose bytes are still somewhere and whose archive object is not a
\* foreign file, wherever earlier attempts stopped.
RetriesFinish ==
    InterruptionsEnd => \A b \in Batch :
        b \in committed ~>
            \/ status[b] = "ARCHIVED"
            \/ ~IsKept(b)
            \/ Foreign \in {file[b], file[ObjectOf[b]]}
=============================================================================
