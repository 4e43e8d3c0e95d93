--------------------------- MODULE FilePublication --------------------------
(***************************************************************************)
(* AtomicFilePublicationStore (publication.py): threads and processes that *)
(* publish reconciliation results under one target name, and readers that  *)
(* call read_current.  The lock of a store belongs to the instance: two    *)
(* processes, or two instances in one process, exclude each other by       *)
(* os.replace alone.                                                       *)
(***************************************************************************)
EXTENDS Naturals, Sequences

CONSTANTS
    Run,             \* candidate results
    Publishable,     \* those that validate_for_publication accepts
    Publisher,       \* callers of publish
    Store,           \* AtomicFilePublicationStore instances for the target
    StoreOf,         \* the instance each publisher uses
    Reader,          \* callers of read_current
    NoOne,
    MaxPublications  \* bound: calls of publish

ASSUME PublicationAssumption ==
    /\ Publishable \subseteq Run
    /\ StoreOf \in [Publisher -> Store]
    /\ NoOne \notin Publisher
    /\ MaxPublications \in Nat

VARIABLES
    entries,   \* the files the target name has referred to, oldest first
    stable,    \* how many of them the last directory fsync covers
    lock,      \* holder of each store's threading.Lock
    pc, job,   \* where each publisher is, and with which candidate
    temp,      \* its temporary file
    place,     \* the position in entries that its os.replace gave it
    rpc,       \* where each reader is
    opened,    \* the entry it has open or has read; 0 for none
    calls,     \* number of calls of publish
    acked,     \* observer: last position a receipt was returned for
    since      \* observer: acked when the reader called read_current

fileVars      == <<entries, stable>>
publisherVars == <<lock, pc, job, temp, place, calls>>
readerVars    == <<rpc, opened, since>>
vars == <<fileVars, publisherVars, readerVars, acked>>

\* "cached": written, and replaced before its fsync; "torn": what a loss of
\* power leaves of that.
Entry == [run : Run, bytes : {"cached", "synced", "torn"}]

PublisherPC ==
    {"idle", "lock", "write", "fsync", "hook", "replace", "syncDir", "receipt"}

PublicationTypeOK ==
    /\ entries \in Seq(Entry)
    /\ stable \in 0 .. Len(entries)
    /\ lock \in [Store -> Publisher \cup {NoOne}]
    /\ pc \in [Publisher -> PublisherPC]
    /\ job \in [Publisher -> Run]
    /\ temp \in [Publisher -> {"none", "cached", "synced"}]
    /\ place \in [Publisher -> Nat]
    /\ rpc \in [Reader -> {"idle", "open", "load", "done"}]
    /\ opened \in [Reader -> Nat]
    /\ calls \in 0 .. MaxPublications
    /\ acked \in Nat
    /\ since \in [Reader -> Nat]

Init ==
    /\ entries = <<>>
    /\ stable = 0
    /\ lock = [s \in Store |-> NoOne]
    /\ pc = [p \in Publisher |-> "idle"]
    /\ job \in [Publisher -> Run]
    /\ temp = [p \in Publisher |-> "none"]
    /\ place = [p \in Publisher |-> 0]
    /\ rpc = [q \in Reader |-> "idle"]
    /\ opened = [q \in Reader |-> 0]
    /\ calls = 0
    /\ acked = 0
    /\ since = [q \in Reader |-> 0]
-----------------------------------------------------------------------------
(* publish *)

Step(p, from, to) == pc[p] = from /\ pc' = [pc EXCEPT ![p] = to]

\* Leaving the with block of the lock.
Unlock(p) ==
    lock' = [s \in Store |-> IF lock[s] = p THEN NoOne ELSE lock[s]]

\* validate_for_publication and serialization raise before anything else.
BeginPublish(p, r) ==
    /\ calls < MaxPublications
    /\ r \in Publishable
    /\ Step(p, "idle", "lock")
    /\ job' = [job EXCEPT ![p] = r]
    /\ calls' = calls + 1
    /\ UNCHANGED <<fileVars, lock, temp, place, readerVars, acked>>

AcquireStoreLock(p) ==
    /\ lock[StoreOf[p]] = NoOne
    /\ lock' = [lock EXCEPT ![StoreOf[p]] = p]
    /\ Step(p, "lock", "write")
    /\ UNCHANGED <<fileVars, job, temp, place, calls, readerVars, acked>>

\* NamedTemporaryFile in the target's directory, write and flush.
WriteTemporary(p) ==
    /\ temp' = [temp EXCEPT ![p] = "cached"]
    /\ Step(p, "write", "fsync")
    /\ UNCHANGED <<fileVars, lock, job, place, calls, readerVars, acked>>

\* Mutant: flush without fsync.
FlushTemporary(p) ==
    /\ Step(p, "fsync", "hook")
    /\ UNCHANGED <<fileVars, lock, job, temp, place, calls, readerVars, acked>>

FsyncTemporary(p) ==
    /\ temp' = [temp EXCEPT ![p] = "synced"]
    /\ Step(p, "fsync", "hook")
    /\ UNCHANGED <<fileVars, lock, job, place, calls, readerVars, acked>>

BeforeCommit(p) ==
    /\ Step(p, "hook", "replace")
    /\ UNCHANGED <<fileVars, lock, job, temp, place, calls, readerVars, acked>>

ReplaceTarget(p) ==
    /\ Step(p, "replace", "syncDir")
    /\ entries' = Append(entries, [run |-> job[p], bytes |-> temp[p]])
    /\ place' = [place EXCEPT ![p] = Len(entries) + 1]
    /\ temp' = [temp EXCEPT ![p] = "none"]
    /\ UNCHANGED <<stable, lock, job, calls, readerVars, acked>>

\* Mutant: the directory entry is not made durable.
SkipDirectorySync(p) ==
    /\ Step(p, "syncDir", "receipt")
    /\ Unlock(p)
    /\ UNCHANGED <<fileVars, job, temp, place, calls, readerVars, acked>>

\* _fsync_directory, and the end of the locked block.
SyncDirectory(p) ==
    /\ Step(p, "syncDir", "receipt")
    /\ stable' = Len(entries)
    /\ Unlock(p)
    /\ UNCHANGED <<entries, job, temp, place, calls, readerVars, acked>>

\* A PublicationReceipt is returned.
ReturnReceipt(p) ==
    /\ Step(p, "receipt", "idle")
    /\ acked' = IF place[p] > acked THEN place[p] ELSE acked
    /\ UNCHANGED <<fileVars, lock, job, temp, place, calls, readerVars>>

\* An exception, or the process is killed.  A temporary file that stays
\* behind (a kill, or a failure before its name is noted) is never read.
PublishRaises(p) ==
    /\ pc[p] # "idle"
    /\ pc' = [pc EXCEPT ![p] = "idle"]
    /\ temp' = [temp EXCEPT ![p] = "none"]
    /\ Unlock(p)
    /\ UNCHANGED <<fileVars, job, place, calls, readerVars, acked>>
-----------------------------------------------------------------------------
(* read_current *)

\* target_path.exists(); None is returned if it does not.
CheckTarget(q) ==
    /\ rpc[q] = "idle"
    /\ rpc' = [rpc EXCEPT ![q] = IF entries = <<>> THEN "done" ELSE "open"]
    /\ opened' = [opened EXCEPT ![q] = 0]
    /\ since' = [since EXCEPT ![q] = acked]
    /\ UNCHANGED <<fileVars, publisherVars, acked>>

\* open: a later os.replace does not change the file that is open.
OpenTarget(q) ==
    /\ rpc[q] = "open"
    /\ rpc' = [rpc EXCEPT ![q] = "load"]
    /\ opened' = [opened EXCEPT ![q] = Len(entries)]
    /\ UNCHANGED <<fileVars, publisherVars, since, acked>>

\* json.load.
LoadDocument(q) ==
    /\ rpc[q] = "load"
    /\ rpc' = [rpc EXCEPT ![q] = "done"]
    /\ UNCHANGED <<fileVars, publisherVars, opened, since, acked>>

FinishRead(q) ==
    /\ rpc[q] = "done"
    /\ rpc' = [rpc EXCEPT ![q] = "idle"]
    /\ UNCHANGED <<fileVars, publisherVars, opened, since, acked>>
-----------------------------------------------------------------------------
AfterPowerLoss(e) ==
    IF e.bytes = "cached" THEN [e EXCEPT !.bytes = "torn"] ELSE e

\* The name refers to the file of the last directory fsync or to a later one.
PowerLoss ==
    /\ \E n \in stable .. Len(entries) :
          /\ entries' = [i \in 1 .. n |-> AfterPowerLoss(entries[i])]
          /\ stable' = n
    /\ lock' = [s \in Store |-> NoOne]
    /\ pc' = [p \in Publisher |-> "idle"]
    /\ temp' = [p \in Publisher |-> "none"]
    /\ rpc' = [q \in Reader |-> "idle"]
    /\ UNCHANGED <<job, place, calls, opened, since, acked>>

PublishStep(p) ==
    \/ AcquireStoreLock(p)
    \/ WriteTemporary(p)
    \/ FsyncTemporary(p)
    \/ BeforeCommit(p)
    \/ ReplaceTarget(p)
    \/ SyncDirectory(p)
    \/ ReturnReceipt(p)

ReadStep(q) ==
    CheckTarget(q) \/ OpenTarget(q) \/ LoadDocument(q) \/ FinishRead(q)

Next ==
    \/ \E p \in Publisher : \E r \in Run : BeginPublish(p, r)
    \/ \E p \in Publisher : PublishStep(p) \/ PublishRaises(p)
    \/ \E q \in Reader : ReadStep(q)
    \/ PowerLoss

Spec == Init /\ [][Next]_vars
-----------------------------------------------------------------------------
(* Properties *)

\* A reader that called read_current after a receipt was returned gets that
\* publication or a later one, whole: not None, not an older result, not a
\* half-written file, whichever stores publish meanwhile and whatever fails.
ReadsAreFresh ==
    \A q \in Reader : rpc[q] \in {"load", "done"} =>
        /\ opened[q] >= since[q]
        /\ opened[q] # 0 => /\ entries[opened[q]].bytes # "torn"
                            /\ entries[opened[q]].run \in Publishable

Register ==
    INSTANCE DurableRegister WITH
        Value     <- Publishable,
        log       <- [i \in 1 .. Len(entries) |-> entries[i].run],
        receipted <- acked

\* Publishing through temporary files, per-instance locks, renames and
\* directory fsyncs implements the durable register: every publication takes
\* effect in one step, and one that was acknowledged survives power loss.
ImplementsRegister == Register!RegisterSpec
=============================================================================
