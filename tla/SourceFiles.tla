---------------------------- MODULE SourceFiles -----------------------------
(***************************************************************************)
(* The file gate in front of ingestion: producers that publish one         *)
(* delivery filename (publish_source_file) and readers that decide whether *)
(* it may be ingested, with the order of reads of inspect_source_file      *)
(* (source_files.py) or of verify_delivery (durable_ingestion.py).         *)
(* A producer declares metadata in its manifest. The producer and the two  *)
(* gates check different parts of it: publish_source_file the report and   *)
(* the entity, inspect_source_file the schema version as well, and         *)
(* verify_delivery the source system too.                                  *)
(***************************************************************************)
EXTENDS FileSystem

CONSTANTS
    Producer,       \* concurrent calls of publish_source_file
    LedgerReader,   \* callers of inspect_source_file
    IngestReader,   \* callers of verify_delivery
    Declared,       \* the metadata each call of publish_source_file is given
    SupportedSchemaVersions   \* the argument of inspect_source_file

REPORT_ENTITIES ==
    [ORDERS |-> "ORDER", PAYMENTS |-> "PAYMENT", REFUNDS |-> "REFUND",
     FEES |-> "FEE", SETTLEMENT_LINES |-> "SETTLEMENT_LINE",
     PAYOUTS |-> "PAYOUT"]

REPORT_SOURCES ==
    [report \in DOMAIN REPORT_ENTITIES |->
        IF report = "ORDERS" THEN "threadline_shop" ELSE "mockpay"]

Reader == LedgerReader \cup IngestReader

ASSUME SourceAssumption ==
    /\ Bytes = Producer     \* producer p writes data p and a manifest of p
    /\ Path = {"data", "dataPart", "manifest", "manifestPart"}
    /\ LedgerReader \cap IngestReader = {}
    /\ DOMAIN Declared = Producer
    /\ \A p \in Producer :
          Declared[p] \in [report_type : STRING, entity_type : STRING,
                           source_system : STRING, schema_version : STRING]

VARIABLES
    ppc,       \* where each producer is
    rpc,       \* where each reader is
    read,      \* the bytes each reader has read
    verdict,   \* each reader's last FileGateState
    contract   \* is this a behaviour with one producer at a time and no faults?

vars == <<fileVars, ppc, rpc, read, verdict, contract>>
readerVars == <<rpc, read, verdict>>

ProducerPC == {"idle", "claim", "recheck", "write", "fsync", "rename",
               "syncData", "claimManifest", "writeManifest", "fsyncManifest",
               "renameManifest", "syncManifest"}
Verdict == {"NONE", "WAITING", "REJECTED", "READY"}

SourceTypeOK ==
    /\ FileTypeOK
    /\ ppc \in [Producer -> ProducerPC]
    /\ rpc \in [Reader -> {"idle", "exists", "data", "manifest", "recheck"}]
    /\ read \in [Reader -> [data : Contents, manifest : Contents]]
    /\ verdict \in [Reader -> Verdict]
    /\ contract \in BOOLEAN

NothingRead == [data |-> NoFile, manifest |-> NoFile]

Init ==
    /\ FileInit([p \in Path |-> NoFile])
    /\ ppc = [p \in Producer |-> "idle"]
    /\ rpc = [r \in Reader |-> "idle"]
    /\ read = [r \in Reader |-> NothingRead]
    /\ verdict = [r \in Reader |-> "NONE"]
    /\ contract \in BOOLEAN
-----------------------------------------------------------------------------
(* publish_source_file *)

Goto(p, from, to) == ppc[p] = from /\ ppc' = [ppc EXCEPT ![p] = to]

\* _parse_manifest: a whole manifest whose report has the declared entity.
Parses(m) ==
    /\ m \in Bytes
    /\ Declared[m].report_type \in DOMAIN REPORT_ENTITIES
    /\ Declared[m].entity_type = REPORT_ENTITIES[Declared[m].report_type]

\* The first check that no file of this delivery exists, and the metadata is
\* validated before any file is created.
BeginPublish(p) ==
    /\ Goto(p, "idle", "claim")
    /\ \A f \in Path : ~Exists(f)
    /\ Parses(p)
    /\ UNCHANGED fileVars

\* open("xb") of the .part file claims the filename, or raises.
ClaimFilename(p) ==
    \/ /\ ~Exists("dataPart")
       /\ Goto(p, "claim", "recheck")
       /\ Put("dataPart", Torn, FALSE)
    \/ /\ Exists("dataPart")
       /\ Goto(p, "claim", "idle")
       /\ UNCHANGED fileVars

\* Mutant: no second check after the claim.
TrustClaim(p) ==
    /\ Goto(p, "recheck", "write")
    /\ UNCHANGED fileVars

\* The check after the claim; when it raises, the .part file stays.
RecheckClaim(p) ==
    /\ Goto(p, "recheck",
            IF \E f \in {"data", "manifest", "manifestPart"} : Exists(f)
            THEN "idle" ELSE "write")
    /\ UNCHANGED fileVars

WriteData(p) ==
    Goto(p, "write", "fsync") /\ Put("dataPart", p, FALSE)

\* Mutant: the data is renamed without being fsynced.
SkipFsync(p) ==
    Goto(p, "fsync", "rename") /\ UNCHANGED fileVars

FsyncData(p) ==
    Goto(p, "fsync", "rename") /\ Fsync("dataPart")

RenameData(p) ==
    Goto(p, "rename", "syncData") /\ Rename("dataPart", "data")

\* Mutant: the directory is not fsynced between the two renames.
SkipDirectoryFsync(p) ==
    Goto(p, "syncData", "claimManifest") /\ UNCHANGED fileVars

SyncData(p) ==
    Goto(p, "syncData", "claimManifest") /\ FsyncDirectory(Path)

\* Exclusive creation; no other producer gets here for this filename.
ClaimManifest(p) ==
    /\ ~Exists("manifestPart")
    /\ Goto(p, "claimManifest", "writeManifest")
    /\ Put("manifestPart", Torn, FALSE)

WriteManifest(p) ==
    Goto(p, "writeManifest", "fsyncManifest") /\ Put("manifestPart", p, FALSE)

FsyncManifest(p) ==
    Goto(p, "fsyncManifest", "renameManifest") /\ Fsync("manifestPart")

\* Mutant: the manifest is copied to its final name.
CopyManifest(p) ==
    /\ Goto(p, "renameManifest", "syncManifest")
    /\ Put("manifest", file["manifestPart"], TRUE)

\* The final manifest is the completion marker.
RenameManifest(p) ==
    /\ Goto(p, "renameManifest", "syncManifest")
    /\ Rename("manifestPart", "manifest")

SyncManifest(p) ==
    Goto(p, "syncManifest", "idle") /\ FsyncDirectory(Path)

\* An exception (a failure hook, a full disk) or the death of the producer:
\* publish_source_file cleans nothing up.
CrashProducer(p) ==
    /\ ~contract
    /\ ppc[p] # "idle"
    /\ ppc' = [ppc EXCEPT ![p] = "idle"]
    /\ UNCHANGED fileVars

ProducerProgress(p) ==
    \/ BeginPublish(p)
    \/ ClaimFilename(p)
    \/ RecheckClaim(p)
    \/ WriteData(p)
    \/ FsyncData(p)
    \/ RenameData(p)
    \/ SyncData(p)
    \/ ClaimManifest(p)
    \/ WriteManifest(p)
    \/ FsyncManifest(p)
    \/ RenameManifest(p)
    \/ SyncManifest(p)
-----------------------------------------------------------------------------
(* inspect_source_file and verify_delivery *)

\* Mutant: looks for the final manifest instead of its .part file.
PartOrManifestExists == Exists("dataPart") \/ Exists("manifest")

PartExists == Exists("dataPart") \/ Exists("manifestPart")

\* A reader ends with a verdict; what it has read stays with the caller.
Decide(r, v) ==
    /\ rpc' = [rpc EXCEPT ![r] = "idle"]
    /\ verdict' = [verdict EXCEPT ![r] = v]

Proceed(r, to) ==
    /\ rpc' = [rpc EXCEPT ![r] = to]
    /\ verdict' = [verdict EXCEPT ![r] = "NONE"]

BeginInspection(r) ==
    /\ rpc[r] = "idle"
    /\ read' = [read EXCEPT ![r] = NothingRead]
    /\ IF PartExists THEN Decide(r, "WAITING") ELSE Proceed(r, "exists")
    /\ UNCHANGED fileVars

\* is_file: of the manifest, and for verify_delivery of the data as well.
CheckFiles(r) ==
    /\ rpc[r] = "exists"
    /\ IF ~Exists("manifest") \/ (r \in IngestReader /\ ~Exists("data"))
       THEN Decide(r, "WAITING")
       ELSE Proceed(r, IF r \in IngestReader THEN "data" ELSE "manifest")
    /\ UNCHANGED <<fileVars, read>>

\* The declarations each gate accepts: inspect_source_file never looks at the
\* source system, verify_delivery has its own schema version.
Accepts(r, m) ==
    /\ Parses(m)
    /\ r \in LedgerReader => Declared[m].schema_version \in SupportedSchemaVersions
    /\ r \in IngestReader =>
          /\ Declared[m].schema_version = "1"
          /\ Declared[m].source_system = REPORT_SOURCES[Declared[m].report_type]

\* The manifest is acceptable, and describes the bytes that were read.
IsVerified(r, c) == Accepts(r, c.manifest) /\ c.data = c.manifest

\* After both reads: inspect_source_file waits for a missing data file and
\* otherwise returns REJECTED, verify_delivery raises.
Judge(r, c) ==
    IF IsVerified(r, c) THEN Proceed(r, "recheck")
    ELSE Decide(r, IF r \in LedgerReader /\ c.data = NoFile
                   THEN "WAITING" ELSE "REJECTED")

ReadData(r) ==
    /\ rpc[r] = "data"
    /\ LET c == [read[r] EXCEPT !.data = file["data"]]
       IN  /\ read' = [read EXCEPT ![r] = c]
           /\ IF r \in IngestReader
              THEN Proceed(r, "manifest") ELSE Judge(r, c)
    /\ UNCHANGED fileVars

ReadManifest(r) ==
    /\ rpc[r] = "manifest"
    /\ LET c == [read[r] EXCEPT !.manifest = file["manifest"]]
       IN  /\ read' = [read EXCEPT ![r] = c]
           /\ CASE r \in IngestReader -> Judge(r, c)
                [] r \in LedgerReader /\ c.manifest = NoFile ->
                      Decide(r, "WAITING")
                [] r \in LedgerReader /\ c.manifest # NoFile ->
                      IF Accepts(r, c.manifest)
                      THEN Proceed(r, "data") ELSE Decide(r, "REJECTED")
    /\ UNCHANGED fileVars

\* Mutant: returns the reason code in place of the state.
RecheckPartsReason(r) ==
    /\ rpc[r] = "recheck"
    /\ Decide(r, IF PartExists THEN "WAITING" ELSE "VERIFIED")
    /\ UNCHANGED <<fileVars, read>>

RecheckParts(r) ==
    /\ rpc[r] = "recheck"
    /\ Decide(r, IF PartExists THEN "WAITING" ELSE "READY")
    /\ UNCHANGED <<fileVars, read>>

ReaderStep(r) ==
    \/ BeginInspection(r)
    \/ CheckFiles(r)
    \/ ReadData(r)
    \/ ReadManifest(r)
    \/ RecheckParts(r)

PowerLoss ==
    /\ ~contract
    /\ LosePower
    /\ ppc' = [p \in Producer |-> "idle"]
    /\ rpc' = [r \in Reader |-> "idle"]
    /\ UNCHANGED <<read, verdict>>

\* The producer contract gives a filename to one producer.
IsAlone(p) == \A q \in Producer \ {p} : ppc[q] = "idle"

ProducerStep(p) ==
    /\ contract => IsAlone(p)
    /\ ProducerProgress(p)
    /\ UNCHANGED <<readerVars, contract>>

Next ==
    \/ \E p \in Producer : ProducerStep(p)
    \/ \E p \in Producer : CrashProducer(p) /\ UNCHANGED <<readerVars, contract>>
    \/ \E r \in Reader : ReaderStep(r) /\ UNCHANGED <<ppc, contract>>
    \/ PowerLoss /\ UNCHANGED contract

Spec == Init /\ [][Next]_vars

\* A producer that has begun goes on, and readers keep polling.
FairSpec ==
    /\ Spec
    /\ \A p \in Producer : WF_vars(ProducerStep(p))
    /\ \A r \in Reader : WF_vars(ReaderStep(r) /\ UNCHANGED <<ppc, contract>>)
-----------------------------------------------------------------------------
(* Properties *)

\* The manifest completes a delivery: whichever of two racing producers
\* published it, and after a crash or a loss of power at any point, a visible
\* manifest is whole and stands beside the whole data file it describes.
ManifestCompletesData ==
    Exists("manifest") =>
        file["manifest"] \in Bytes /\ file["data"] = file["manifest"]

\* A file of publish_source_file is rejected only for what its producer declared,
\* never for torn or foreign bytes, whatever the gate interleaves with; and every
\* other verdict on the filename, before or after it, is on the same manifest.
RejectedForItsMetadata ==
    \A r, s \in Reader :
        verdict[r] = "REJECTED" /\ verdict[s] \in {"REJECTED", "READY"} =>
            /\ Parses(read[r].manifest) /\ ~Accepts(r, read[r].manifest)
            /\ read[s].manifest = read[r].manifest

\* One filename is only ever verified with one content: two readers never
\* ingest different bytes under the same name.
OneVerifiedDelivery ==
    \A r, s \in Reader :
        verdict[r] = "READY" /\ verdict[s] = "READY" => read[r] = read[s]

\* With one producer per filename (the producer contract) no temporary file
\* is left beside a finished manifest, so the gate cannot wait forever.
CompletedIsNotBlocked ==
    /\ contract
    /\ Exists("manifest")
    /\ \A p \in Producer : ppc[p] = "idle"
    => ~PartExists

\* With one producer at a time and no faults a publication that passed its
\* checks is judged by every reader that keeps polling: READY when the reader's
\* gate accepts what the producer declared, and REJECTED otherwise.
PublicationIsJudged ==
    \A p \in Producer : \A r \in Reader :
        contract /\ ppc[p] = "write" ~>
            verdict[r] = IF Accepts(r, p) THEN "READY" ELSE "REJECTED"
=============================================================================
