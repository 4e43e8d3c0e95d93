-------------------------- MODULE SourceFilesProofs -------------------------
(***************************************************************************)
(* Proofs about the file gate, for any number of producers that race for   *)
(* one filename, any readers, and crashes and losses of power at any       *)
(* point: the types, that a visible manifest stands beside the data it     *)
(* describes, that a reader rejects a delivery only for what its producer  *)
(* declared, that all readers verify the same bytes, and that a producer   *)
(* that keeps to the contract leaves no temporary file behind.             *)
(***************************************************************************)
EXTENDS SourceFiles, TLAPS

\* The places of publish_source_file: with the .part file claimed, behind the
\* second check, and behind the rename of the data.
Claimed == {"recheck", "write", "fsync", "rename"}
Writing == {"write", "fsync", "rename"}
Completing == {"syncData", "claimManifest", "writeManifest", "fsyncManifest",
               "renameManifest", "syncManifest"}

\* open("xb") gives the .part file to one producer.
ClaimIsExclusive ==
    \A p \in Producer : ppc[p] \in Claimed =>
        /\ Exists("dataPart")
        /\ \A q \in Producer : ppc[q] \in Claimed => q = p

\* Behind the second check the claimant is the only one to publish, and what it
\* renames is its own data, on the disk.
WriterIsAlone ==
    \A p \in Producer :
        /\ ppc[p] \in Writing =>
              ~Exists("data") /\ ~Exists("manifest") /\ ~Exists("manifestPart")
        /\ ppc[p] \in {"fsync", "rename"} => file["dataPart"] = p
        /\ ppc[p] = "rename" => "dataPart" \in synced

\* Behind the rename the data is the producer's own; it is on the disk before
\* anything is done about the manifest.
CompleterOwnsData ==
    \A p \in Producer :
        /\ ppc[p] \in Completing => file["data"] = p
        /\ ppc[p] \in Completing \ {"syncData"} => durable["data"] = p
        /\ ppc[p] \in Completing \ {"syncManifest"} => ~Exists("manifest")
        /\ ppc[p] \in {"syncData", "claimManifest"} => ~Exists("manifestPart")
        /\ ppc[p] \in {"fsyncManifest", "renameManifest"} =>
              file["manifestPart"] = p
        /\ ppc[p] = "renameManifest" => "manifestPart" \in synced

\* What is under the final names is whole and on the disk, only the directory
\* entry may not be yet; a manifest describes data whose entry is.
FinalNamesAreWhole ==
    /\ {"data", "manifest"} \subseteq synced
    /\ file["data"] \in Bytes \cup {NoFile}
    /\ durable["data"] \in {NoFile, file["data"]}
    /\ durable["manifest"] \in {NoFile, file["manifest"]}
    /\ Exists("manifest") =>
          file["manifest"] = file["data"] /\ durable["data"] = file["data"]

\* _parse_manifest has accepted what a producer in progress declares, and what
\* is declared for the data under the final name.
DeclarationsParse ==
    /\ \A p \in Producer : ppc[p] # "idle" => Parses(p)
    /\ Exists("data") => Parses(file["data"])

PublishInv ==
    /\ SourceTypeOK
    /\ DeclarationsParse
    /\ ClaimIsExclusive
    /\ WriterIsAlone
    /\ CompleterOwnsData
    /\ FinalNamesAreWhole

\* A reader that is going on has seen the manifest, and what it has read is
\* what is there.
ReadsAreCurrent(r) ==
    /\ rpc[r] \in {"data", "manifest"} => Exists("manifest")
    /\ rpc[r] = "data" /\ r \in LedgerReader =>
          read[r].manifest = file["manifest"]
    /\ rpc[r] = "manifest" /\ r \in IngestReader =>
          read[r].data = file["data"]

\* What a reader has verified is the data that not even a loss of power takes
\* away.
VerifiedIsDurable(r) ==
    verdict[r] = "READY" \/ rpc[r] = "recheck" =>
        /\ file["data"] \in Bytes
        /\ durable["data"] = file["data"]
        /\ read[r] = [data |-> file["data"], manifest |-> file["data"]]

\* What a reader has rejected is the declaration for such data.
RejectedIsDurable(r) ==
    verdict[r] = "REJECTED" =>
        /\ file["data"] \in Bytes
        /\ durable["data"] = file["data"]
        /\ read[r].manifest = file["data"]
        /\ ~Accepts(r, file["data"])

ReaderOK(r) ==
    ReadsAreCurrent(r) /\ VerifiedIsDurable(r) /\ RejectedIsDurable(r)

GateInv == PublishInv /\ \A r \in Reader : ReaderOK(r)

\* Under the producer contract one producer is active, it meets no file of
\* another one, and each temporary file has its writer.
ContractIsKept ==
    contract =>
        /\ \A p, q \in Producer : ppc[p] # "idle" /\ ppc[q] # "idle" => p = q
        /\ \A p \in Producer : ppc[p] \in {"claim", "recheck"} =>
              ~Exists("data") /\ ~Exists("manifest") /\ ~Exists("manifestPart")
        /\ \A p \in Producer : ppc[p] = "claim" => ~Exists("dataPart")
        /\ Exists("dataPart") => \E p \in Producer : ppc[p] \in Claimed
        /\ Exists("manifestPart") =>
              \E p \in Producer :
                 ppc[p] \in {"writeManifest", "fsyncManifest", "renameManifest"}
-----------------------------------------------------------------------------
(* Types *)

\* The four names, and the bytes that are under them.
LEMMA Names ==
    /\ "data" \in Path /\ "dataPart" \in Path
    /\ "manifest" \in Path /\ "manifestPart" \in Path
    /\ Producer \subseteq Contents
    /\ NoFile \in Contents /\ Torn \in Contents
    /\ NoFile \notin Producer /\ Torn \notin Producer
BY SourceAssumption, FileAssumption DEF Contents

LEMMA FileSteps ==
    ASSUME FileTypeOK, NEW p \in Path, NEW q \in Path
    PROVE  /\ \A bytes \in Contents : \A f \in BOOLEAN :
                 Put(p, bytes, f) => FileTypeOK'
           /\ Rename(p, q) => FileTypeOK'
           /\ Fsync(p) => FileTypeOK'
           /\ FsyncDirectory(Path) => FileTypeOK'
           /\ UNCHANGED fileVars => FileTypeOK'
<1> USE DEF FileTypeOK
<1>1. ASSUME NEW bytes \in Contents, NEW f \in BOOLEAN, Put(p, bytes, f)
      PROVE  FileTypeOK'
  BY <1>1 DEF Put, Contents
<1>2. ASSUME Rename(p, q)
      PROVE  FileTypeOK'
  BY <1>2, Names DEF Rename, Contents
<1>3. ASSUME Fsync(p)
      PROVE  FileTypeOK'
  BY <1>3 DEF Fsync, Contents
<1>4. ASSUME FsyncDirectory(Path)
      PROVE  FileTypeOK'
  <2>1. \A x \in Path : Surviving(x) \in Contents
    BY Names DEF Surviving
  <2> QED
    BY <1>4, <2>1 DEF FsyncDirectory, Contents
<1>5. ASSUME UNCHANGED fileVars
      PROVE  FileTypeOK'
  BY <1>5 DEF fileVars, Contents
<1> QED
  BY <1>1, <1>2, <1>3, <1>4, <1>5

LEMMA ProducerTypes ==
    ASSUME SourceTypeOK, NEW p \in Producer,
           ProducerProgress(p) \/ CrashProducer(p)
    PROVE  FileTypeOK' /\ ppc' \in [Producer -> ProducerPC]
<1>1. FileTypeOK /\ ppc \in [Producer -> ProducerPC]
  BY DEF SourceTypeOK
<1>2. ppc' \in [Producer -> ProducerPC]
  <2>1. \E to \in ProducerPC : ppc' = [ppc EXCEPT ![p] = to]
    BY DEF ProducerProgress, CrashProducer, BeginPublish, ClaimFilename,
       RecheckClaim, WriteData, FsyncData, RenameData, SyncData, ClaimManifest,
       WriteManifest, FsyncManifest, RenameManifest, SyncManifest, Goto,
       ProducerPC
  <2> QED
    BY <1>1, <2>1
<1>3. \/ UNCHANGED fileVars
      \/ \E x, y \in Path : \E bytes \in Contents :
            \/ Put(x, bytes, FALSE) \/ Rename(x, y) \/ Fsync(x)
            \/ FsyncDirectory(Path)
  <2> USE Names
  <2>1. CASE ClaimFilename(p) \/ ClaimManifest(p)
    BY <2>1 DEF ClaimFilename, ClaimManifest
  <2>2. CASE WriteData(p) \/ WriteManifest(p)
    BY <2>2 DEF WriteData, WriteManifest
  <2>3. CASE \/ RenameData(p) \/ RenameManifest(p) \/ FsyncData(p)
             \/ FsyncManifest(p) \/ SyncData(p) \/ SyncManifest(p)
    BY <2>3 DEF RenameData, RenameManifest, FsyncData, FsyncManifest, SyncData,
       SyncManifest
  <2>4. CASE BeginPublish(p) \/ RecheckClaim(p) \/ CrashProducer(p)
    BY <2>4 DEF BeginPublish, RecheckClaim, CrashProducer
  <2> QED
    BY <2>1, <2>2, <2>3, <2>4 DEF ProducerProgress
<1>4. FileTypeOK'
  <2>1. CASE UNCHANGED fileVars
    BY <1>1, <2>1, Names, FileSteps
  <2>2. ASSUME NEW x \in Path, NEW y \in Path, NEW bytes \in Contents,
               \/ Put(x, bytes, FALSE) \/ Rename(x, y) \/ Fsync(x)
               \/ FsyncDirectory(Path)
        PROVE  FileTypeOK'
    <3>1. FALSE \in BOOLEAN
      OBVIOUS
    <3> QED
      BY <1>1, <2>2, <3>1, FileSteps
  <2> QED
    BY <1>3, <2>1, <2>2
<1> QED
  BY <1>2, <1>4
-----------------------------------------------------------------------------
(* Publication *)

\* What a publication step has to keep, apart from the types.
PublishedOK ==
    /\ DeclarationsParse /\ ClaimIsExclusive /\ WriterIsAlone
    /\ CompleterOwnsData /\ FinalNamesAreWhole

\* A producer begins only with metadata that parses, and renames its own data.
LEMMA ProducerKeepsDeclarations ==
    ASSUME PublishInv, NEW p \in Producer,
           ProducerProgress(p) \/ CrashProducer(p)
    PROVE  DeclarationsParse'
<1>1. file \in [Path -> Contents] /\ ppc \in [Producer -> ProducerPC]
  BY DEF PublishInv, SourceTypeOK, FileTypeOK
<1>2. \A q \in Producer : ppc'[q] # "idle" => Parses(q)
  <2>1. \A q \in Producer \ {p} : ppc'[q] = ppc[q]
    BY <1>1 DEF ProducerProgress, CrashProducer, BeginPublish, ClaimFilename,
       RecheckClaim, WriteData, FsyncData, RenameData, SyncData, ClaimManifest,
       WriteManifest, FsyncManifest, RenameManifest, SyncManifest, Goto
  <2>2. ppc'[p] # "idle" => ppc[p] # "idle" \/ Parses(p)
    BY <1>1 DEF ProducerProgress, CrashProducer, BeginPublish, ClaimFilename,
       RecheckClaim, WriteData, FsyncData, RenameData, SyncData, ClaimManifest,
       WriteManifest, FsyncManifest, RenameManifest, SyncManifest, Goto
  <2> QED
    BY <2>1, <2>2 DEF PublishInv, DeclarationsParse
<1>3. file'["data"] # NoFile => Parses(file'["data"])
  <2>1. CASE RenameData(p)
    <3>1. file'["data"] = p /\ ppc[p] # "idle"
      BY <1>1, <2>1, Names
      DEF RenameData, Rename, Goto, PublishInv, WriterIsAlone
    <3> QED
      BY <3>1 DEF PublishInv, DeclarationsParse
  <2>2. CASE ~RenameData(p)
    <3>1. CASE \/ ClaimFilename(p) \/ WriteData(p) \/ ClaimManifest(p)
               \/ WriteManifest(p) \/ RenameManifest(p)
      BY <1>1, <3>1, Names
      DEF ClaimFilename, WriteData, ClaimManifest, WriteManifest, RenameManifest,
          Put, Rename, fileVars, PublishInv, DeclarationsParse, Exists
    <3>2. CASE \/ BeginPublish(p) \/ RecheckClaim(p) \/ FsyncData(p)
               \/ SyncData(p) \/ FsyncManifest(p) \/ SyncManifest(p)
               \/ CrashProducer(p)
      BY <3>2
      DEF BeginPublish, RecheckClaim, FsyncData, SyncData, FsyncManifest,
          SyncManifest, CrashProducer, Fsync, FsyncDirectory, fileVars,
          PublishInv, DeclarationsParse, Exists
    <3> QED
      BY <2>2, <3>1, <3>2 DEF ProducerProgress
  <2> QED
    BY <2>1, <2>2
<1> QED
  BY <1>2, <1>3 DEF DeclarationsParse, Parses, Exists

LEMMA ProducerKeepsPublished ==
    ASSUME PublishInv, NEW p \in Producer,
           ProducerProgress(p) \/ CrashProducer(p)
    PROVE  PublishedOK'
<1>1. /\ file \in [Path -> Contents]
      /\ durable \in [Path -> Contents]
      /\ synced \subseteq Path
      /\ ppc \in [Producer -> ProducerPC]
  BY DEF PublishInv, SourceTypeOK, FileTypeOK
<1>16. DeclarationsParse'
  BY ProducerKeepsDeclarations
<1> USE <1>1, <1>16, Names DEF PublishInv, PublishedOK, ClaimIsExclusive,
        WriterIsAlone, CompleterOwnsData, FinalNamesAreWhole, Exists, Goto,
        Claimed, Writing, Completing
<1>2. CASE BeginPublish(p)
  BY <1>2 DEF BeginPublish, fileVars
<1>3. CASE ClaimFilename(p)
  <2>1. CASE Exists("dataPart")
    <3>1. ppc' = [ppc EXCEPT ![p] = "idle"] /\ UNCHANGED fileVars
      BY <1>3, <2>1 DEF ClaimFilename
    <3> QED
      BY <3>1 DEF fileVars
  <2>2. CASE ~Exists("dataPart")
    <3>1. /\ ppc' = [ppc EXCEPT ![p] = "recheck"]
          /\ file' = [file EXCEPT !["dataPart"] = Torn]
          /\ synced' = synced \ {"dataPart"}
          /\ UNCHANGED durable
      BY <1>3, <2>2 DEF ClaimFilename, Put
    <3>2. ClaimIsExclusive' /\ WriterIsAlone'
      BY <2>2, <3>1, FileAssumption
    <3>3. CompleterOwnsData' /\ FinalNamesAreWhole'
      BY <2>2, <3>1
    <3> QED
      BY <3>2, <3>3
  <2> QED
    BY <2>1, <2>2
<1>4. CASE RecheckClaim(p)
  BY <1>4 DEF RecheckClaim, fileVars
<1>5. CASE WriteData(p)
  BY <1>5 DEF WriteData, Put
<1>6. CASE FsyncData(p)
  BY <1>6 DEF FsyncData, Fsync
<1>7. CASE RenameData(p)
  <2>1. /\ ppc[p] = "rename"
        /\ ppc' = [ppc EXCEPT ![p] = "syncData"]
        /\ file' = [file EXCEPT !["data"] = p, !["dataPart"] = NoFile]
        /\ synced' = synced \cup {"data"}
        /\ UNCHANGED durable
    BY <1>7 DEF RenameData, Rename
  <2>2. \A q \in Producer \ {p} : ppc[q] \notin Claimed \cup Completing
    BY <2>1
  <2>3. ClaimIsExclusive' /\ WriterIsAlone'
    BY <2>1, <2>2
  <2>4. CompleterOwnsData'
    BY <2>1, <2>2
  <2>5. FinalNamesAreWhole'
    BY <2>1, SourceAssumption
  <2> QED
    BY <2>3, <2>4, <2>5
<1>8. CASE SyncData(p)
  BY <1>8 DEF SyncData, FsyncDirectory, Surviving
<1>9. CASE ClaimManifest(p)
  BY <1>9 DEF ClaimManifest, Put
<1>10. CASE WriteManifest(p)
  BY <1>10 DEF WriteManifest, Put
<1>11. CASE FsyncManifest(p)
  BY <1>11 DEF FsyncManifest, Fsync
<1>12. CASE RenameManifest(p)
  BY <1>12 DEF RenameManifest, Rename
<1>13. CASE SyncManifest(p)
  BY <1>13 DEF SyncManifest, FsyncDirectory, Surviving
<1>14. CASE CrashProducer(p)
  BY <1>14 DEF CrashProducer, fileVars
<1> QED
  BY <1>2, <1>3, <1>4, <1>5, <1>6, <1>7, <1>8, <1>9, <1>10, <1>11, <1>12, <1>13, <1>14
     DEF ProducerProgress

\* A loss of power stops every producer, and what it leaves under the final
\* names is what was there, or nothing.
LEMMA PowerLossKeepsPublished ==
    ASSUME PublishInv, PowerLoss
    PROVE  PublishedOK' /\ FileTypeOK' /\ ppc' \in [Producer -> ProducerPC]
<1>1. ppc' = [p \in Producer |-> "idle"]
  BY DEF PowerLoss
<1>2. FileTypeOK'
  BY DEF PowerLoss, LosePower, FileTypeOK, Contents
<1>3. FinalNamesAreWhole'
  <2>1. Surviving("data") = file["data"] /\ Surviving("manifest") = file["manifest"]
    BY DEF PublishInv, FinalNamesAreWhole, Surviving
  <2>2. /\ file'["data"] \in {durable["data"], file["data"]}
        /\ file'["manifest"] \in {durable["manifest"], file["manifest"]}
        /\ durable' = file' /\ synced' = Path
    BY <2>1, Names DEF PowerLoss, LosePower
  <2> QED
    BY <2>2, Names DEF PublishInv, FinalNamesAreWhole, Exists
<1>4. ClaimIsExclusive' /\ WriterIsAlone' /\ CompleterOwnsData'
  BY <1>1 DEF ClaimIsExclusive, WriterIsAlone, CompleterOwnsData, Claimed,
     Writing, Completing
<1>5. DeclarationsParse'
  <2>1. Surviving("data") = file["data"]
    BY DEF PublishInv, FinalNamesAreWhole, Surviving
  <2>2. file'["data"] \in {NoFile, file["data"]}
    BY <2>1, Names DEF PowerLoss, LosePower, PublishInv, FinalNamesAreWhole
  <2> QED
    BY <1>1, <2>2 DEF PublishInv, DeclarationsParse, Parses, Exists
<1> QED
  BY <1>1, <1>2, <1>3, <1>4, <1>5 DEF PublishedOK, ProducerPC

\* Readers write nothing.
LEMMA PublishedStays ==
    ASSUME PublishInv, UNCHANGED <<fileVars, ppc>>
    PROVE  PublishedOK' /\ FileTypeOK'
BY DEF PublishInv, SourceTypeOK, FileTypeOK, PublishedOK, ClaimIsExclusive,
   WriterIsAlone, CompleterOwnsData, FinalNamesAreWhole, DeclarationsParse,
   Parses, Exists, fileVars, Contents

\* Data that a loss of power would leave is not replaced by any step.
LEMMA DurableDataStays ==
    ASSUME PublishInv, Next, file["data"] # NoFile,
           durable["data"] = file["data"]
    PROVE  file'["data"] = file["data"] /\ durable'["data"] = file["data"]
<1>1. /\ file \in [Path -> Contents]
      /\ durable \in [Path -> Contents]
      /\ "data" \in synced
  BY DEF PublishInv, SourceTypeOK, FileTypeOK, FinalNamesAreWhole
<1>2. Surviving("data") = file["data"]
  BY <1>1 DEF Surviving
<1>3. ASSUME NEW p \in Producer, ProducerProgress(p)
      PROVE  file'["data"] = file["data"] /\ durable'["data"] = file["data"]
  <2>1. ~RenameData(p)
    BY DEF PublishInv, WriterIsAlone, Writing, Exists, RenameData, Goto
  <2>2. CASE \/ BeginPublish(p) \/ ClaimFilename(p) \/ RecheckClaim(p)
             \/ WriteData(p) \/ FsyncData(p) \/ ClaimManifest(p)
             \/ WriteManifest(p) \/ FsyncManifest(p)
    BY <1>1, <2>2, Names DEF BeginPublish, ClaimFilename, RecheckClaim, WriteData,
       FsyncData, ClaimManifest, WriteManifest, FsyncManifest, Put, Fsync,
       fileVars
  <2>3. CASE RenameManifest(p)
    BY <1>1, <2>3, Names DEF RenameManifest, Rename
  <2>4. CASE SyncData(p) \/ SyncManifest(p)
    BY <1>1, <1>2, <2>4, Names DEF SyncData, SyncManifest, FsyncDirectory
  <2> QED
    BY <1>3, <2>1, <2>2, <2>3, <2>4 DEF ProducerProgress
<1>4. CASE UNCHANGED fileVars
  BY <1>4 DEF fileVars
<1>5. CASE PowerLoss
  BY <1>2, <1>5, Names DEF PowerLoss, LosePower
<1>6. ASSUME NEW p \in Producer, CrashProducer(p)
      PROVE  UNCHANGED fileVars
  BY <1>6 DEF CrashProducer
<1>7. ASSUME NEW r \in Reader, ReaderStep(r)
      PROVE  UNCHANGED fileVars
  BY <1>7 DEF ReaderStep, BeginInspection, CheckFiles, ReadData, ReadManifest,
     RecheckParts
<1> QED
  BY <1>3, <1>4, <1>5, <1>6, <1>7 DEF Next, ProducerStep

\* A visible manifest changes only in a loss of power.
LEMMA ManifestStays ==
    ASSUME PublishInv, NEW p \in Producer, Exists("manifest"),
           ProducerProgress(p) \/ CrashProducer(p)
    PROVE  /\ file'["manifest"] = file["manifest"]
           /\ file'["data"] = file["data"]
<1>1. file \in [Path -> Contents]
  BY DEF PublishInv, SourceTypeOK, FileTypeOK
<1>2. ~RenameData(p) /\ ~RenameManifest(p)
  BY DEF PublishInv, WriterIsAlone, CompleterOwnsData, Writing, Completing,
     RenameData, RenameManifest, Goto
<1>3. CASE ClaimFilename(p) \/ WriteData(p) \/ ClaimManifest(p) \/ WriteManifest(p)
  BY <1>1, <1>3, Names
  DEF ClaimFilename, WriteData, ClaimManifest, WriteManifest, Put, fileVars
<1>4. CASE \/ BeginPublish(p) \/ RecheckClaim(p) \/ FsyncData(p) \/ SyncData(p)
           \/ FsyncManifest(p) \/ SyncManifest(p) \/ CrashProducer(p)
  BY <1>4 DEF BeginPublish, RecheckClaim, FsyncData, SyncData, FsyncManifest,
     SyncManifest, CrashProducer, Fsync, FsyncDirectory, fileVars
<1> QED
  BY <1>2, <1>3, <1>4 DEF ProducerProgress
-----------------------------------------------------------------------------
(* Readers *)

LEMMA ReaderTypes ==
    ASSUME SourceTypeOK, NEW r \in Reader, ReaderStep(r)
    PROVE  /\ rpc' \in [Reader -> {"idle", "exists", "data", "manifest", "recheck"}]
           /\ read' \in [Reader -> [data : Contents, manifest : Contents]]
           /\ verdict' \in [Reader -> Verdict]
<1>1. /\ rpc \in [Reader -> {"idle", "exists", "data", "manifest", "recheck"}]
      /\ read \in [Reader -> [data : Contents, manifest : Contents]]
      /\ verdict \in [Reader -> Verdict]
      /\ file \in [Path -> Contents]
  BY DEF SourceTypeOK, FileTypeOK
<1> DEFINE Ends == \E v \in Verdict : Decide(r, v)
           GoesOn == \E to \in {"exists", "data", "manifest", "recheck"} :
                        Proceed(r, to)
<1>2. ASSUME Ends \/ GoesOn
      PROVE  /\ rpc' \in [Reader -> {"idle", "exists", "data", "manifest", "recheck"}]
             /\ verdict' \in [Reader -> Verdict]
  BY <1>1, <1>2 DEF Decide, Proceed, Verdict
<1>3. ASSUME NEW c, Judge(r, c)
      PROVE  Ends \/ GoesOn
  BY <1>3 DEF Judge, Verdict
<1>4. CASE BeginInspection(r)
  <2>1. NothingRead \in [data : Contents, manifest : Contents]
    BY Names DEF NothingRead
  <2> QED
    BY <1>1, <1>2, <1>4, <2>1 DEF BeginInspection, Verdict
<1>5. CASE CheckFiles(r) \/ RecheckParts(r)
  BY <1>1, <1>2, <1>5 DEF CheckFiles, RecheckParts, Verdict
<1>6. CASE ReadData(r)
  <2> DEFINE c == [read[r] EXCEPT !.data = file["data"]]
  <2>1. c \in [data : Contents, manifest : Contents]
    BY <1>1, Names
  <2>2. read' = [read EXCEPT ![r] = c]
    BY <1>6 DEF ReadData
  <2>3. Ends \/ GoesOn
    BY <1>3, <1>6 DEF ReadData
  <2> QED
    BY <1>1, <1>2, <2>1, <2>2, <2>3
<1>7. CASE ReadManifest(r)
  <2> DEFINE c == [read[r] EXCEPT !.manifest = file["manifest"]]
  <2>1. c \in [data : Contents, manifest : Contents]
    BY <1>1, Names
  <2>2. read' = [read EXCEPT ![r] = c]
    BY <1>7 DEF ReadManifest
  <2>3. c.manifest \in Bytes \/ c.manifest = NoFile \/ c.manifest = Torn
    BY <2>1 DEF Contents
  <2>4. r \in IngestReader \/ r \in LedgerReader
    BY DEF Reader
  <2>5. Ends \/ GoesOn
    BY <1>3, <1>7, <2>3, <2>4 DEF ReadManifest, Verdict
  <2> QED
    BY <1>1, <1>2, <2>1, <2>2, <2>5
<1> QED
  BY <1>4, <1>5, <1>6, <1>7 DEF ReaderStep

\* A reader that judges a manifest beside the data it describes goes on, or
\* rejects what is declared.
LEMMA JudgeAccepts ==
    ASSUME PublishInv, Exists("manifest"), NEW r \in Reader, NEW c,
           c.data = file["data"], c.manifest = file["manifest"], Judge(r, c)
    PROVE  \/ Proceed(r, "recheck")
           \/ Decide(r, "REJECTED") /\ ~Accepts(r, file["data"])
<1>1. c.manifest \in Bytes /\ c.data = c.manifest /\ c.data = file["data"]
  BY DEF PublishInv, FinalNamesAreWhole, Exists
<1>2. c.data # NoFile
  BY <1>1, FileAssumption
<1> QED
  BY <1>1, <1>2 DEF Judge, IsVerified

\* The data a visible manifest describes is whole and on the disk.
LEMMA ReadIsDurable ==
    ASSUME PublishInv, Exists("manifest"),
           NEW c \in [data : Contents, manifest : Contents],
           c.data = file["data"], c.manifest = file["manifest"]
    PROVE  /\ file["data"] \in Bytes
           /\ durable["data"] = file["data"]
           /\ c = [data |-> file["data"], manifest |-> file["data"]]
<1>1. /\ file["data"] \in Bytes
      /\ durable["data"] = file["data"]
      /\ file["manifest"] = file["data"]
  BY DEF PublishInv, FinalNamesAreWhole, Exists
<1> QED
  BY <1>1

\* What a step of the reader r leaves of the others.
OthersStay(r) ==
    \A s \in Reader \ {r} :
        rpc'[s] = rpc[s] /\ read'[s] = read[s] /\ verdict'[s] = verdict[s]

\* Each read of inspect_source_file and of verify_delivery, in its order.
LEMMA ReaderStepOK ==
    ASSUME GateInv, NEW r \in Reader, ReaderStep(r)
    PROVE  ReaderOK(r)' /\ OthersStay(r) /\ UNCHANGED fileVars
<1>1. /\ rpc \in [Reader -> {"idle", "exists", "data", "manifest", "recheck"}]
      /\ read \in [Reader -> [data : Contents, manifest : Contents]]
      /\ verdict \in [Reader -> Verdict]
      /\ file \in [Path -> Contents]
  BY DEF GateInv, PublishInv, SourceTypeOK, FileTypeOK
<1>2. ReaderOK(r) /\ PublishInv
  BY DEF GateInv
<1>3. UNCHANGED fileVars
  BY DEF ReaderStep, BeginInspection, CheckFiles, ReadData, ReadManifest,
     RecheckParts
<1>4. UNCHANGED <<file, durable>>
  BY <1>3 DEF fileVars
<1>5. \/ r \in LedgerReader /\ r \notin IngestReader
      \/ r \in IngestReader /\ r \notin LedgerReader
  BY SourceAssumption DEF Reader
<1> USE DEF ReaderOK, ReadsAreCurrent, VerifiedIsDurable, RejectedIsDurable
<1>6. CASE BeginInspection(r)
  BY <1>1, <1>2, <1>3, <1>4, <1>6
  DEF BeginInspection, Decide, Proceed, OthersStay
<1>7. CASE CheckFiles(r)
  BY <1>1, <1>2, <1>3, <1>4, <1>5, <1>7
  DEF CheckFiles, Decide, Proceed, OthersStay, Exists
<1>8. CASE RecheckParts(r)
  BY <1>1, <1>2, <1>3, <1>4, <1>8
  DEF RecheckParts, Decide, OthersStay
<1>9. CASE ReadData(r)
  <2> DEFINE c == [read[r] EXCEPT !.data = file["data"]]
  <2>1. /\ c \in [data : Contents, manifest : Contents]
        /\ c.data = file["data"] /\ c.manifest = read[r].manifest
    BY <1>1, Names
  <2>2. read' = [read EXCEPT ![r] = c] /\ rpc[r] = "data"
    BY <1>9 DEF ReadData
  <2>3. CASE r \in IngestReader
    <3>1. Proceed(r, "manifest")
      BY <1>9, <2>3 DEF ReadData
    <3> QED
      BY <1>1, <1>2, <1>3, <1>4, <1>5, <2>1, <2>2, <2>3, <3>1
      DEF Proceed, OthersStay, Exists
  <2>4. CASE r \in LedgerReader
    <3>1. Judge(r, c)
      BY <1>5, <1>9, <2>4 DEF ReadData
    <3>2. Exists("manifest") /\ c.manifest = file["manifest"]
      BY <1>2, <2>1, <2>2, <2>4
    <3>3. \/ Proceed(r, "recheck")
          \/ Decide(r, "REJECTED") /\ ~Accepts(r, file["data"])
      BY <1>2, <2>1, <3>1, <3>2, JudgeAccepts
    <3>4. Accepts(r, file["data"])' = Accepts(r, file["data"])
      BY <1>4 DEF Accepts, Parses
    <3> HIDE DEF c
    <3> QED
      BY <1>1, <1>2, <1>3, <1>4, <2>1, <2>2, <3>2, <3>3, <3>4, ReadIsDurable
      DEF Proceed, Decide, OthersStay
  <2> QED
    BY <1>5, <2>3, <2>4
<1>10. CASE ReadManifest(r)
  <2> DEFINE c == [read[r] EXCEPT !.manifest = file["manifest"]]
  <2>1. /\ c \in [data : Contents, manifest : Contents]
        /\ c.data = read[r].data /\ c.manifest = file["manifest"]
    BY <1>1, Names
  <2>2. read' = [read EXCEPT ![r] = c] /\ rpc[r] = "manifest"
    BY <1>10 DEF ReadManifest
  <2>3. Exists("manifest") /\ file["manifest"] \in Bytes
    BY <1>2, <2>2 DEF PublishInv, FinalNamesAreWhole, Exists
  <2>4. CASE r \in IngestReader
    <3>1. Judge(r, c)
      BY <1>5, <1>10, <2>4 DEF ReadManifest
    <3>2. c.data = file["data"]
      BY <1>2, <2>1, <2>2, <2>4
    <3>3. \/ Proceed(r, "recheck")
          \/ Decide(r, "REJECTED") /\ ~Accepts(r, file["data"])
      BY <1>2, <2>1, <2>3, <3>1, <3>2, JudgeAccepts
    <3>4. Accepts(r, file["data"])' = Accepts(r, file["data"])
      BY <1>4 DEF Accepts, Parses
    <3> HIDE DEF c
    <3> QED
      BY <1>1, <1>2, <1>3, <1>4, <2>1, <2>2, <2>3, <3>2, <3>3, <3>4, ReadIsDurable
      DEF Proceed, Decide, OthersStay
  <2>5. CASE r \in LedgerReader
    <3>1. \/ Proceed(r, "data")
          \/ Decide(r, "REJECTED") /\ ~Accepts(r, file["manifest"])
      BY <1>5, <1>10, <2>1, <2>3, <2>5, FileAssumption DEF ReadManifest
    <3>2. /\ file["manifest"] = file["data"] /\ file["data"] \in Bytes
          /\ durable["data"] = file["data"]
      BY <1>2, <2>3 DEF PublishInv, FinalNamesAreWhole
    <3>3. Accepts(r, file["data"])' = Accepts(r, file["data"])
      BY <1>4 DEF Accepts, Parses
    <3>4. CASE Proceed(r, "data")
      BY <1>1, <1>2, <1>3, <1>4, <1>5, <2>1, <2>2, <2>3, <2>5, <3>4
      DEF Proceed, OthersStay, Exists
    <3>5. CASE Decide(r, "REJECTED") /\ ~Accepts(r, file["data"])
      BY <1>1, <1>2, <1>3, <1>4, <2>1, <2>2, <3>2, <3>3, <3>5
      DEF Decide, OthersStay
    <3> QED
      BY <3>1, <3>2, <3>4, <3>5
  <2> QED
    BY <1>5, <2>4, <2>5
<1> QED
  BY <1>6, <1>7, <1>8, <1>9, <1>10 DEF ReaderStep

\* A rejection stays deserved while the reader does not move.
LEMMA RejectedStays ==
    ASSUME PublishInv, Next, NEW r \in Reader, RejectedIsDurable(r),
           UNCHANGED <<read, verdict>>
    PROVE  RejectedIsDurable(r)'
<1> SUFFICES ASSUME verdict[r] = "REJECTED"
             PROVE  /\ file'["data"] \in Bytes
                    /\ durable'["data"] = file'["data"]
                    /\ read[r].manifest = file'["data"]
                    /\ ~Accepts(r, file'["data"])
  BY DEF RejectedIsDurable, Accepts, Parses
<1>1. /\ file["data"] \in Bytes
      /\ durable["data"] = file["data"]
      /\ read[r].manifest = file["data"]
      /\ ~Accepts(r, file["data"])
  BY DEF RejectedIsDurable
<1>2. file'["data"] = file["data"] /\ durable'["data"] = file["data"]
  BY <1>1, FileAssumption, DurableDataStays
<1> QED
  BY <1>1, <1>2

\* A producer's step leaves what a reader in progress relies on.
LEMMA ProducerLeavesReaders ==
    ASSUME GateInv, Next, NEW p \in Producer,
           ProducerProgress(p) \/ CrashProducer(p), UNCHANGED readerVars,
           NEW r \in Reader
    PROVE  ReaderOK(r)'
<1>1. ReaderOK(r) /\ PublishInv /\ UNCHANGED <<rpc, read, verdict>>
  BY DEF GateInv, readerVars
<1>2. ReadsAreCurrent(r)'
  <2>1. CASE Exists("manifest")
    BY <1>1, <2>1, ManifestStays DEF ReaderOK, ReadsAreCurrent, Exists
  <2>2. CASE ~Exists("manifest")
    <3>1. rpc[r] \notin {"data", "manifest"}
      BY <1>1, <2>2 DEF ReaderOK, ReadsAreCurrent
    <3> QED
      BY <1>1, <3>1 DEF ReadsAreCurrent
  <2> QED
    BY <2>1, <2>2
<1>3. VerifiedIsDurable(r)'
  <2> SUFFICES ASSUME verdict[r] = "READY" \/ rpc[r] = "recheck"
               PROVE  /\ file'["data"] \in Bytes
                      /\ durable'["data"] = file'["data"]
                      /\ read[r] = [data |-> file'["data"],
                                    manifest |-> file'["data"]]
    BY <1>1 DEF VerifiedIsDurable
  <2>1. /\ file["data"] \in Bytes
        /\ durable["data"] = file["data"]
        /\ read[r] = [data |-> file["data"], manifest |-> file["data"]]
    BY <1>1 DEF ReaderOK, VerifiedIsDurable
  <2>2. file'["data"] = file["data"] /\ durable'["data"] = file["data"]
    BY <1>1, <2>1, FileAssumption, DurableDataStays
  <2> QED
    BY <2>1, <2>2
<1>4. RejectedIsDurable(r)'
  BY <1>1, RejectedStays DEF ReaderOK
<1> QED
  BY <1>1, <1>2, <1>3, <1>4 DEF ReaderOK

\* A loss of power ends every inspection and leaves the data of the verdicts.
LEMMA PowerLossLeavesReaders ==
    ASSUME GateInv, Next, PowerLoss, NEW r \in Reader
    PROVE  ReaderOK(r)'
<1>1. /\ ReaderOK(r) /\ PublishInv
      /\ rpc'[r] = "idle" /\ UNCHANGED <<read, verdict>>
  BY DEF GateInv, PowerLoss
<1>2. ReadsAreCurrent(r)'
  BY <1>1 DEF ReadsAreCurrent
<1>3. VerifiedIsDurable(r)'
  <2> SUFFICES ASSUME verdict[r] = "READY"
               PROVE  /\ file'["data"] \in Bytes
                      /\ durable'["data"] = file'["data"]
                      /\ read[r] = [data |-> file'["data"],
                                    manifest |-> file'["data"]]
    BY <1>1 DEF VerifiedIsDurable
  <2>1. /\ file["data"] \in Bytes
        /\ durable["data"] = file["data"]
        /\ read[r] = [data |-> file["data"], manifest |-> file["data"]]
    BY <1>1 DEF ReaderOK, VerifiedIsDurable
  <2>2. file'["data"] = file["data"] /\ durable'["data"] = file["data"]
    BY <1>1, <2>1, FileAssumption, DurableDataStays
  <2> QED
    BY <2>1, <2>2
<1>4. RejectedIsDurable(r)'
  BY <1>1, RejectedStays DEF ReaderOK
<1> QED
  BY <1>1, <1>2, <1>3, <1>4 DEF ReaderOK
-----------------------------------------------------------------------------
(* The gate *)

LEMMA InitGate == Init => GateInv
<1> SUFFICES ASSUME Init
             PROVE  GateInv
  OBVIOUS
<1>1. SourceTypeOK
  BY Names DEF Init, FileInit, SourceTypeOK, FileTypeOK, ProducerPC, Verdict,
     NothingRead
<1>2. PublishInv
  BY <1>1, Names DEF Init, FileInit, PublishInv, ClaimIsExclusive, WriterIsAlone,
     CompleterOwnsData, FinalNamesAreWhole, DeclarationsParse, Exists, Claimed,
     Writing, Completing
<1>3. \A r \in Reader : ReaderOK(r)
  BY DEF Init, ReaderOK, ReadsAreCurrent, VerifiedIsDurable, RejectedIsDurable
<1> QED
  BY <1>2, <1>3 DEF GateInv

LEMMA NextKeepsGate == GateInv /\ [Next]_vars => GateInv'
<1> SUFFICES ASSUME GateInv, [Next]_vars
             PROVE  GateInv'
  OBVIOUS
<1>1. PublishInv /\ SourceTypeOK
  BY DEF GateInv, PublishInv
<1>2. ASSUME Next, NEW p \in Producer,
             ProducerProgress(p) \/ CrashProducer(p),
             UNCHANGED <<readerVars, contract>>
      PROVE  GateInv'
  <2>1. SourceTypeOK'
    BY <1>1, <1>2, ProducerTypes DEF SourceTypeOK, readerVars, Contents
  <2>2. PublishInv'
    BY <1>1, <1>2, <2>1, ProducerKeepsPublished DEF PublishInv, PublishedOK
  <2> QED
    BY <1>2, <2>2, ProducerLeavesReaders DEF GateInv
<1>3. ASSUME NEW r \in Reader, ReaderStep(r), UNCHANGED <<ppc, contract>>
      PROVE  GateInv'
  <2>1. ReaderOK(r)' /\ OthersStay(r) /\ UNCHANGED fileVars
    BY <1>3, ReaderStepOK
  <2>2. PublishedOK' /\ FileTypeOK'
    BY <1>1, <1>3, <2>1, PublishedStays
  <2>3. SourceTypeOK'
    BY <1>1, <1>3, <2>2, ReaderTypes DEF SourceTypeOK, Contents
  <2>4. PublishInv'
    BY <2>2, <2>3 DEF PublishInv, PublishedOK
  <2>5. ASSUME NEW s \in Reader, s # r
        PROVE  ReaderOK(s)'
    BY <2>1, <2>5 DEF GateInv, ReaderOK, ReadsAreCurrent, VerifiedIsDurable,
       RejectedIsDurable, Accepts, Parses, OthersStay, fileVars, Exists
  <2> QED
    BY <2>1, <2>4, <2>5 DEF GateInv
<1>4. ASSUME Next, PowerLoss, UNCHANGED contract
      PROVE  GateInv'
  <2>1. SourceTypeOK'
    BY <1>1, <1>4, PowerLossKeepsPublished DEF SourceTypeOK, PowerLoss, Contents
  <2>2. PublishInv'
    BY <1>1, <1>4, <2>1, PowerLossKeepsPublished DEF PublishInv, PublishedOK
  <2> QED
    BY <1>4, <2>2, PowerLossLeavesReaders DEF GateInv
<1>5. CASE UNCHANGED vars
  <2>1. PublishedOK' /\ FileTypeOK'
    BY <1>1, <1>5, PublishedStays DEF vars
  <2>2. SourceTypeOK'
    BY <1>1, <1>5, <2>1 DEF SourceTypeOK, vars, Contents
  <2>3. \A r \in Reader : ReaderOK(r)'
    BY <1>5 DEF GateInv, ReaderOK, ReadsAreCurrent, VerifiedIsDurable,
       RejectedIsDurable, Accepts, Parses, vars, fileVars, Exists
  <2> QED
    BY <2>1, <2>2, <2>3 DEF GateInv, PublishInv, PublishedOK
<1> QED
  BY <1>2, <1>3, <1>4, <1>5 DEF Next, ProducerStep

\* The inductive invariant of publish_source_file and of its readers.
THEOREM GateInvariant == Spec => []GateInv
BY InitGate, NextKeepsGate, PTL DEF Spec

\* The types of the file gate, for any producers and readers.
THEOREM SourceTypeCorrect == Spec => []SourceTypeOK
<1>1. GateInv => SourceTypeOK
  BY DEF GateInv, PublishInv
<1> QED
  BY <1>1, GateInvariant, PTL

\* publish_source_file, for any number of racing producers and a crash or loss
\* of power at any point: a visible manifest is whole and stands beside the
\* whole data file it describes.
THEOREM ManifestCompletes == Spec => []ManifestCompletesData
<1>1. GateInv => ManifestCompletesData
  BY DEF GateInv, PublishInv, FinalNamesAreWhole, ManifestCompletesData, Exists
<1> QED
  BY <1>1, GateInvariant, PTL

\* inspect_source_file and verify_delivery, for any number of racing producers
\* and readers and any metadata: what publish_source_file writes is rejected only
\* for what it declares, and every verdict on the filename is on that manifest.
THEOREM RejectionIsDeserved == Spec => []RejectedForItsMetadata
<1>1. GateInv => RejectedForItsMetadata
  <2> SUFFICES ASSUME GateInv, NEW r \in Reader, NEW s \in Reader,
                      verdict[r] = "REJECTED",
                      verdict[s] \in {"REJECTED", "READY"}
               PROVE  /\ Parses(read[r].manifest)
                      /\ ~Accepts(r, read[r].manifest)
                      /\ read[s].manifest = read[r].manifest
    BY DEF RejectedForItsMetadata
  <2>1. /\ read[r].manifest = file["data"] /\ file["data"] \in Bytes
        /\ ~Accepts(r, file["data"])
    BY DEF GateInv, ReaderOK, RejectedIsDurable
  <2>2. Parses(file["data"])
    BY <2>1, FileAssumption DEF GateInv, PublishInv, DeclarationsParse, Exists
  <2>3. read[s].manifest = file["data"]
    BY DEF GateInv, ReaderOK, RejectedIsDurable, VerifiedIsDurable
  <2> QED
    BY <2>1, <2>2, <2>3
<1> QED
  BY <1>1, GateInvariant, PTL

\* Any two readers, before and after losses of power, verify the same bytes
\* under one filename.
THEOREM VerifiedOnce == Spec => []OneVerifiedDelivery
<1>1. GateInv => OneVerifiedDelivery
  BY DEF GateInv, ReaderOK, VerifiedIsDurable, OneVerifiedDelivery
<1> QED
  BY <1>1, GateInvariant, PTL
-----------------------------------------------------------------------------
(* The producer contract *)

LEMMA ContractStep ==
    ASSUME PublishInv, ContractIsKept, contract, NEW p \in Producer,
           IsAlone(p), ProducerProgress(p), UNCHANGED contract
    PROVE  ContractIsKept'
<1>1. file \in [Path -> Contents] /\ ppc \in [Producer -> ProducerPC]
  BY DEF PublishInv, SourceTypeOK, FileTypeOK
<1>2. \A q \in Producer : q # p => ppc[q] = "idle"
  BY DEF IsAlone
<1> USE <1>1, <1>2, Names DEF ContractIsKept, Exists, Goto, Claimed
<1>3. CASE BeginPublish(p)
  BY <1>3 DEF BeginPublish, fileVars
<1>4. CASE ClaimFilename(p)
  BY <1>4 DEF ClaimFilename, Put, fileVars
<1>5. CASE RecheckClaim(p)
  BY <1>5 DEF RecheckClaim, fileVars
<1>6. CASE WriteData(p)
  BY <1>6 DEF WriteData, Put
<1>7. CASE FsyncData(p)
  BY <1>7 DEF FsyncData, Fsync
<1>8. CASE RenameData(p)
  BY <1>8 DEF RenameData, Rename
<1>9. CASE SyncData(p)
  BY <1>9 DEF SyncData, FsyncDirectory
<1>10. CASE ClaimManifest(p)
  BY <1>10 DEF ClaimManifest, Put
<1>11. CASE WriteManifest(p)
  BY <1>11 DEF WriteManifest, Put
<1>12. CASE FsyncManifest(p)
  BY <1>12 DEF FsyncManifest, Fsync
<1>13. CASE RenameManifest(p)
  BY <1>13 DEF RenameManifest, Rename
<1>14. CASE SyncManifest(p)
  BY <1>14 DEF SyncManifest, FsyncDirectory
<1> QED
  BY <1>3, <1>4, <1>5, <1>6, <1>7, <1>8, <1>9, <1>10, <1>11, <1>12, <1>13, <1>14
     DEF ProducerProgress

LEMMA NextKeepsContract ==
    ASSUME GateInv, ContractIsKept, [Next]_vars
    PROVE  ContractIsKept'
<1>1. PublishInv
  BY DEF GateInv
<1>2. CASE ~contract \/ UNCHANGED <<fileVars, ppc, contract>>
  BY <1>2 DEF ContractIsKept, fileVars, Exists, Next, ProducerStep, vars
<1>3. ASSUME NEW r \in Reader, ReaderStep(r)
      PROVE  UNCHANGED fileVars
  BY <1>3 DEF ReaderStep, BeginInspection, CheckFiles, ReadData, ReadManifest,
     RecheckParts
<1>4. ASSUME NEW p \in Producer, ProducerStep(p), contract
      PROVE  ContractIsKept'
  BY <1>1, <1>4, ContractStep DEF ProducerStep
<1> QED
  BY <1>2, <1>3, <1>4 DEF Next, CrashProducer, PowerLoss, vars

\* A producer that is the only one for its filename and meets no fault leaves
\* no temporary file beside a finished manifest: the gate cannot wait forever
\* for one to go away.
THEOREM NotBlocked == Spec => []CompletedIsNotBlocked
<1>1. Init => ContractIsKept
  BY Names DEF Init, FileInit, ContractIsKept, Exists
<1>2. GateInv /\ ContractIsKept /\ [Next]_vars => ContractIsKept'
  BY NextKeepsContract
<1>3. ContractIsKept => CompletedIsNotBlocked
  BY DEF ContractIsKept, CompletedIsNotBlocked, PartExists, Claimed
<1> QED
  BY <1>1, <1>2, <1>3, GateInvariant, PTL DEF Spec
=============================================================================
