\* Four producers race for one filename, with crashes and losses of power
\* anywhere, or keep the producer contract.
SPECIFICATION FairSpec
CONSTANTS
    p1 = p1
    p2 = p2
    p3 = p3
    p4 = p4
    r1 = r1
    r2 = r2
    Producer = {p1, p2, p3, p4}
    Bytes = {p1, p2, p3, p4}
    LedgerReader = {r1}
    IngestReader = {r2}
    Declared <- MCDeclared
    SupportedSchemaVersions = {"1"}
    Path = {"data", "dataPart", "manifest", "manifestPart"}
    NoFile = NoFile
    Torn = Torn
INVARIANTS
    SourceTypeOK
    ManifestCompletesData
    RejectedForItsMetadata
    OneVerifiedDelivery
    CompletedIsNotBlocked
PROPERTIES
    PublicationIsJudged
