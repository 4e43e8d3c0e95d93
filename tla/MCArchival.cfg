\* Two workers archive and retry two batches that share one object.
SPECIFICATION Spec
CONSTANTS
    b1 = b1
    b2 = b2
    o1 = o1
    x1 = x1
    x2 = x2
    w1 = w1
    w2 = w2
    Batch = {b1, b2}
    Object = {o1}
    Path = {b1, b2, o1}
    Bytes = {x1, x2}
    Foreign = x2
    ObjectOf <- OneObject
    Checksum <- OneChecksum
    Worker = {w1, w2}
    NoOne = NoOne
    NoFile = NoFile
    Torn = Torn
    SourcesChange = TRUE
    PowerFails = FALSE
SYMMETRY Interchangeable
INVARIANTS
    ArchivedIsVerified
PROPERTIES
    EvidenceIsKept
    MarkerIsPreserved
    ObjectsAreImmutable
