\* One worker retries until every batch is archived, with losses of power at
\* any point.
SPECIFICATION FairSpec
CONSTANTS
    b1 = b1
    b2 = b2
    o1 = o1
    x1 = x1
    x2 = x2
    w1 = w1
    w2 = w2
    Batch = {b1, b2}
    Object = {o1}
    Path = {b1, b2, o1}
    Bytes = {x1, x2}
    Foreign = x2
    ObjectOf <- OneObject
    Checksum <- OneChecksum
    Worker = {w1}
    NoOne = NoOne
    NoFile = NoFile
    Torn = Torn
    SourcesChange = TRUE
    PowerFails = TRUE
INVARIANTS
    NoTornFile
PROPERTIES
    RetriesFinish
