SPECIFICATION IngestSpec
SYMMETRY Interchangeable
CONSTANTS
    d1 = d1  d2 = d2  d3 = d3  l1 = l1  l2 = l2
    e1 = e1  e2 = e2  a = a  b = b
    Delivery = {d1, d2, d3}
    LedgerDelivery = {l1, l2}
    DefectiveDelivery = {l1}
    Entity = {e1, e2}
    Version = {1, 2}
    Hash = {a, b}
    NoHash = NoHash
    InvalidRow = InvalidRow
    NoOne = NoOne
    Rows <- MCRows
    EntityRank <- MCEntityRank
    LockNumber <- MCLockNumber
    Ingester = {w1, w2}
    MaxAttempts = 2
    MaxTime = 1
INVARIANTS
    ResolutionMatchesCanonical
    DispositionsMatchCanonical
    RetryFindsWholeDelivery
PROPERTIES
    HistoryIsImmutable
