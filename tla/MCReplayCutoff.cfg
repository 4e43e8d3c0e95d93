SPECIFICATION Spec
CONSTANTS
    d1 = d1  d2 = d2  d3 = d3  l1 = l1  l2 = l2  e1 = e1  a = a  b = b
    Delivery = {d1, d2}
    LedgerDelivery = {}
    DefectiveDelivery = {}
    Entity = {e1}
    Version = {1, 2}
    Hash = {a, b}
    NoHash = NoHash
    InvalidRow = InvalidRow
    NoOne = NoOne
    Rows <- MCRows
    EntityRank <- MCEntityRank
    LockNumber <- MCLockNumber
    Ingester = {i1}
    Recoverer = {r1}
    MaxAttempts = 2
    MaxTime = 2
    BaseDelay = 1
    MaxRetryDelay = 2
    ExtraAttempts = 1
    AttemptBound = 3
INVARIANT
    OneEvaluationCutoff
