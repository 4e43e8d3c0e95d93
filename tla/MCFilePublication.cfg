\* Three publishers of two stores race, fail and lose power beside a reader.
SPECIFICATION Spec
CONSTANTS
    p1 = p1  p2 = p2  p3 = p3
    s1 = s1  s2 = s2
    r1 = r1  r2 = r2  r3 = r3
    q1 = q1
    Run = {r1, r2, r3}
    Publishable = {r1, r2}
    Publisher = {p1, p2, p3}
    Store = {s1, s2}
    StoreOf <- MCStoreOf
    Reader = {q1}
    NoOne = NoOne
    MaxPublications = 3
SYMMETRY Interchangeable
INVARIANTS
    ReadsAreFresh
PROPERTIES
    ImplementsRegister
