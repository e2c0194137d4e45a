SPECIFICATION Spec
CONSTANTS
    g1 = g1
    g2 = g2
    m1 = m1
    m2 = m2
    s1 = s1
    s2 = s2
    l1 = l1
    Grants = {g1, g2, g3}
    Manifests = {m1, m2}
    Stores = {s1, s2}
    StoreOf <- TwoStores
    LocationOf <- OneLocation
    Proofs = {p1, p2, forged}
    Genuine = {p1, p2}
    Lifetime = 1
    Tolerance = 1
    MaxClock = 3
    None = None
SYMMETRY Symmetry
INVARIANTS
    TypeOK
    NeverLockedOut
    ExpiryIsFinal
    OneEnrollmentPerIdentity
    AnswersAgree
