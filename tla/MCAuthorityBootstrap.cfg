SPECIFICATION FairSpec
CONSTANTS
    Callers = {p1, p2, p3}
    Keeper = p1
    Keys = {k1, k2}
    Realms = {r1, r2}
    NoRealm = NoRealm
    RollbackLimit = 1
    MaxObserved = 2
INVARIANTS
    TypeOK
    OneRealm
    AlwaysResumable
PROPERTY EventuallyReady
