SPECIFICATION Spec
CONSTANTS
    d1 = d1
    Accounts = {a1, a2}
    DisplayOf <- OneDisplay
    Transitions = {t1, t2, t3}
    Contents = {c0, c1}
    InitialContent = c0
    MaxOther = 1
    None = None
SYMMETRY Symmetry
CHECK_DEADLOCK FALSE
INVARIANTS
    TypeOK
    LockedOutOnlyAfterAbort
    OneChangeInFlight
    ActiveAccountIsCommitted
    PairFollowsCommits
    ErasureSparesCredentials
    DeletedMeansErased
    OneCleanupPerLocator
PROPERTIES
    EndsStay
