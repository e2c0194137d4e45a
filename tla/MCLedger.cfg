SPECIFICATION FairSpec
CONSTANTS
    Ops = {o1, o2}
    Workers = {w1, w2}
    Ttl = 1
    StaleApply = 1
    Lag = 1
    Horizon = 1
    MaxClock = 3
    Faults = TRUE
    NoOp = NoOp
CONSTRAINT PlannedInOrder
INVARIANTS
    TypeOK
    AtMostOnce
    InvocationAccounted
    SucceededMeansApplied
    InvokedOnlyIfApproved
    AuditReplays
PROPERTIES
    FinalsStay
    RefinesGoverned
    EventuallyFinal
