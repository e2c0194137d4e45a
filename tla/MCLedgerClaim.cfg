SPECIFICATION Spec
CONSTANTS
    Ops = {o1}
    Workers = {w1}
    Ttl = 3
    StaleApply = 3
    Lag = 0
    Horizon = 1
    MaxClock = 1
    Faults = FALSE
    NoOp = NoOp
PROPERTY PreInvocationFailureRecorded
