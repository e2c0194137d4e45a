SPECIFICATION Spec
CONSTANTS
    DraftIds = {d1, d2, d3, d4}
    Sessions = {s1}
    Texts = {t1}
    MaxDrafts = 2
    MaxEvents = 5
    MaxPlans = 0
    None = None
SYMMETRY Symmetry
INVARIANT LimitHolds
CHECK_DEADLOCK FALSE
