SPECIFICATION Spec
CONSTANTS
    DraftIds = {d1}
    Sessions = {s1, s2}
    Texts = {t1}
    MaxDrafts = 1
    MaxEvents = 3
    MaxPlans = 1
    None = None
PROPERTY DiscardIsFinal
CHECK_DEADLOCK FALSE
