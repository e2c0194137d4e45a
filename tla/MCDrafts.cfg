SPECIFICATION Spec
CONSTANTS
    DraftIds = {d1, d2, d3}
    Sessions = {s1, s2}
    Texts = {t1, t2}
    MaxDrafts = 1
    MaxEvents = 4
    MaxPlans = 1
    None = None
SYMMETRY Symmetry
INVARIANTS
    TypeOK
    AuditMatchesRow
    PlansAreActiveVersions
CHECK_DEADLOCK FALSE
