SPECIFICATION FairSpec
CONSTANTS
    Sessions = {s1, s2}
    Keeper = s1
    Limits = {1}
    MaxUid = 3
    MaxMessages = 3
    MaxExpunged = 1
    MaxValidity = 2
INVARIANTS
    TypeOK
    IndexConsistent
    CoverageHonest
    ReadsWhatWasIndexed
PROPERTIES
    ReferencesStay
    CursorCatchesUp
