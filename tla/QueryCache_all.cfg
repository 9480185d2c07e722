CONSTANTS
    Calls = {c1, c2}
    Faults = {"lost_reply", "offline"}
SPECIFICATION CacheFairSpec
INVARIANTS
    CacheTypeOK
    ValidIsCurrent
    NeverBlank
PROPERTY ScreenCatchesUp
CHECK_DEADLOCK FALSE
