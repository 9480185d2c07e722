CONSTANTS
    Workers = {w1, w2}
    Tasks = {t1, t2}
    FailureThreshold = 2
    RedisFails = TRUE
SPECIFICATION BreakerFairSpec
INVARIANTS
    BreakerTypeOK
    TripConsistent
PROPERTY OpenIsTested
