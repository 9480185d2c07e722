CONSTANTS
    Requests = {r1, r2, r3}
    Senders <- Mixed
    None = none
    TTL = 2
    End = 5
    Faults = {"error", "crash"}
    c1 = c1
    c2 = c2
    k1 = k1
    k2 = k2
    d1 = d1
    d2 = d2
    t1 = t1
    t2 = t2
SPECIFICATION IdempotencySpec
INVARIANTS
    IdempotencyTypeOK
    CachedIsOwn
SYMMETRY RequestSymmetry
CHECK_DEADLOCK FALSE
