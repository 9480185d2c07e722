CONSTANTS
    Apis = {a1, a2}
    Requests = {r1, r2}
    Kinds = {"create", "batch", "replay"}
    Sizes = {1, 2}
    WebhookLimit = 2
    MaxDoubled = 1
    AllowOverage = FALSE
    QuotaFaults = {"error", "crash", "lost_reply", "reset"}
SPECIFICATION QuotaFairSpec
INVARIANTS
    QuotaTypeOK
    CountedOnce
    
PROPERTY BuffersDrain
CHECK_DEADLOCK FALSE
