CONSTANTS
    Deliveries = {d1}
    Workers = {w1, w2}
    e1 = e1
    Endpoints <- OneEndpoint
    endpoint_id <- ToOneEndpoint
    MaxAttempts = 2
    AttemptBound = 2
    Sources = {"create", "replay"}
    Faults = {"stall", "lost_reply"}
    PolicyAttempts = 1
    MaxStreamLen = 1
SYMMETRY Symmetry
SPECIFICATION RedisSpec
INVARIANTS
    RedisTypeOK
    NoStrandedDelivery
    DeliveredMeansReceived
    DeadLetterAccounted
    OneConsumer
PROPERTY KeepsLooseContract
