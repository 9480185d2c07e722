CONSTANTS
    Deliveries = {d1}
    Workers = {w1}
    e1 = e1
    Endpoints <- OneEndpoint
    endpoint_id <- ToOneEndpoint
    MaxAttempts = 2
    AttemptBound = 2
    Sources = {"create"}
    Faults = {}
    PolicyAttempts = 1
    MaxStreamLen = 1
SPECIFICATION RedisFairSpec
PROPERTY EventuallySettled
