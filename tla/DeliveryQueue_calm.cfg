CONSTANTS
    Deliveries = {d1}
    Workers = {w1, w2, w3}
    e1 = e1
    Endpoints <- OneEndpoint
    endpoint_id <- ToOneEndpoint
    MaxAttempts = 3
    AttemptBound = 3
    Sources = {"create", "test", "replay", "admin"}
    Faults = {"lost_reply"}
SYMMETRY Symmetry
SPECIFICATION Spec
INVARIANTS
    TypeOK
    NoStrandedDelivery
    DeliveredMeansReceived
    DeadLetterAccounted
    
    

    
