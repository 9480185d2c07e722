CONSTANTS
    Sockets = {s1, s2, s3}
    MaxTokens = 3
    MaxPokes = 2
    maxAttempts = 2
    Limit = 2
SPECIFICATION LiveFairSpec
INVARIANTS
    LiveTypeOK
    ConnectedIsOpen
PROPERTY Settles
CHECK_DEADLOCK FALSE
