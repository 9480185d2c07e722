CONSTANTS
    Tokens = {t1}
    Requests = {r1, r2, r3}
    Polls = {p1}
    MaxHistory = 2
    MaxResends = 1
    RateMax = 1
    MaxTime = 2
    Faults = {"error", "crash"}
    MaxCalls <- PageCalls
    MaxTroubled <- PageTrouble
SPECIFICATION PlaygroundSpec
INVARIANTS
    PlaygroundTypeOK
    OnlyResendsCopy
    LoneCaptureKept
SYMMETRY Symmetry
CHECK_DEADLOCK FALSE
