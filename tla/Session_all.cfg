CONSTANTS
    Tabs = {t1, t2}
    MaxTokens = 3
    Allow = {"reload", "restore", "idle", "error", "sleep", "again"}
SPECIFICATION SessionFairSpec
INVARIANTS
    SessionTypeOK
    SessionKept
    StoredTokenUsable
PROPERTY CallsEnd
CHECK_DEADLOCK FALSE
