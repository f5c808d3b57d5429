SPECIFICATION Spec
CONSTANTS
    MaxAttempts = 2
    Transport = "loopback"
    None = None
    Encryption = TRUE
    MaxCalls = 2
    MaxGen = 1
    MaxRestarts = 1
    EventCap = 1
    MaxReads = 2
INVARIANTS SpentOnce SessionSound ViewAgrees
PROPERTIES NothingHangs
CHECK_DEADLOCK FALSE
