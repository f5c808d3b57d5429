SPECIFICATION Spec
CONSTANTS
    TxOps = {t1}
    PollOps = {p1}
    PhaseOps = {a1}
    OrgDeletes = {t1}
    Waiters = {}
    Timed = {}
    MaxFiled = 2
    MaxAttempts = 2
    MaxRestarts = 1
    Faults = TRUE
    Drops = FALSE
    None = None
INVARIANTS WorkAgrees
PROPERTIES SuccessFinal
CHECK_DEADLOCK FALSE
