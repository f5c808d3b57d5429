SPECIFICATION FairSpec
CONSTANTS
    TxOps = {}
    PollOps = {p1}
    PhaseOps = {a1}
    OrgDeletes = {}
    Waiters = {w1, w2}
    Timed = {w1}
    MaxFiled = 1
    MaxAttempts = 2
    MaxRestarts = 1
    Faults = TRUE
    Drops = TRUE
    None = None
INVARIANTS AnswersAgree
PROPERTIES RegisteredIsWoken
CHECK_DEADLOCK FALSE
