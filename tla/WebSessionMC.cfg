SPECIFICATION Spec
CONSTANTS
    Replicas = {p1, p2}
    Requests = {q1, q2}
    MaxLogins = 1
    MaxGen = 2
    MaxFaults = 1
    None = None
INVARIANTS TokensKept
PROPERTIES RevokedForGood Answered
CHECK_DEADLOCK FALSE
