SPECIFICATION Spec
CONSTANTS
    Workflows = {w1, w2}
    Versions = {v1, v2, v3}
    Runs = {r1}
    Clients = {c1}
    Configs = {k1, k2}
    Instants = {t1, t2}
    None = None
SYMMETRY Symmetry
INVARIANTS PromotedIsOwn NumberDenotesOne RunPinsOwnVersion EtagIsCurrent
PROPERTIES StaysPromoted
CHECK_DEADLOCK FALSE
