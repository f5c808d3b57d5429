SPECIFICATION Spec
CONSTANTS
    Tabs = {t1, t2}
    Items = {"theme", "org"}
    Broadcast = {"theme"}
    Value <- MCValue
    Null = Null
    Bad = Bad
    Absent = Absent
    Users = {u1, u2}
    OrgOrder <- MCOrgOrder
    Member <- MCMember
    First = u1
    Nobody = Nobody
    Unloaded = Unloaded
    o1 = o1
    o2 = o2
    u1 = u1
    u2 = u2
    MaxActs = 4
SYMMETRY MCTabs
INVARIANTS StoresAgree ScopeHeld NextUserClean
CHECK_DEADLOCK FALSE
