SPECIFICATION AdminSpec
CONSTANTS
    MaxVersion = 3
    MaxActs = 8
    Absent = Absent
    Asked = Asked
INVARIANTS ListFresh
PROPERTIES SeededFresh EditsGuarded FormSettles
CHECK_DEADLOCK FALSE
