SPECIFICATION Spec
CONSTANTS
    NumJobs = 4
    PageSize = 2
    MaxPerTick = 3
    MaxFailures = 1
    Expiring = {1, 4}
PROPERTIES ReapedWithinCap
