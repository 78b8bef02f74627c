SPECIFICATION Spec
CONSTANTS
    sql1 = sql1
    sql2 = sql2
    login = login
    config = config
    Instances <- Servers
    Outcomes <- AllOutcomes
    Keys <- LongKeys
    InstanceOf <- LongInstanceOf
    UnmatchedKeys = {}
    MaxRuns = 3
INVARIANT
    FixedOnlyWhenReached
CHECK_DEADLOCK FALSE
