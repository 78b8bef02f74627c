SPECIFICATION FairSpec
CONSTANTS
    sql1 = sql1
    sql2 = sql2
    login = login
    config = config
    Instances <- Servers
    Outcomes <- AllOutcomes
    Keys <- WideKeys
    InstanceOf <- WideInstanceOf
    UnmatchedKeys <- WideUnmatchedKeys
    MaxRuns = 2
INVARIANTS
    ChangesLogged
PROPERTIES
    CommandEnds
CHECK_DEADLOCK FALSE
