SPECIFICATION FairSpec
CONSTANTS
    Instances = {"a", "b", "c"}
    Keys <- MCKeys
    InstanceOf <- MCInstanceOf
    Hosts <- MCHosts
    HostOf <- MCHostOf
    Outcomes <- MCOutcomes
    MayHang = {"c"}
    Workers = 2
    MaxRuns = 2
INVARIANTS
    TypeOK
    FindingsNeedLink
    CompletedMeansReached
PROPERTIES
    ClosedRunsAreFrozen
    ImplementsEngine
    AnsweringTargetsFinish
CHECK_DEADLOCK FALSE
