SPECIFICATION CalmSpec
CONSTANTS
    Instances = {"a", "b"}
    Keys <- MCKeys
    InstanceOf <- MCInstanceOf
    Hosts <- MCHosts
    HostOf <- MCHostOf
    Outcomes <- MCOutcomes
    MayHang = {}
    Workers = 2
    MaxRuns = 1
INVARIANTS
    HealthyScanSucceeds
CHECK_DEADLOCK FALSE
