SPECIFICATION MCSpec
CONSTANTS
    Targets <- MCTargets
    Hosts = {"h"}
    Ports = {1433, 1444}
    Names <- MCNames
    Logins = {"sa", "app"}
    Order <- MCOrder
    KindOf <- MCKindOf
    Required <- MCRequired
    Unsettled = {}
    Linux = {1, 2}
    MaxVersions = 1
    MaxEdits = 1
INVARIANTS
    TypeOK
    AppliedMeansFixed
    RollbackMeansRestored
PROPERTIES
    OwnLoginKept
    RightInstance
