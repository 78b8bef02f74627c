SPECIFICATION Spec
CONSTANTS
    Targets = {t1, t2, t3}
    t1 = t1
    t2 = t2
    t3 = t3
    Servers = {"10.0.0.1", "localhost"}
    ServerOf <- MCServerOf
    Addresses = {"10.0.0.1"}
    AliasOf <- MCAliasOf
    Local = {"localhost"}
    MaxWorkers = 2
    MaxAsked = 2
    MaxFaults = 1
SYMMETRY Symmetry
INVARIANTS
    TypeOK
    AttemptsKeepTheirProfile
    SuccessIsOnRecord
    ProfilesAreEarned
PROPERTIES
    ScriptsRestore
CHECK_DEADLOCK FALSE
