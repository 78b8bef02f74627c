SPECIFICATION Spec
CONSTANTS
    t1 = t1
    t2 = t2
    t3 = t3
    Targets = {t1, t2, t3}
    ServerOf <- Servers
    InstanceOf <- Instances
    Estates <- All
    Installed = {"", "prod"}
INVARIANTS
    TypeOK
    KeyCellsReadBack
    ActionNeededIsDiscrepant
    RowsMeetTheirFindings
CHECK_DEADLOCK FALSE
