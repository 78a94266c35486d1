SPECIFICATION FairSpec
CONSTANTS
    BootTimeout = 1
    RebootTimeout = 1
    SshTimeout = 1
    UptimeLimit = 3
    MaxBoot = 3
INVARIANTS TypeOK PassMeansRebooted RebootsOnce
PROPERTY RebootEnds
CHECK_DEADLOCK FALSE
