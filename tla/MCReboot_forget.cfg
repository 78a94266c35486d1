SPECIFICATION HarnessSpec
CONSTANTS
    BootTimeout = 1
    RebootTimeout = 1
    SshTimeout = 1
    UptimeLimit = 3
    MaxBoot = 3
PROPERTY FiredIsForgotten
CHECK_DEADLOCK FALSE
