SPECIFICATION Spec
CONSTANTS
    ConnectTimeout = 1
    PollTimeout = 1
    QuitTimeout = 1
    DropTimeout = 2
INVARIANT NoOrphan
CHECK_DEADLOCK FALSE
