SPECIFICATION FairSpec
CONSTANTS
    ConnectTimeout = 1
    PollTimeout = 1
    QuitTimeout = 1
    DropTimeout = 2
INVARIANTS TypeOK DropLeavesNoChild NoStrayKill QuitOkMeansOwnExit
PROPERTIES AlwaysEnds
CHECK_DEADLOCK FALSE
