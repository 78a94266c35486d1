SPECIFICATION FairSpec
CONSTANTS
    Byte <- MCByte
    NL = "nl"
    Expected <- MCExpected
    Capacity = 2
    Timeout = 1
    MaxLog = 5
INVARIANTS TypeOK WholeLines FirstMatch PollStartsAtLine
PROPERTIES PollEnds AbsSpec
CHECK_DEADLOCK FALSE
