SPECIFICATION FairSpec
CONSTANTS
    Jobs = 2
    Existing = {1}
    Worker = {w1, w2}
    Test = {t1, t2, t3}
INVARIANTS TypeOK TapsInUseAreHeld ExitIsHonest NothingLeft
PROPERTIES RunEnds
CHECK_DEADLOCK FALSE
