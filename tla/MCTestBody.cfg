SPECIFICATION Spec
CONSTANTS
    Jobs = 2
    Existing = {0, 1}
    t1 = t1
    t2 = t2
    t3 = t3
    Test = {t1, t2, t3}
    Plans <- MCPlans
SYMMETRY MCSymmetry
INVARIANTS TypeOK OutlivesQemu NothingShared SameMachine
           SshFindsOwnGuest NothingStays
PROPERTY RunnerSpec
CHECK_DEADLOCK FALSE
CONSTRAINT FewFail
