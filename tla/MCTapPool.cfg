SPECIFICATION Spec
CONSTANTS
    Jobs = 5
    Existing = {0, 1, 3, 4}
    Worker = {w1, w2, w3, w4, w5}
INVARIANTS TypeOK Conserved PairsDoNotMeet NoNeedlessFailure
