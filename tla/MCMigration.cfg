SPECIFICATION FairSpec
CONSTANT Program = {"avx2", "scalar", "fpsse", "simple", "kernel"}
INVARIANTS TypeOK MigratedMeansHandedOver VerdictIsRight
PROPERTY SuccessIsSeen
CHECK_DEADLOCK FALSE
