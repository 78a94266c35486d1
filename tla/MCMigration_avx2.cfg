SPECIFICATION Spec
CONSTANT Program = {"avx2"}
INVARIANT PassMeansSurvived
CHECK_DEADLOCK FALSE
