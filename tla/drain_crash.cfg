SPECIFICATION Spec
CONSTANTS
    Keys = {1, 2}
    Policy = "F3K"
    cardinality = 2
    SequenceGap = 3
    CrashInDrain = TRUE
    PowerAfterDrain = FALSE
    MaxOps = 4
    MaxCrashes = 2
INVARIANTS
    PassedIsNotRecovered
CHECK_DEADLOCK FALSE
