SPECIFICATION Spec
CONSTANTS
    Keys = {1, 2}
    Policy = "F3N"
    cardinality = 2
    SequenceGap = 3
    CrashInDrain = FALSE
    PowerAfterDrain = FALSE
    MaxOps = 4
    MaxCrashes = 2
INVARIANTS
    AckedSurvives
    EveryImageRecovers
    SequencesDominate
CHECK_DEADLOCK FALSE
