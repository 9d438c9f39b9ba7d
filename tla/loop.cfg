SPECIFICATION FairSpec
CONSTANTS
    NProducers = 2
    EvaluatorThreads = 1
    NumaNodes = 1
    EvaluatorsBound = FALSE
    Threshold = 2
    Interval = TRUE
    Spurious = TRUE
    MaxOps = 4
INVARIANT NoLostWakeup
PROPERTY PendingIsDrained
