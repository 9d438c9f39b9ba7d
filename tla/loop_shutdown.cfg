SPECIFICATION FairSpec
CONSTANTS
    NProducers = 4
    EvaluatorThreads = 3
    NumaNodes = 2
    EvaluatorsBound = TRUE
    Threshold = 2
    Interval = TRUE
    Spurious = TRUE
    MaxOps = 4
INVARIANTS TypeOK NobodySleepsOn
PROPERTY ShutdownCompletes
