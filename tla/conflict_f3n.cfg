SPECIFICATION HSpec
CONSTANTS
    NoOp = NoOp
    NProducers = 2
    Keys = {k1, k2}
    Readers = {}
    Policy = "F3N"
    EvaluatorThreads = 1
    Threshold = 0
    Interval = TRUE
    ClientDrains = FALSE
    NumaNodes = 1
    EvaluatorsBound = FALSE
    HashCapacity = 2
    cardinality = 2
    kFutureNodeCapacity = 3
    KeysOf <- SharedKeys
    MaxOps = 4
    Discipline = "once"
SYMMETRY KeySymmetry
INVARIANT VisibleIsLive
CHECK_DEADLOCK FALSE
