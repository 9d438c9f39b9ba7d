SPECIFICATION HSpec
CONSTANTS
    NoOp = NoOp
    NProducers = 2
    Keys = {k1}
    Readers = {}
    Policy = "F3N"
    EvaluatorThreads = 1
    Threshold = 0
    Interval = FALSE
    ClientDrains = TRUE
    NumaNodes = 1
    EvaluatorsBound = FALSE
    HashCapacity = 2
    cardinality = 2
    kFutureNodeCapacity = 3
    KeysOf <- SharedKeys
    MaxOps = 3
    Discipline = "once"
INVARIANT VisibleIsLive
CHECK_DEADLOCK FALSE
