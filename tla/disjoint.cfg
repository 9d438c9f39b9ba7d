SPECIFICATION DSpec
CONSTANTS
    NoOp = NoOp
    NProducers = 2
    Keys = {1, 2}
    Readers = {r1}
    Policy = "F3K"
    EvaluatorThreads = 2
    Threshold = 2
    Interval = TRUE
    ClientDrains = TRUE
    NumaNodes = 2
    EvaluatorsBound = TRUE
    HashCapacity = 1
    cardinality = 2
    kFutureNodeCapacity = 3
    KeysOf <- DealtKeys
    MaxOps = 3
INVARIANTS TypeOK NoForgottenChain CountersAgree NodesFit ChainIsOrdered
PROPERTY ImplementsAtomicIndex
CHECK_DEADLOCK FALSE
