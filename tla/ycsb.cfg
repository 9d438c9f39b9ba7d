SPECIFICATION Spec
CONSTANTS
    kWindowSize = 4
    HashOf <- Hash
    CommandLines <- Lines
    Latencies = {1, 2}
    LibraryMayFail = TRUE
    MaxThreads = 3
INVARIANTS
    TransactionsHit
    LimitIsExact
    NoMisuse
    ProducerIdsAreDistinct
    NoLostUpdate
    LastStatusCountsAll
    MinimumIsExact
    AllOperationsDone
PROPERTIES
    Terminates
