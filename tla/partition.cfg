SPECIFICATION PlacementSpec
CONSTANTS
    MaxProducers = 9
    MaxEvaluators = 6
    MaxNodes = 4
    CPU_SETSIZE = 8
INVARIANTS ProducersArePartitioned SlotsAreOrdered CheckpointsAreLocal MemoryIsAtHome
CHECK_DEADLOCK FALSE
