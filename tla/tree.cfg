SPECIFICATION Spec
CONSTANTS
    TreeKeys = {1, 2, 3, 4, 5, 6, 7}
    cardinality = 4
    Loads <- MCLoads
    Ranges <- MCRanges
    MaxWrites = 2
    MaxPages = 12
INVARIANTS
    SearchIsMembership
    RangeSearchGathersMembers
    UncutSearchIsComplete
    
