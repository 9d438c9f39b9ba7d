SPECIFICATION Spec
CONSTANTS
    TableKeys <- MCTableKeys
    Capacity = 3
    MaxSequence = 4
    IndexKeys <- MCIndexKeys
    Owners = {0, 1}
    MaxUpdates = 3
INVARIANTS
    NoFalseMiss
    FilterCoversChain
    DirectoryNamesLatest
    IndexIsMap
PROPERTIES
    ImplementsBoundedTables
