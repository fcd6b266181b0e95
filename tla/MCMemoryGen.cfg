SPECIFICATION FairSpec
CONSTANTS
    Fibers = {f1}
    Generations = 4
    AddrGens = 2
    PageEntries = 2
    SparePages = {0}
    Globals <- OneUndefined
    HeapSizes = {2}
    StaticSizes = {}
    LocalSize = 2
    LocalCounts = {1}
    SplitOffsets = {}
    SplitSources = {}
    InOrder = FALSE
    PoisonSources = {}
    CollectFibers = FALSE
    MaxEntries = 3
    MaxEpoch = 4
    MaxDepth = 1
CHECK_DEADLOCK FALSE
INVARIANTS TypeOK StaleAddressesStayDead
PROPERTY CallCompletes
