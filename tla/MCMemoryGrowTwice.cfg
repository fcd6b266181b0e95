SPECIFICATION FairSpec
CONSTANTS
    Fibers = {f1}
    Generations = 4
    AddrGens = 2
    PageEntries = 2
    SparePages = {0}
    Globals <- NoGlobals
    HeapSizes = {}
    StaticSizes = {2}
    LocalSize = 2
    LocalCounts = {2}
    SplitOffsets = {}
    SplitSources = {}
    InOrder = FALSE
    PoisonSources = {}
    CollectFibers = FALSE
    MaxEntries = 4
    MaxEpoch = 1
    MaxDepth = 1
CHECK_DEADLOCK FALSE
PROPERTY CallCompletes
