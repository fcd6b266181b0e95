SPECIFICATION Spec
CONSTANTS
    Fibers = {f1, f2}
    Generations = 4
    AddrGens = 2
    PageEntries = 2
    SparePages = {0}
    Globals <- NoGlobals
    HeapSizes = {2}
    StaticSizes = {2}
    LocalSize = 2
    LocalCounts = {1}
    SplitOffsets = {}
    SplitSources = {}
    InOrder = FALSE
    PoisonSources = {}
    CollectFibers = TRUE
    MaxEntries = 4
    MaxEpoch = 1
    MaxDepth = 2
CHECK_DEADLOCK FALSE
INVARIANTS LocalsInPlace HandlesMatchFibers NoAssertionFails
PROPERTY LiveEntriesStay
