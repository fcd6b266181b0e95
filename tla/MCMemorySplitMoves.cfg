SPECIFICATION Spec
CONSTANTS
    Fibers = {f1}
    Generations = 4
    AddrGens = 2
    PageEntries = 2
    SparePages = {0}
    Globals <- NoGlobals
    HeapSizes = {3}
    StaticSizes = {2}
    LocalSize = 2
    LocalCounts = {1}
    SplitOffsets = {1}
    SplitSources = {"heap"}
    InOrder = TRUE
    PoisonSources = {}
    CollectFibers = FALSE
    MaxEntries = 4
    MaxEpoch = 1
    MaxDepth = 1
CHECK_DEADLOCK FALSE
INVARIANT PiecesTileBlock
