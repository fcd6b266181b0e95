SPECIFICATION Spec
CONSTANTS
    Fibers = {f1}
    Generations = 4
    AddrGens = 2
    PageEntries = 4
    SparePages = {0}
    Globals <- NoGlobals
    HeapSizes = {3}
    StaticSizes = {}
    LocalSize = 2
    LocalCounts = {1, 2}
    SplitOffsets = {0, 1}
    SplitSources = {"local", "heap"}
    InOrder = TRUE
    PoisonSources = {"heap"}
    CollectFibers = FALSE
    MaxEntries = 4
    MaxEpoch = 1
    MaxDepth = 1
CHECK_DEADLOCK FALSE
INVARIANTS PiecesTileBlock FreedExactlyOnce NoDanglingEntry
