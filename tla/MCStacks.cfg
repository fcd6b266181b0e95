SPECIFICATION FairSpec
CONSTANTS
    Fibers = {f1, f2}
    MaxPage = 5
    PageSize = 5
    ChunkHeader = 1
    FiberSize = 2
    TrampolineAt = 1
    FrameSizes = {1, 4, 5}
    Needs = {0, 1}
    ValuesPerPage = 2
    Reserved = 1
    InitialChunks = 1
    InitialValues = 1
    MaxChunks = 2
    MaxValues = 4
    MaxDepth = 2
CHECK_DEADLOCK FALSE
INVARIANTS NoPageTwice NoPageLost HeldIsOwned FramesInChunks ValuesFit
PROPERTY CallCompletes
