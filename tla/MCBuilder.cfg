SPECIFICATION Spec
CONSTANTS
    ImmBits = 3
    LastBits = 2
    AllocBits = 3
    GenBits = 1
    IndexBits = 2
    CountBits = 2
    Narrow = {4}
    HeaderSize = 4
    Globals <- MCGlobals
    Functions <- MCFunctions
    Scripts <- MCScripts
    SizeLimit = 64
INVARIANTS CodeMeansWhatWasBuilt VStackTellsTruth VStackIsEnough EstimateIsEnough DebugLocationsFound
