SPECIFICATION Spec
CONSTANTS
    f1 = f1
    f2 = f2
    h1 = h1
    h2 = h2
    g = g
    Fibers = {f1, f2}
    Heap = {h1, h2}
    Static = {g}
    Main = f1
    Size = 2
    Words <- MCWords
    Leftovers <- MCLeftovers
    SplitOffsets = {1}
    MaxWords = 2
    MaxFlags = 1
    MaxNested = 1
SYMMETRY Alike
CHECK_DEADLOCK FALSE
INVARIANTS TypeOK MarkedReferToMarked
PROPERTIES CollectsGarbage LiveKept MarkingEnds
