SPECIFICATION Spec
CONSTANTS
    Threads = {t1, t2, t3}
    One = {t3}
    Two = {t1, t2}
    Main = main
    Submodules = {a, b}
    Processes = {p1, p2}
    Names = {f, g}
    Data = {d, e}
    DataSize <- MCDataSize
    Bounds <- MCBounds
SYMMETRY Symmetry
CHECK_DEADLOCK FALSE
INVARIANTS LiteralsHoldTheirData OneCopyPerThread GlobalsAreReached
PROPERTIES DefinitionsStay NamesAreResolved
