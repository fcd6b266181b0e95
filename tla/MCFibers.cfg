SPECIFICATION FairSpec
CONSTANTS
    Programs <- MCPrograms
    MaxFibers = 3
CHECK_DEADLOCK FALSE
INVARIANTS TypeOK RunningFibersAreOnStack NoFault ParentsFormChain
PROPERTIES LifeGoesForward HostGetsControlBack
