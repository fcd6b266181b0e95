SPECIFICATION Spec
CONSTANTS
    Programs <- MCStalePrograms
    MaxFibers = 4
CHECK_DEADLOCK FALSE
INVARIANT ExitResumesSuspended
