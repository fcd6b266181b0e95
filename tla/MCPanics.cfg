SPECIFICATION Spec
CONSTANTS
    VMs = {v1, v2}
    Messages = {"text", "step limit"}
    StepLimits = {0, 1, 3}
    MaxFrames = 4
CHECK_DEADLOCK FALSE
INVARIANTS PanicsReachWhoWaits StepsWithinLimit
