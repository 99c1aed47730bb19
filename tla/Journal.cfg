SPECIFICATION FairSpec
CONSTANTS
    MaxFences = 2
    NumOutputs = 1
    MaxFaults = 2
CHECK_DEADLOCK FALSE
INVARIANTS
    UndecidedIsSentOnce
    NothingIsLost
    SuccessIsOneWholeRun
PROPERTIES
    StepIsDecided
