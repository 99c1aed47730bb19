SPECIFICATION ProgressSpec
CONSTANTS
    w1 = w1
    w2 = w2
    c1 = c1
    Workers = {w1, w2}
    Cleaners = {c1}
    NoWorker = NoWorker
    AutoRestart = TRUE
    NumSteps = 1
    MaxRetries = 1
    MaxOperations = 1
    MaxFaults = 1
CHECK_DEADLOCK FALSE
PROPERTIES
    RunEnds
    HandoverIsTaken
    CancellationEnds
