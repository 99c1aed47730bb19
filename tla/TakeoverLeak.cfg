SPECIFICATION Spec
CONSTANTS
    w1 = w1
    w2 = w2
    c1 = c1
    Workers = {w1, w2}
    Cleaners = {c1}
    NoWorker = NoWorker
    AutoRestart = FALSE
    NumSteps = 1
    MaxRetries = 0
    MaxOperations = 1
    MaxFaults = 2
SYMMETRY Symmetry
CHECK_DEADLOCK FALSE
INVARIANTS
    SessionIsAccountedFor
