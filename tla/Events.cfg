SPECIFICATION EventSpec
CONSTANTS
    w1 = w1
    w2 = w2
    c1 = c1
    Workers = {w1, w2}
    Cleaners = {c1}
    NoWorker = NoWorker
    AutoRestart = TRUE
    NumSteps = 2
    MaxRetries = 1
    MaxOperations = 2
    MaxFaults = 1
SYMMETRY Symmetry
CHECK_DEADLOCK FALSE
INVARIANTS
    StepHasItsContext
    EventsFollowContract
    ConsumerKnowsState
PROPERTIES
    ImplementsContract
