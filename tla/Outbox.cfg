SPECIFICATION Spec
CONSTANTS
    Executions = {a}
    Publishers = {p, q}
    BatchSize = 2
    MaxEvents = 3
    MaxFaults = 2
CHECK_DEADLOCK FALSE
INVARIANTS
    NothingIsForgotten
PROPERTIES
    ImplementsEventStream
