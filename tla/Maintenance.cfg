SPECIFICATION Spec
CONSTANTS
    Executions = {x}
    Workers = {v, w}
    Keys = {k}
    Runs = {r, s}
    MaxRetries = 1
    MaxFaults = 1
    None = None
CHECK_DEADLOCK FALSE
INVARIANTS
    QuietWhenDone
    SafeReportIsTrue
PROPERTIES
    RunFinishes
