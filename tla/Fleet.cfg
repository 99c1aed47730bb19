SPECIFICATION Spec
CONSTANTS
    Targets = {t, u}
    Names = {n, o}
    Endpoints = {e, f}
    Batch = batch
    Gpu = gpu
    Pools <- MCPools
    PoolOf <- MCPoolOf
    Capacities = {1}
    Retried = x
    Other = y
    Executions <- MCExecutions
    Keys = {k1, k2}
    Probers = {m}
    MaxAttempts <- MCMaxAttempts
    MaxFaults = 1
    Observed <- MCObserved
    None = None
SYMMETRY Symmetry
CHECK_DEADLOCK FALSE
INVARIANTS
    PurgedLeavesNoKernel
PROPERTIES
    SlotsAreRespected
