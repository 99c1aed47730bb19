SPECIFICATION Spec
CONSTANTS
    h1 = h1
    h2 = h2
    Calls = {h1, h2}
    Requests <- MCRequests
    Contents = {"v1", "v2"}
    Profiles = {"python", "batch"}
    Stateful = {"python"}
    NoRequest = NoRequest
    MaxStepsPerOperation = 2
    MaxStepsPerExecution = 3
    MaxExecutions = 2
    MaxVersion = 5
SYMMETRY Symmetry
INVARIANTS
    OneEffectPerKey
PROPERTIES
    RepeatGetsItsEffect
