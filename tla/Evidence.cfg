SPECIFICATION EvidenceSpec
CONSTANTS
    NumOutputs = 2
    MaxStorageFaults = 2
    NumRuns = 3
    MaxVersions = 1
    MaxCallFaults = 2
    Callers = {a, b}
    NumChunks = 3
    NumValues = 2
    MaxWrites = 2
    NumRows = 4
    NumTimes = 2
    PageLimit = 2
CHECK_DEADLOCK FALSE
INVARIANTS
    ReferenceIsReadable
    CompleteIsWhole
    NotebookShowsResult
    FilesAreRegistered
    ReportIsAppendedOnce
    DownloadIsAsAnnounced
    PagesMissNothing
    BundleAgrees
