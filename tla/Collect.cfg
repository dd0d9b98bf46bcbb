SPECIFICATION Spec
CONSTANTS
    Procs <- MCProcs
    Hosts = {"Linux", "macOS", "Windows"}
    SNAP_MAX_PROCS = 1
    ListFails = TRUE
    MaxClock = 3
    UINT64_SPAN = 1024
INVARIANTS TypeOK PrimedMeansRates TruncatedHonest
PROPERTIES OwnRates HeadlineSound
