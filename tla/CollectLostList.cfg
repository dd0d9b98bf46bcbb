SPECIFICATION Spec
CONSTANTS
    Procs <- MCProcs
    Hosts = {"Linux"}
    SNAP_MAX_PROCS = 1
    ListFails = TRUE
    MaxClock = 3
    UINT64_SPAN = 1024
INVARIANT NoImpossibleRate
