SPECIFICATION Spec
CONSTANTS
    Procs <- KillProcs
    Self <- MCSelf
    CpuPcts = {0}
    Keys <- KillKeySet
    Heights = {12}
    Filters <- NoFilter
    SortArgs = {0}
    FILTER_CAP = 2
    SNAP_MAX_PROCS = 3
    Hosts = {"Linux"}
    Signals = {"interrupt", "hangup"}
INVARIANT ClosingRestores
