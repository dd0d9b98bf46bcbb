SPECIFICATION Spec
CONSTANTS
    Procs <- ViewProcs
    Self <- MCSelf
    CpuPcts = {0, 1}
    Keys <- ViewKeySet
    Heights = {11, 12}
    Filters <- NoFilter
    SortArgs = {0}
    FILTER_CAP = 2
    SNAP_MAX_PROCS = 3
    Hosts = {"Linux"}
    Signals = {}
INVARIANTS TypeOK SelectedVisible LabelMatchesOrder
PROPERTIES SelectionSticky
