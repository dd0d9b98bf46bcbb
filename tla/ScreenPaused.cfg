SPECIFICATION Spec
CONSTANTS
    Windows <- UsualWindow
    Lists <- LongLists
    Texts <- ShortRows
    FilterLens = {0}
    Wraps = {"late"}
    HostLen = 30
    HostShort = 51
    HostFull = 72
INVARIANT PausedShown
