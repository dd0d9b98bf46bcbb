SPECIFICATION Spec
CONSTANTS
    Windows <- NarrowWindow
    Lists <- LongLists
    Texts <- ShortRows
    FilterLens = {0}
    Wraps = {"late"}
    HostLen = 30
    HostShort = 51
    HostFull = 72
INVARIANT SelectedKept
