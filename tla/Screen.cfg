SPECIFICATION Spec
CONSTANTS
    Windows <- MCWindows
    Lists <- MCLists
    Texts <- MCTexts
    FilterLens = {47}
    Wraps = {"late", "early"}
    HostLen = 30
    HostShort = 51
    HostFull = 72
INVARIANTS TypeOK NothingStale QuestionVisible SelectedOnGlass
