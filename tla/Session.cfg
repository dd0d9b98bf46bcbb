SPECIFICATION Spec
CONSTANTS
    Hosts = {"Linux", "Windows"}
    Argvs <- SessionArgvs
    FILTER_CAP = 2
    NaN = NaN
    Presses <- SessionPresses
    MaxPresses = 2
    Links = {"whole", "split", "slow"}
    Typists = {"patient", "ahead"}
INVARIANTS TypeOK SpecialKeysSurvive Paced
PROPERTIES KeysAsTyped KeysRead Refreshes
CHECK_DEADLOCK FALSE
