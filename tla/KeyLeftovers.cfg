SPECIFICATION Spec
CONSTANTS
    Hosts = {"Linux"}
    Argvs <- PlainArgvs
    FILTER_CAP = 2
    NaN = NaN
    Presses <- ArrowPresses
    MaxPresses = 3
    Links = {"whole"}
    Typists = {"ahead"}
INVARIANT LeftoversIgnored
CHECK_DEADLOCK FALSE
