SPECIFICATION Spec
CONSTANTS
    Hosts = {"Linux", "macOS"}
    Argvs <- MCArgvs
    FILTER_CAP = 3
    NaN = NaN
INVARIANTS TypeOK OptionsAsGiven LaunchOnce OncePrints
PROPERTY Settles
CHECK_DEADLOCK FALSE
