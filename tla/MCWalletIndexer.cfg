CONSTANTS
    MaxLedger = 3
    MaxTx = 3
    MaxReloads = 1
    MaxErrors = 1
SPECIFICATION Spec
INVARIANTS
    TypeOK
    TreeIsPrefix
    NoGap
    Recovered
    StoreBacked
    IndexTrue
    MatchedNotOpen
PROPERTIES
    Discovered
CHECK_DEADLOCK FALSE
