CONSTANTS
    MaxBlock = 4
    NoRoot = NoRoot
    SLOTS_PER_PERIOD = 4
    COMMITTEE_SIZE = 3
    SeedPeriod = 0
    Unset = Unset
    MAX_EPOCH_GAP = 1
    Commitments = {c1}
    Tokens = {1}
    LockAmounts = {1, 2, 3}
    TOKEN_SPACE = 2
    UINT96 = 2
    MaxHandlers = 1
SPECIFICATION Spec
PROPERTY
    OutFeedUnlocks
CHECK_DEADLOCK FALSE
