CONSTANTS
    CAPACITY = 5
    CLMM = CLMM
    Callers = {CLMM}
    Unset = Unset
    Assets = {xlm, usdc}
    Owners = {alice, bob}
    SpendingKeys = {key_1, key_2}
    MAX_U128 = 3
    MIN_TICK = 0
    MAX_TICK = 2
    MAX_TICK_SPACING = 2
    Ticks = {0, 2}
    Spacings = {0, 2, 4}
    Liquidity = {2}
    Payments = {0, 1}
    MaxPools = 2
    MaxOperations = 3
    MaxTokens = 1
SYMMETRY Interchangeable
SPECIFICATION Spec
INVARIANTS
    TypeOK
    Serial
    LiquidityBacked
CHECK_DEADLOCK FALSE
