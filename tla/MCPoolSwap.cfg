CONSTANTS
    PRICE_SCALE = 2
    U64 = 4
    FIELD = 23
    Owners = {alice}
    Assets <- MCAssets
    Blindings = {r1}
    Nonces = {n1}
    Deposits = {3}
    Pairs <- MCPairs
    Prices = {2, 3}
    Sizes = {2, 3}
    Admins = {admin1}
    Bridges = {}
    Unset = Unset
    MAX_LEAVES = 7
    ROOT_HISTORY = 2
SPECIFICATION SwapSpec
INVARIANTS
    Solvency
    OrdersRefundable
    LeavesSpendable
PROPERTIES
    ImplementsLedger
CHECK_DEADLOCK FALSE
