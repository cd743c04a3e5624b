CONSTANTS
    PRICE_SCALE = 3
    U64 = 8
    FIELD = 97
    Prices <- MCPrices
    Sizes <- MCSizes
    NoOrder = NoOrder
SPECIFICATION Spec
INVARIANTS
    TypeOK
    EscrowCovers
    BuyerLimit
PROPERTIES
    SellerLimit
    SingleStepExact
CHECK_DEADLOCK FALSE
