CONSTANTS
    PRICE_SCALE = 2
    U64 = 8
    FIELD = 97
    Owners <- MCOwners
    Offers <- MCOffers
    MaxFaults = 1
SPECIFICATION Spec
INVARIANTS
    TypeOK
    EngineMirrorsCircuit
    SettlementDelivers
    ClaimsExclusive
PROPERTIES
    PriceTimePriority
CHECK_DEADLOCK FALSE
