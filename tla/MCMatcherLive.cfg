CONSTANTS
    PRICE_SCALE = 2
    U64 = 8
    FIELD = 97
    Owners <- MCOwners
    Offers <- MCLiveOffers
    MaxFaults = 2
SPECIFICATION Spec
PROPERTIES
    PassEnds
    BestPairProgress
CHECK_DEADLOCK FALSE
