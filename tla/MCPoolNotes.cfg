CONSTANTS
    PRICE_SCALE = 2
    U64 = 3
    FIELD = 13
    Owners = {alice}
    Assets = {base, quote}
    Blindings = {r1}
    Nonces = {n1}
    Deposits = {1, 2}
    Pairs = {}
    Prices = {}
    Sizes = {}
    Admins = {admin1}
    Bridges = {bridge1}
    Unset = Unset
    MAX_LEAVES = 4
    ROOT_HISTORY = 2
SPECIFICATION NotesSpec
INVARIANTS
    TypeOK
    RootWindow
    SpentWereLeaves
PROPERTIES
    ImplementsLedger
CHECK_DEADLOCK FALSE
