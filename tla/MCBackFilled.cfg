CONSTANTS
    MaxLedger = 3
    MaxTx = 3
    MaxReloads = 1
    MaxErrors = 1
SPECIFICATION Spec
PROPERTIES
    BackFilled
CHECK_DEADLOCK FALSE
