CONSTANTS
    MaxLedger = 3
    MaxTx = 3
    MaxReloads = 1
    MaxErrors = 1
SPECIFICATION Spec
INVARIANTS
    RetryIsSafe
CHECK_DEADLOCK FALSE
