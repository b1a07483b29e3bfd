SPECIFICATION Spec
CONSTANTS
    RxSize = 2
    TxSize = 2
    MaxRx = 2
    MaxTx = 2
    EarlyBaudrate = TRUE
INVARIANTS
    TakenWhenSetUp
CHECK_DEADLOCK FALSE
