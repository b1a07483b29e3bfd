SPECIFICATION FairSpec
CONSTANTS
    RxSize = 3
    TxSize = 2
    MaxRx = 7
    MaxTx = 5
    EarlyBaudrate = FALSE
INVARIANTS
    RxInOrder
    SliceUntouched
    DropStopsDma
PROPERTIES
    TxInOrder
    SleepersAreWoken
    ReceptionResumes
CHECK_DEADLOCK FALSE
