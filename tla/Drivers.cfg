SPECIFICATION FairSpec
CONSTANTS
    Kinds = {"uarte", "spim", "saadc", "qspi", "channel", "port", "exti", "can", "serial"}
    Above = {"port"}
INVARIANTS
    NoLostInterrupt
    CompletedByOwnEvent
    NoTransferIsLeft
    PanicsOnlyWhenCancelled
PROPERTIES
    OperationEnds
    DropEnds
CHECK_DEADLOCK FALSE
