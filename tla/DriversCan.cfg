SPECIFICATION Spec
CONSTANTS
    Kinds = {"can"}
    Above = {}
INVARIANTS
    TransmitIsInfallible
CHECK_DEADLOCK FALSE
