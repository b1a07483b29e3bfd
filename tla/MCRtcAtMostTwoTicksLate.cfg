SPECIFICATION Spec
CONSTANTS
    Half = 8
    AlarmCount = 1
    Latency = 1
    ReadTime = 1
    MaxPeriod = 2
INVARIANTS
    AtMostTwoTicksLate
CHECK_DEADLOCK FALSE
