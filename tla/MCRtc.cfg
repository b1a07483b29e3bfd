SPECIFICATION Spec
CONSTANTS
    Half = 12
    AlarmCount = 1
    Latency = 1
    ReadTime = 1
    MaxPeriod = 2
INVARIANTS
    PeriodInStep
    NowIsExact
    ArmedInTime
PROPERTIES
    MatchIsDue
CHECK_DEADLOCK FALSE
