SPECIFICATION StmSpec
CONSTANTS
    Half = 8
    AlarmCount = 1
    Latency = 1
    ReadTime = 1
    MaxPeriod = 3
INVARIANTS
    NowSurvivesOverflow
CHECK_DEADLOCK FALSE
