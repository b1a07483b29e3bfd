SPECIFICATION FairSpecB
CONSTANTS
    Tasks = {t1, t2}
    Executors = {e1}
    Contexts = {c1}
    Alarmed = {e1}
    MaxTime = 1
    MaxBypass = 3
    Victim = t1
    NULL = NULL
INVARIANTS
    RunQueuedOnce
    FutureSafety
    NoLostWakeup
    TimerQueuedOnce
    NoOversleep
    BypassedAtMostTwice
PROPERTIES
    WokenIsServed
    TimerIsServed
    FinishedIsFreed
