SPECIFICATION FairSpec
CONSTANTS
    Tasks = {t1}
    Executors = {e1, e2}
    Contexts = {c1}
    Alarmed = {e1, e2}
    MaxTime = 1
    NULL = NULL
PROPERTIES
    TimerIsServed
