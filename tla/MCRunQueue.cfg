SPECIFICATION FairSpec
CONSTANTS
    t1 = t1
    t2 = t2
    t3 = t3
    p1 = p1
    p2 = p2
    NULL = NULL
    Tasks <- MCTasks
    Producers <- MCProducers
INVARIANTS
    LinksIntact
    OnePlace
    NoLostWakeup
PROPERTIES
    ImplementsBatchQueue
    QueuedIsRun
