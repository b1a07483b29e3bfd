SPECIFICATION PartsFairSpec
CONSTANTS
    RxSize = 4
    TxSize = 4
    MaxPacket = 2
    SHORT_PACKET_INTERVAL = 1
    MaxRx = 7
    MaxTx = 8
    Threads = {p, q}
    StdMaxTime = 2
    Waiters = {a, b}
    NoOne = NoOne
    MaxLen = 5
    MaxCap = 2
INVARIANTS
    ReadInOrder
    WrittenInOrder
    SleepersWait
    NoWaiterIsForgotten
    PortalFrameLives
    AdapterKeepsBytes
    NothingIsSleptThrough
PROPERTIES
    HostSeesAll
    StdServes
CHECK_DEADLOCK FALSE
