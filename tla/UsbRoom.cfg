SPECIFICATION Spec
CONSTANTS
    RxSize = 4
    TxSize = 4
    MaxPacket = 2
    SHORT_PACKET_INTERVAL = 1
    MaxRx = 7
    MaxTx = 8
INVARIANTS
    ReadPacketHasRoom
CHECK_DEADLOCK FALSE
