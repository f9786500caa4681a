SPECIFICATION MCSpec
CONSTANTS
    Enabled = {"ble", "tcp"}
    BleSize = 2
    TcpSize = 3
    BleSum = 5
    Capacity <- MCCapacity
    UartChunk = 2
    NotifyChunk = 1
    MaxRead = 5
    MaxLinks = 3
INVARIANTS
    TypeOK
    StreamOrder
    TcpLiveUnbroken
