SPECIFICATION Spec
CONSTANTS
    Enabled = {"ble", "tcp", "ntrip"}
    Capacity <- MCCapacity
    UartChunk = 2
    MaxWrite = 3
    MaxBytes <- MCMaxBytes
INVARIANTS
    TypeOK
    Conservation
    SourceStream
PROPERTIES
    LossyFifoSpec
    AcceptedIsDelivered
