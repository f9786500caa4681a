SPECIFICATION Spec
CONSTANTS
    UartBodies <- MCUartBodies
    WifiBodies <- MCWifiBodies
    Empty = ""
    Mask = "*"
    ZeroIp = "0.0.0.0"
    BadIp = "bad"
    BuiltIn <- MCBuiltIn
    Factory = "CHANGEME"
    MaxPosts = 4
INVARIANTS
    TypeOK
    SavedSurvives
    RunsOnStored
    MaskNotStored
