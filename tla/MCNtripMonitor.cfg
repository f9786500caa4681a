SPECIFICATION Spec
CONSTANTS
    Ids = {1, 2}
    Refused = {2}
    MaxTries = 1
    MaxBlips = 1
    MaxPosts = 1
    MaxReboots = 1
INVARIANTS
    TypeOK
PROPERTIES
    LockoutEnds
    NvsSettles
    KeepsStreaming
