SPECIFICATION MCSpec
CONSTANTS
    Posts <- MCPosts
    RefusedTunings <- MCRefusedTunings
    MaxPosts = 1
    MaxFaults = 1
INVARIANTS
    TypeOK
    LockoutIsEarned
    WholeUnlessMet
PROPERTIES
    SettlesOnStored
