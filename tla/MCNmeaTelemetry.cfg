SPECIFICATION MCSpec
CONSTANTS
    N = 2
    Wrap = 16
    StaleMs = 1
    MaxSats = 3
    Epochs <- MCEpochs
    MaxTime = 4
    Sentences <- MCSentences
    Day = 2
    MaxUtc = 4
INVARIANTS
    TypeOK
    ListSound
    CommittedIsWhole
    FixCoheres
CHECK_DEADLOCK FALSE
