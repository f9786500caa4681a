SPECIFICATION Spec
CONSTANTS
    Nibble = 4
    Preamble = 13
    Frames <- MCFrames
    NoiseBytes <- MCNoiseBytes
    Foreign = {2}
    ForeignFrames <- MCForeignFrames
    MaxForeign = 1
    MaxNoise = 1
    MaxCuts = 1
INVARIANTS
    TypeOK
    ValidIsAFrame
PROPERTIES
    WholeFrameCounts
    FindsItsWayBack
