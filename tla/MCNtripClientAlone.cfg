SPECIFICATION Spec
CONSTANTS
    MaxTries = 2
    Required = 2
    Calls = {"start"}
PROPERTIES
    LifecycleSpec
    OutageEnds
    SilenceIsNoticed
