SPECIFICATION Spec
CONSTANTS
    MaxTries = 2
    Required = 2
    Calls = {"start", "stop", "reset", "reconnect", "stopTask"}
INVARIANTS
    TypeOK
    HealthyIsValidated
PROPERTIES
    RetryPaced
    StopTaskEndsTask
