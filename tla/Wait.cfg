SPECIFICATION Spec
CONSTANTS
    Items = 2
    Commands <- AllCommands
    MaxAttempts = 2
    MaxInterrupts = 1
    MaxCount = 1
INVARIANTS
    StraysAreHarmless
    HonestSuccess
    AllRetriesMade
    NoSilentFailure
    FailuresBounded
PROPERTIES
    WaitsEnd
CHECK_DEADLOCK FALSE
