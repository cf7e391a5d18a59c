SPECIFICATION Spec
CONSTANTS
    Items = 1
    Commands <- BothLimits
    MaxAttempts = 2
    MaxInterrupts = 0
    MaxCount = 3
INVARIANT HonestSuccess
CHECK_DEADLOCK FALSE
