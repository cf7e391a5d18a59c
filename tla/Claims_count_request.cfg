SPECIFICATION Spec
CONSTANTS
    Items = 1
    Commands <- OneCount
    MaxAttempts = 2
    MaxInterrupts = 0
    MaxCount = 1
PROPERTY CommandEnds
CHECK_DEADLOCK FALSE
