SPECIFICATION Spec
CONSTANTS
    LoginOptions <- AllLoginOptions
    MaxPrompts = 4
    MaxChanges = 2
INVARIANTS
    NeverBlocks
    SuccessMeansAccepted
    RefusalsAreHeeded
PROPERTIES
    Termination
    NoFreeCircle
CHECK_DEADLOCK FALSE
