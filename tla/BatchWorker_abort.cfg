SPECIFICATION Spec
CONSTANTS
    w1 = w1
    w2 = w2
    Workers <- TwoWorkers
    NumInputs = 5
    NumPostActions = 0
    BatchOptions <- AbortOptions
    Replies <- AllReplies
    InputErrors <- InputErrorSet
    RequestErrors <- RequestErrorSet
INVARIANTS
    AbortBoundsFailures
SYMMETRY Symmetry
CHECK_DEADLOCK FALSE
