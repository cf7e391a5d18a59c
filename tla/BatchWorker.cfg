SPECIFICATION FairSpec
CONSTANTS
    w1 = w1
    w2 = w2
    Workers <- TwoWorkers
    NumInputs = 3
    NumPostActions = 1
    BatchOptions <- AllOptions
    Replies <- AllReplies
    InputErrors <- InputErrorSet
    RequestErrors <- RequestErrorSet
INVARIANTS
    TypeOK
    NoUnconfirmedRequest
    PanicOnlyAfterAbort
    NothingLost
    SuccessIsEarned
    PromptsDoNotOverlap
    NoDeadlock
PROPERTIES
    ImplementsBatch
    Termination
    EveryStepIsForward
CHECK_DEADLOCK FALSE
