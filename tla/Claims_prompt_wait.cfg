SPECIFICATION Spec
CONSTANTS
    w1 = w1
    w2 = w2
    Workers <- OneWorker
    NumInputs = 3
    NumPostActions = 0
    BatchOptions <- ConfirmOnly
    Replies <- AllReplies
    InputErrors <- InputErrorSet
    RequestErrors <- RequestErrorSet
INVARIANT
    PromptWaitHasCause
CHECK_DEADLOCK FALSE
