SPECIFICATION Spec
CONSTANTS
    Commands <- AllCommands
    Actions = {"CREATE", "UPDATE", "DELETE"}
    Unnamed = ""
    MaxRecorded = 3
INVARIANTS
    WantedAreHandedOver
    CountIsKept
PROPERTY
    SubscriptionEnds
