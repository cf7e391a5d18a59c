SPECIFICATION Spec
CONSTANTS
    InitialItems = 5
    MaxItems = 6
    MaxPages = 8
    ServerPageSize = 2
    PagingOptions <- Options
INVARIANTS
    NoDuplicates
    NothingSkipped
    PagesBounded
    LaterFailureReported
PROPERTIES
    Termination
    ImplementsListing
CHECK_DEADLOCK FALSE
