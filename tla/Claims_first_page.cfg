SPECIFICATION Spec
CONSTANTS
    InitialItems = 5
    MaxItems = 6
    MaxPages = 8
    ServerPageSize = 2
    PagingOptions <- IncludeAllOnly
INVARIANT
    ZeroMeansNoError
CHECK_DEADLOCK FALSE
