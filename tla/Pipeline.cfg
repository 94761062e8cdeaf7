SPECIFICATION Spec
CONSTANTS
    b1 = b1
    b2 = b2
    f1 = f1
    f2 = f2
    Requests <- MCRequests
    Filters <- MCFilters
    Idle = Idle
INVARIANTS
    BlocksAccounted
    OvertakingBounded
PROPERTY
    ImplementsService
CHECK_DEADLOCK FALSE
