SPECIFICATION Spec
CONSTANTS
    Last = 4
    MaxFds = 2
    MaxFaults = 3
INVARIANTS
    DataFollowAnswer
    LeaksAreLosses
PROPERTIES
    ImplementsDelivery
    CallsEnd
CHECK_DEADLOCK FALSE
