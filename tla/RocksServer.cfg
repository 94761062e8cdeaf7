SPECIFICATION Spec
CONSTANTS
    c1 = c1
    c2 = c2
    c3 = c3
    c4 = c4
    Clients <- MCClients
    Wants <- MCWants
    MessageSize = 2
    MaxFds = 3
    MaxRuns = 2
INVARIANTS
    AnsweredIsStored
    OpenFailsOnlyAfterRead
CHECK_DEADLOCK FALSE
