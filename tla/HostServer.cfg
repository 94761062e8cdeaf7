SPECIFICATION HostSpec
CONSTANTS
    t1 = t1
    t2 = t2
    t3 = t3
    Tables <- MCTables
    Known <- MCKnown
    Storage <- MCStorage
    None = None
    Sector = 2
    IntHalf = 16
    MaxRequests = 2
    MaxStarts = 2
INVARIANTS
    PiecesLocateBytes
    PiecesAddUp
    RepliesNameWorks
CHECK_DEADLOCK FALSE
