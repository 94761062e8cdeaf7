SPECIFICATION Spec
CONSTANTS
    w1 = w1
    w2 = w2
    Works <- MCWorks
    Total <- MCTotal
    BlockRows <- MCBlockRows
    MAX_SIZE = 3
\* The Merge thread waits for ever once every block has been merged.
CHECK_DEADLOCK FALSE
INVARIANTS
    TypeOK
    FitsInBuffer
    OffsetsCutRows
    NoRowLost
    CompleteReport
    OnlyFirstEntryStale
    SplitBlocksEnd
