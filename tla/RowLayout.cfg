SPECIFICATION Spec
CONSTANTS
    Tables <- MCTables
    RowNum = 3
    VarLens = {0, 5, 130}
    Signed = {TRUE, FALSE}
\* The block has been filtered when its rows have been.
CHECK_DEADLOCK FALSE
INVARIANTS
    ColumnsLocated
    WholeRowSaved
    OffsetsAreRunningSums
