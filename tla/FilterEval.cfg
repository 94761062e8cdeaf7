SPECIFICATION Spec
CONSTANTS
    Filters <- MCFilters
    RowNum = 2
\* The walk is over when all rows have been walked.
CHECK_DEADLOCK FALSE
INVARIANTS
    SavedRowsSatisfy
    SatisfyingRowsSaved
    SavedInOrder
