SPECIFICATION LikeSpec
CONSTANTS
    Characters <- MCCharacters
    Values <- MCValues
    Patterns <- MCPatterns
\* The matcher returns.
CHECK_DEADLOCK FALSE
INVARIANTS
    NoFalseMatch
    OnePieceExact
    ThrowsOnlyForLongPiece
PROPERTY
    Terminates
