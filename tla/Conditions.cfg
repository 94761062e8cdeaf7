SPECIFICATION CondSpec
CONSTANTS
    Digits <- MCDigits
    Letters <- MCLetters
    Texts <- MCTexts
    Ints <- MCInts
    Dates <- MCDates
    Decimals <- MCDecimals
    Byte = 2
    Group = 2
    Fraction = 2
\* The evaluation of a condition ends.
CHECK_DEADLOCK FALSE
INVARIANTS
    ComparesValues
    BetweenBounds
    InElements
