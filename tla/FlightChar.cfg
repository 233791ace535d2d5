SPECIFICATION FlightSpec
CONSTANTS
    Ulogs <- MCUlogs
    Digits <- MCDigits
    U8 <- MCU8
    Anchor = 1000
    Second = 1
    HalfBits = 4
    WordBits = 17
    NaN = NaN
    JsonName <- MCJsonName
INVARIANT EveryFieldIsPulledBack
CHECK_DEADLOCK FALSE
