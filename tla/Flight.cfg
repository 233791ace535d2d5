SPECIFICATION FlightSpec
CONSTANTS
    Ulogs <- MCUlogs
    Digits <- MCDigits
    U8 <- MCU8
    Anchor = 1000
    Second = 1
    HalfBits = 4
    WordBits = 17
    NaN = NaN
    JsonName <- MCJsonName
INVARIANTS
    TypeOK
    EveryRecordInItsTable
    RowsInOrder
    DecodedAsEncoded
    EveryCellStored
    OrderedIfStreamsAre
    RaisesForNamesOrTimes
    EveryNumberReadable
    EveryStringReadable
    ParameterChangesReadable
    TagsReadable
    FlightsTellTheLog
CHECK_DEADLOCK FALSE
