\* Bulk reads may end within a packet; all status bytes are right.
CONSTANTS
    Values <- StatusLike
    MaxLen = 5
    MaxPacket = 4
    MaxRead = 8
    Retries = 2
    Modems <- GoodModem
    Lines <- GoodLine
    Splits = TRUE
SPECIFICATION FramingSpec
INVARIANT
    SplitStatusAccepted
CHECK_DEADLOCK FALSE
