\* Bulk reads end at the end of a packet; status bytes may be wrong.
CONSTANTS
    Values <- StatusLike
    MaxLen = 5
    MaxPacket = 4
    MaxRead = 8
    Retries = 2
    Modems <- AnyModem
    Lines <- AnyLine
    Splits = FALSE
SPECIFICATION FramingSpec
INVARIANTS
    FramingTypeOK
    Stripped
    StatusChecked
    GoodChipAccepted
PROPERTY
    Streams
CHECK_DEADLOCK FALSE
