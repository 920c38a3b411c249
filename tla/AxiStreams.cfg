SPECIFICATION FairSpec
CONSTANTS
    MemWords = 1
    NLanes = 2
    Byte <- MCByte
    Addr <- MCAddrOne
    ReqCap = 1
    RspCap = 1
    Firmware <- MCFirmware
    Payload <- MCPayload
    MaxReads = 3
    MaxWrites = 3
INVARIANTS
    Streams
    ReadAfterAck
PROPERTIES
    BothAreAnswered
