SPECIFICATION Spec
CONSTANTS
    MemWords = 1
    NLanes = 2
    Byte <- MCByte
    Addr <- MCAddrAll
    ReqCap = 1
    RspCap = 1
    Firmware <- MCFirmware
    Payload <- MCPayload
    MaxReads = 1
    MaxWrites = 2
INVARIANTS
    TypeOK
    ActsAsReplay
    ExitIsLast
PROPERTIES
    ImplementsSlave
