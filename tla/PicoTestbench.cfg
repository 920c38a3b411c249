SPECIFICATION Spec
CONSTANTS
    MemWords = 1
    NLanes = 2
    Byte <- MCByte
    Addr <- MCAddr
    ReqCap = 1
    RspCap = 1
    Firmware <- MCFirmware
    LoadAddr <- MCLoadAddr
    StoreAddr <- MCStoreAddr
    StoreData <- MCStoreData
    IrqPeriod = 2
    IrqWrap = 4
INVARIANTS
    OneBeatPerTransfer
    BoundedWait
    IrqOnSchedule
PROPERTIES
    ImplementsNative
