SPECIFICATION FairSpec
CONSTANTS
    CodeWords = 2
    PROGADDR_RESET = 0
    PROGADDR_IRQ = 2
    IrqLine <- MCIrqLine
    Firmware <- MCFirmware
    MaxShift = 1
    MaxTimer = 2
    MaxTimeout = 15
INVARIANTS
    InProgramOrder
    Asserts
    KeepsInstruction
    ReturnAddress
    UnitsAnswerInTime
PROPERTIES
    NoIrqLost
    ProgressBetweenIrqs
    ImplementsPort
    LaunchesForever
