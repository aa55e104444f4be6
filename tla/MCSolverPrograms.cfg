SPECIFICATION Spec
CONSTANTS
    MaxWidth = 6
    Pow2 <- PowersOfTwo
    W = 4
    ByteBits = 2
    InputBytes = 5
    Offsets <- KeyBytes
    Entries <- FourEntries
    MissValue = 255
    InputNumber <- NumberOf
CHECK_DEADLOCK FALSE
INVARIANTS
    QuestionsAreAskedAlone
    CounterexampleOverflows
    ReportsAreLookups
    PrintedPacketsAreWellFormed
PROPERTIES
    BothVerdictsComeOut
    EveryPathReported
    EveryPacketIsFound
