SPECIFICATION Spec
CONSTANTS
    BitsPerByte = 2
    MaxByte = 3
    MaxLevel = 3
    PeriodTable <- MCPeriodTable
    AddrSpace = 8
    RomBase = 4
    SampleBase = 6
    AddrUnit = 1
    LenUnit = 2
    RegVals = {0, 1}
    LevelVals = {0, 3}
    Rom <- MCRom
    DmaTicks = 3
    NoByte = NoByte
INVARIANTS
    RequestExact
    StallBounded
PROPERTIES
    ImplementsReader
    ReaderProgress
    PlaybackSettles
    IrqExactlyAtEnd
