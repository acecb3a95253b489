SPECIFICATION SaveSpec
CONSTANTS
    BitsPerByte = 1
    MaxByte = 1
    MaxLevel = 1
    PeriodTable <- MCPeriodTable
    AddrSpace = 4
    RomBase = 2
    SampleBase = 2
    AddrUnit = 0
    LenUnit = 1
    RegVals = {1}
    LevelVals = {}
    Rom <- MCRom
    DmaTicks = 1
    NoByte = NoByte
    NoState = NoState
INVARIANTS
    NoRequestLost
