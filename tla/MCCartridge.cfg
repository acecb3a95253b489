\* The bounded writes to bank registers come to an end.
CHECK_DEADLOCK FALSE
SPECIFICATION Spec
CONSTANTS
    MaxLatch = 4
    MaxCount = 3
    LinePeriod = 8
    DotsPerCycle = 3
    Bytes = 6
    Visible = 3
    Blank = 3
    LineCycles = 3
    IdleCycles = 4
    CounterMax = 5
    RomSizes <- MCRomSizes
    Values = {70, 255}
    ChrIndexes = {0, 6}
    MaxWrites = 3
    MaxBits = 10
    MaxSavedWrites = 2
INVARIANTS
    InsideRom
PROPERTIES
    ImplementsTimer
    OneInterruptPerFrame
    FiveBitsMakeARegister
    LoadShowsSaved
    InterruptsRecur
