SPECIFICATION ApuSpec
CONSTANTS
    Step1 = 6
    Step2 = 11
    Step3 = 16
    IrqStart = 21
    Step5 = 28
    Lengths = {2, 4}
    Volumes = {0, 1, 5}
    LowBytes = {8, 255}
    HighBits = {0, 3}
    Shifts = {0, 1}
    SweepPeriods = {1}
    LinearLoads = {0, 2}
    Rates = {0, 36, 37, 63}
INVARIANTS
    LastWriteWins
    FiveStepClocks
    DisabledMeansSilent
    UnitsKeepTheirLaws
PROPERTIES
    InterruptsRecur
    NotesEnd
    SweepMutesForGood
