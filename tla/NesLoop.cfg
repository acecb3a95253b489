SPECIFICATION Spec
CONSTANTS
    LastCycle = 7
    VblankLine = 1
    LastLine = 4
    MaxAccesses = 2
    MaxCycles = 2
    EntryCycles = 2
    OamBytes = 1
    StealCycles = 1
    MaxSteals = 1
INVARIANTS
    NoFrameLost
PROPERTIES
    FramesRecur
    IrqServed
    OneHandlerPerFrame
    HandlerInVblank
    IrqWaitsForHandler
