\* The player may quit, and a connection that is gone leaves nothing to do.
CHECK_DEADLOCK FALSE
SPECIFICATION Spec
CONSTANTS
    Keys = {Left, A}
    HoldFrames = 3
    RepeatFrames = 1
    QueueCap = 2
    NoKey = NoKey
    NoState = NoState
    Target = 5
    FrameSizes = {2, 3}
    CallbackSizes = {1, 4}
    Ids = 12
    QueueFrames = 2
    ChunkSamples = 3
    BatchSizes = {1, 2}
    PlaySizes = {2}
    WireCap = 2
    LastSample = 8
INVARIANTS
    ButtonsFollowKeys
    BoundedLatency
PROPERTIES
    ButtonsComeUp
    ImplementsStream
    InputRecurs
    StreamDrains
