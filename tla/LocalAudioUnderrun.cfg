CHECK_DEADLOCK FALSE
SPECIFICATION Spec
CONSTANTS
    Target = 5
    FrameSizes = {2, 3}
    CallbackSizes = {1, 4}
    Ids = 12
PROPERTIES
    HoldsLastSample
