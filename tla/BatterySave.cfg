SPECIFICATION Spec
CONSTANTS
    Places = {1}
    Values = {0, 1, 2}
    NoFile = NoFile
INVARIANTS
    GameFindsItsSave
