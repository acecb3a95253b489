\* The screen in small: tiles of 2 by 2 pixels, nametables of 2 by 3 tiles, a
\* field for 4 rows, and 4 of 6 lines visible.
SPECIFICATION Spec
CONSTANTS
    LastCycle = 9
    VblankLine = 5
    LastLine = 5
    Tile = 2
    Columns = 2
    Rows = 3
    RowSpan = 4
    LowSpan = 4
    Lines = 4
    FirstCopy = 7
    LastCopy = 8
    Overshoot = 1
    AccessCycles = {2, 8}
    Starts = {0, 29}
    Scrolls = {1, 2}
    Strays = {13}
    MaxAccesses = 2
INVARIANTS
    PictureFollowsScroll
    AddressArrivesWhole
