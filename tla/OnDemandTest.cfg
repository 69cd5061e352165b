SPECIFICATION Spec
CONSTANTS
    RegionPages = 6
    Sizes = {5}
    MaxNodes = 3
    R = 4
    Stride = 2
    FirstPDP = 1
    NumPages = 14
    Touched = {0, 1, 2, 3, 4, 5}
INVARIANTS StaysInTables
CHECK_DEADLOCK FALSE
