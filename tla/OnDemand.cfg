SPECIFICATION Spec
CONSTANTS
    RegionPages = 5
    Sizes = {1, 4}
    MaxNodes = 4
    R = 3
    Stride = 2
    FirstPDP = 1
    NumPages = 10
    Touched = {0, 2, 3}
INVARIANTS TreeSound MappedOnlyIfHeld
PROPERTIES ChangesAreLocal WalkTerminates
CHECK_DEADLOCK FALSE
