SPECIFICATION MapSpec
CONSTANTS
    RegionPages = 6
    Sizes = {0, 1, 2, 3}
    MaxNodes = 7
INVARIANTS Tiles Coalesced FailsOnlyWhenFull
PROPERTIES VspaceContract
CHECK_DEADLOCK FALSE
