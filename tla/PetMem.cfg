CONSTANTS
    bitmap_entries = 4
    num_blocks = 2
    BlockPages = 3
    Callers = {1, 2}
    Requests = {2, 3}
    PAGE_OFFSET = 16
    MaxRuns = 2
SPECIFICATION MemSpec
INVARIANTS GivenIsOffline PoolsTile PoolsApart HandedOutOnce
PROPERTIES Ends
CHECK_DEADLOCK FALSE
