CONSTANTS
    pool_order = 4
    min_order = 1
SPECIFICATION Spec
INVARIANTS PoolInv FailsOnlyWhenFull
PROPERTIES PoolContract
