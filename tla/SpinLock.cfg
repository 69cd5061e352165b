CONSTANTS
    Threads = {t1, t2, t3}
    ITERATIONS = 2
SPECIFICATION Spec
INVARIANTS LockInv
PROPERTIES EveryThreadReturns
CHECK_DEADLOCK FALSE
