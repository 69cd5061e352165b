CONSTANTS
    Threads = {t1, t2, t3}
    Rounds = 4
    IntMod = 3
    ITERATIONS = 2
SPECIFICATION TestSpec
INVARIANTS TestInv NoError
PROPERTIES BarrierContract EveryThreadReturns
CHECK_DEADLOCK FALSE
