CONSTANTS
    Producers = {p1, p2}
    Consumer = c
    ITERATIONS = 2
    NULL = NULL
SPECIFICATION Spec
INVARIANTS TailLag
PROPERTIES EnqueueIsAppend TailMovesForward EveryThreadReturns
CHECK_DEADLOCK FALSE
