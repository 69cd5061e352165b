CONSTANTS
    Readers = {r1, r2}
    Writers = {w1}
    ITERATIONS = 1
    Warmups = {TRUE}
SPECIFICATION Spec
PROPERTIES EveryThreadReturns
CHECK_DEADLOCK FALSE
