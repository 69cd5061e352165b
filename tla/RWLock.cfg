CONSTANTS
    Readers = {r1, r2}
    Writers = {w1, w2}
    ITERATIONS = 2
    Warmups = {TRUE, FALSE}
SPECIFICATION Spec
INVARIANTS RWExclusion NoWriterAfterUnlock
PROPERTIES WarmupCompletes
CHECK_DEADLOCK FALSE
