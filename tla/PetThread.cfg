CONSTANTS
    MaxThreads = 4
    Calls = {"create", "schedule", "yield_to", "join", "exit"}
    MainCalls = {"create", "run"}
    Joinable = {1, 2, 3, 4}
SPECIFICATION Spec
INVARIANTS OnePlace WaitersKept JoinValue NoFailure
PROPERTIES ReadyIsFIFO RoundRobin
CHECK_DEADLOCK FALSE
