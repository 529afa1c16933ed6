SPECIFICATION FairSpec
CONSTANTS
    g1 = g1
    g2 = g2
    g3 = g3
    g4 = g4
    G = {g1, g2}
    C = {1, 2}
    Caps = {0, 1}
    Calls <- LockCalls
    Parallel = TRUE
    None = None
INVARIANT RecordsOfCalls
PROPERTIES CallsDecide Promise
CHECK_DEADLOCK FALSE
