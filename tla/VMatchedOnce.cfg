SPECIFICATION Spec
CONSTANTS
    g1 = g1
    g2 = g2
    g3 = g3
    g4 = g4
    G = {g1, g2, g3}
    C = {1, 2}
    Caps = {0, 1}
    Calls <- SelectCalls
    Parallel = TRUE
    None = None
SYMMETRY Goroutines
INVARIANT MatchedOnce
CHECK_DEADLOCK FALSE
