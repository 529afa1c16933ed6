SPECIFICATION Spec
CONSTANTS
    g1 = g1
    g2 = g2
    g3 = g3
    g4 = g4
    G = {g1, g2, g3}
    C = {1}
    Caps = {0, 1, 2}
    Calls <- PlainCalls
    Parallel = TRUE
    None = None
SYMMETRY Goroutines
INVARIANTS NobodyWaitsInVain SendsDelivered
PROPERTY Atomic
CHECK_DEADLOCK FALSE
