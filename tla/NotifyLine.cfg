SPECIFICATION FairSpec
CONSTANTS
    g1 = g1
    g2 = g2
    g3 = g3
    G = {g1, g2, g3}
    Half = 4
    None = None
INVARIANT StackRecords
PROPERTY Promise
CHECK_DEADLOCK FALSE
