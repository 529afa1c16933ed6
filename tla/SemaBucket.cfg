SPECIFICATION FairSpec
CONSTANTS
    g1 = g1
    g2 = g2
    g3 = g3
    s1 = s1
    a1 = a1
    a2 = a2
    G = {g1, g2, g3}
    Sys = {s1}
    A = {a1, a2}
    MaxTokens = 2
    None = None
INVARIANTS NoLostRelease StackRecords
PROPERTY Promise
CHECK_DEADLOCK FALSE
