SPECIFICATION SignalsFairSpec
CONSTANTS
    g1 = g1
    g2 = g2
    c1 = c1
    c2 = c2
    G = {g1, g2}
    C = {c1, c2}
    First <- MCFirst
    MaxCalls = 3
    None = None
INVARIANTS InStep
PROPERTIES TakenDelivered StopSilent PendingTaken
CHECK_DEADLOCK FALSE
