SPECIFICATION WorldFairSpec
CONSTANTS
    m0 = m0
    w1 = w1
    w2 = w2
    Main = m0
    T = {m0, w1, w2}
    Running = {m0, w1}
    Nobody = Nobody
    Asks <- MCAsks
INVARIANTS OneStopper SettledStop
PROPERTY CollectionFinishes
CHECK_DEADLOCK FALSE
