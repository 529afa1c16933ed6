SPECIFICATION FairSpec
CONSTANTS
    w1 = w1
    w2 = w2
    W = {w1, w2}
    Main = Main
    Nobody = Nobody
INVARIANTS NoneRuns KillTold
PROPERTIES StartingExits Reaped
CHECK_DEADLOCK FALSE
