SPECIFICATION FairSpec
CONSTANTS
    M0 = M0
    Main = Main
    None = None
    M = {M0}
    G = {Main, g1, g2}
    Workers = {}
INVARIANTS
    NoLostGoroutine
    NoFalseDeadlock
PROPERTIES
    QueuedRuns
    SleeperRuns
