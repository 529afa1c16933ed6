SPECIFICATION TimerFairSpec
CONSTANTS
    u1 = u1
    u2 = u2
    U = {u1, u2}
    First = u1
    Delays <- MCDelays
    MaxInt = 6
    MaxNow = 4
    MaxGen = 3
INVARIANTS Accounted DrainReady InPhase
PROPERTIES StopHolds Fires
CHECK_DEADLOCK FALSE
