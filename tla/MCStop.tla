------------------------------- MODULE MCStop -------------------------------
\* Small instances of StopWorld.
EXTENDS StopWorld

CONSTANTS m0, w1, w2

\* The main thread asks for everything, each worker for some of it.
MCAsks == [t \in T |-> CASE t = m0 -> Requests
                         [] t = w1 -> {"small", "spawn", "exit"}
                         [] t = w2 -> {"alloc", "persist", "exit"}]
=============================================================================
