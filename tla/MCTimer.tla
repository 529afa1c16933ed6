------------------------------- MODULE MCTimer -------------------------------
\* A small instance of Timer.
EXTENDS Timer

CONSTANTS u1, u2

\* No delay, and delays that end or, late enough, do not fit.
MCDelays ==
    [channel |-> {0, 1}, function |-> {3}, ticker |-> {2}]
=============================================================================
