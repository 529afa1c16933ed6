------------------------------ MODULE MCSignals ------------------------------
\* A small instance of Signals: one goroutine names its signals in the order of
\* their numbers, the other the other way round.
EXTENDS Signals, TLC

CONSTANTS g1, g2, c1, c2

MCFirst == g1 :> Interrupt @@ g2 :> Winch
=============================================================================
