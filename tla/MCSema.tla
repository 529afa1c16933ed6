------------------------------- MODULE MCSema -------------------------------
\* A small instance of Sema.
EXTENDS Sema

CONSTANTS g1, g2, g3, s1, a1, a2
=============================================================================
