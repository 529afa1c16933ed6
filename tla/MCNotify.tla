------------------------------ MODULE MCNotify ------------------------------
\* A small instance of NotifyList.
EXTENDS NotifyList

CONSTANTS g1, g2, g3
=============================================================================
