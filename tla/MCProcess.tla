------------------------------ MODULE MCProcess ------------------------------
\* A small instance of Process.
EXTENDS Process, TLC

CONSTANTS w1, w2
=============================================================================
