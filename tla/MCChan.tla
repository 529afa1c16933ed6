------------------------------- MODULE MCChan -------------------------------
\* Small instances of Chan.
EXTENDS Chan, TLC

CONSTANTS g1, g2, g3, g4

On(d, c) == [dir |-> d, c |-> c]
Plain(d, c) == [cases |-> <<On(d, c)>>, sel |-> FALSE, block |-> TRUE]
NonBlocking(d, c) == [cases |-> <<On(d, c)>>, sel |-> FALSE, block |-> FALSE]
Select(x, y, b) == [cases |-> <<x, y>>, sel |-> TRUE, block |-> b]

\* Every plain operation on one channel.
PlainCalls ==
    {Plain("send", 1), Plain("recv", 1), Plain("close", 1),
     NonBlocking("send", 1), NonBlocking("recv", 1)}

\* Selects over two channels and the calls that meet them.
SelectCalls ==
    {Plain("send", 1), Plain("recv", 1), Plain("send", 2), Plain("close", 1),
     Select(On("recv", 1), On("recv", 2), TRUE),
     Select(On("send", 1), On("recv", 2), TRUE),
     Select(On("send", 1), On("recv", 1), TRUE),
     Select(On("send", 2), On("recv", 1), FALSE)}

\* Selects that name two channels in both orders, and the calls that meet them.
LockCalls ==
    {Plain("send", 1), Plain("recv", 1), Plain("close", 1),
     Select(On("recv", 1), On("recv", 2), TRUE),
     Select(On("send", 1), On("recv", 2), TRUE),
     Select(On("send", 2), On("recv", 1), FALSE)}

Goroutines == Permutations(G)
=============================================================================
