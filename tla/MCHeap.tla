------------------------------- MODULE MCHeap -------------------------------
\* A small instance of Heap.
EXTENDS Heap, TLC

CONSTANTS s1, s2, s3, m0, m1

\* One chunk of two slots and one of a single slot.
TwoChunks == {{s1, s2}, {s3}}

SlotSymmetry ==
    {p \in Permutations(Slots) :
        \A c \in Chunks : {p[s] : s \in c} \in Chunks}
=============================================================================
