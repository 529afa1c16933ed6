------------------------------ MODULE AbsSema -------------------------------
(***************************************************************************)
(* What runtime_Semacquire and runtime_Semrelease promise: a counter per   *)
(* address, a release adds a token, an acquire returns once it has taken   *)
(* one, and tokens and callers do not keep waiting for each other.         *)
(***************************************************************************)
EXTENDS Naturals

CONSTANTS
    G,          \* callers
    A,          \* addresses of semaphore words
    None

VARIABLES
    avail,      \* tokens nobody owns, per address
    want        \* the address a caller is acquiring, or None

absVars == <<avail, want>>

AbsInit == avail = [a \in A |-> 0] /\ want = [g \in G |-> None]

Request(g, a) ==
    /\ want[g] = None
    /\ want' = [want EXCEPT ![g] = a]
    /\ UNCHANGED avail

Grant(g, a) ==
    /\ want[g] = a /\ avail[a] > 0
    /\ avail' = [avail EXCEPT ![a] = @ - 1]
    /\ want' = [want EXCEPT ![g] = None]

Post(a) ==
    /\ avail' = [avail EXCEPT ![a] = @ + 1]
    /\ UNCHANGED want

AbsNext == \E a \in A : Post(a) \/ \E g \in G : Request(g, a) \/ Grant(g, a)

AbsSpec == AbsInit /\ [][AbsNext]_absVars

\* While an address has a token and a caller, one of its callers gets one.
AbsFairness == \A a \in A : WF_absVars(\E g \in G : Grant(g, a))

AbsFairSpec == AbsSpec /\ AbsFairness
=============================================================================
