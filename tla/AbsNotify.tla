----------------------------- MODULE AbsNotify ------------------------------
(***************************************************************************)
(* What the notification list behind sync.Cond promises: goroutines stand  *)
(* in line from runtime_notifyListAdd on; a signal lets the first one go,  *)
(* a broadcast everybody; runtime_notifyListWait returns to those who were *)
(* let go, to all of them, and to nobody else.                             *)
(*                                                                         *)
(* A signal or a broadcast takes effect once between its call and its      *)
(* return.  It has none only if everybody who stood in line when it was    *)
(* called was let go meanwhile by others.                                  *)
(***************************************************************************)
EXTENDS Sequences

CONSTANTS
    G           \* goroutines

VARIABLES
    line,       \* goroutines in line, in the order of their tickets
    inside,     \* goroutines between Add and the return of Wait
    called,     \* goroutines that signal or broadcast, until it takes effect
    ahead       \* who is in line since before each such call

absVars == <<line, inside, called, ahead>>

Standing(l) == {l[i] : i \in DOMAIN l}

AbsInit ==
    /\ line = <<>> /\ inside = {}
    /\ called = [g \in G |-> "none"]
    /\ ahead = [g \in G |-> {}]

Enter(g) ==
    /\ g \notin inside /\ called[g] = "none"
    /\ line' = Append(line, g)
    /\ inside' = inside \cup {g}
    /\ UNCHANGED <<called, ahead>>

Leave(g) ==
    /\ g \in inside /\ g \notin Standing(line)
    /\ inside' = inside \ {g}
    /\ UNCHANGED <<line, called, ahead>>

Begin(g, kind) ==
    /\ g \notin inside /\ called[g] = "none"
    /\ called' = [called EXCEPT ![g] = kind]
    /\ ahead' = [ahead EXCEPT ![g] = Standing(line)]
    /\ UNCHANGED <<line, inside>>

End(g) ==
    /\ called' = [called EXCEPT ![g] = "none"]
    /\ ahead' = [h \in G |-> IF h = g THEN {} ELSE ahead[h] \cap Standing(line')]
    /\ UNCHANGED inside

Signal(g) ==
    /\ called[g] = "signal"
    /\ line # <<>> /\ line' = Tail(line)
    /\ End(g)

Broadcast(g) ==
    /\ called[g] = "broadcast"
    /\ line' = <<>>
    /\ End(g)

Pass(g) ==
    /\ called[g] # "none" /\ ahead[g] = {}
    /\ UNCHANGED line
    /\ End(g)

AbsNext ==
    \E g \in G : \/ Enter(g) \/ Leave(g)
                \/ Begin(g, "signal") \/ Begin(g, "broadcast")
                \/ Signal(g) \/ Broadcast(g) \/ Pass(g)

AbsSpec == AbsInit /\ [][AbsNext]_absVars

\* Whoever was let go returns, and every call takes effect or has nothing to do.
AbsFairness ==
    \A g \in G : /\ WF_absVars(Leave(g))
                /\ WF_absVars(Signal(g) \/ Broadcast(g) \/ Pass(g))

AbsFairSpec == AbsSpec /\ AbsFairness
=============================================================================
