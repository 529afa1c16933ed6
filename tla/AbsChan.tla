------------------------------ MODULE AbsChan -------------------------------
(***************************************************************************)
(* What channels and select promise.  A call offers a list of cases, each  *)
(* a send to or a receive from a channel; it takes effect at one moment    *)
(* between its invocation and its return, through one of its cases.  A     *)
(* channel is a bounded FIFO queue; a send meets a receive directly only   *)
(* while the queue is empty.                                               *)
(*                                                                         *)
(* Two points follow the runtime and not the language.  A select whose     *)
(* send case is refused, because its channel was closed while it waited,   *)
(* returns as if it had sent (Refuse), and misuse of a closed channel ends *)
(* the process instead of panicking (Fail).                                *)
(***************************************************************************)
EXTENDS Naturals, Sequences

CONSTANTS
    G,          \* goroutines; a goroutine sends its own name
    C,          \* channels
    Calls,      \* [cases, sel, block]: what a goroutine may call
    None

VARIABLES
    room,       \* capacity of each channel
    q,          \* values in each channel's queue
    shut,       \* whether each channel is closed
    call,       \* the call a goroutine has in progress, or None
    reply,      \* its outcome, once it has taken effect, or None
    failed      \* the process ended with an error

absVars == <<room, q, shut, call, reply, failed>>

AbsInit ==
    /\ room \in [C -> Nat]
    /\ q = [c \in C |-> <<>>]
    /\ shut = [c \in C |-> FALSE]
    /\ call = [g \in G |-> None]
    /\ reply = [g \in G |-> None]
    /\ failed = FALSE

Pending(g) == call[g] # None /\ reply[g] = None

\* g may go through its case i, which is of direction d; on channel On(g, i).
Offers(g, i, d) == call[g].cases[i].dir = d
On(g, i) == call[g].cases[i].c

Outcome(i, v, ok) == [case |-> i, v |-> v, ok |-> ok]
Received(i, v) == Outcome(i, v, TRUE)
Sent(i) == Outcome(i, None, TRUE)
Closed(i) == Outcome(i, None, FALSE)
Declined == Outcome(0, None, FALSE)

Same == UNCHANGED <<room, shut, call, failed>>

Invoke(g, o) ==
    /\ call' = [call EXCEPT ![g] = o]
    /\ UNCHANGED <<room, q, shut, reply, failed>>

Return(g) ==
    /\ reply[g] # None
    /\ call' = [call EXCEPT ![g] = None]
    /\ reply' = [reply EXCEPT ![g] = None]
    /\ UNCHANGED <<room, q, shut, failed>>

Send(g, i) ==
    LET c == On(g, i) IN
    /\ Offers(g, i, "send") /\ ~shut[c] /\ Len(q[c]) < room[c]
    /\ q' = [q EXCEPT ![c] = Append(@, g)]
    /\ reply' = [reply EXCEPT ![g] = Sent(i)]
    /\ Same

Recv(g, i) ==
    LET c == On(g, i) IN
    /\ Offers(g, i, "recv") /\ q[c] # <<>>
    /\ q' = [q EXCEPT ![c] = Tail(@)]
    /\ reply' = [reply EXCEPT ![g] = Received(i, Head(q[c]))]
    /\ Same

\* g's value goes to h.
Exchange(g, i, h, j) ==
    LET c == On(g, i) IN
    /\ Offers(g, i, "send") /\ Offers(h, j, "recv") /\ On(h, j) = c
    /\ ~shut[c] /\ q[c] = <<>>
    /\ reply' = [reply EXCEPT ![g] = Sent(i), ![h] = Received(j, g)]
    /\ UNCHANGED q /\ Same

\* h receives from a full queue, and g's value takes the place.
Shift(g, i, h, j) ==
    LET c == On(g, i) IN
    /\ Offers(g, i, "send") /\ Offers(h, j, "recv") /\ On(h, j) = c
    /\ ~shut[c] /\ q[c] # <<>> /\ Len(q[c]) = room[c]
    /\ q' = [q EXCEPT ![c] = Append(Tail(@), g)]
    /\ reply' = [reply EXCEPT ![g] = Sent(i),
                              ![h] = Received(j, Head(q[c]))]
    /\ Same

Drained(g, i) ==
    /\ Offers(g, i, "recv") /\ shut[On(g, i)] /\ q[On(g, i)] = <<>>
    /\ reply' = [reply EXCEPT ![g] = Closed(i)]
    /\ UNCHANGED q /\ Same

Refuse(g, i) ==
    /\ Offers(g, i, "send") /\ shut[On(g, i)]
    /\ reply' = [reply EXCEPT ![g] = Closed(i)]
    /\ UNCHANGED q /\ Same

Shut(g, i) ==
    /\ Offers(g, i, "close") /\ ~shut[On(g, i)]
    /\ shut' = [shut EXCEPT ![On(g, i)] = TRUE]
    /\ reply' = [reply EXCEPT ![g] = Closed(i)]
    /\ UNCHANGED <<room, q, call, failed>>

\* A non-blocking call for which no queue has anything.
Decline(g) ==
    /\ ~call[g].block
    /\ \A i \in DOMAIN call[g].cases :
         LET c == On(g, i) IN
         /\ ~shut[c]
         /\ Offers(g, i, "send") => Len(q[c]) = room[c]
         /\ Offers(g, i, "recv") => q[c] = <<>>
    /\ reply' = [reply EXCEPT ![g] = Declined]
    /\ UNCHANGED q /\ Same

\* Send on a closed channel, close of a closed channel.
Fail(g, i) ==
    /\ ~Offers(g, i, "recv") /\ shut[On(g, i)]
    /\ reply[g] \in {None, Closed(i)}
    /\ failed' = TRUE
    /\ UNCHANGED <<room, q, shut, call, reply>>

TakeEffect(g) ==
    \/ Decline(g)
    \/ \E i \in DOMAIN call[g].cases :
        \/ Send(g, i) \/ Recv(g, i) \/ Drained(g, i)
        \/ Refuse(g, i) \/ Shut(g, i)
        \/ \E h \in G \ {g} : Pending(h) /\ \E j \in DOMAIN call[h].cases :
            Exchange(g, i, h, j) \/ Shift(g, i, h, j)

AbsNext ==
    /\ ~failed
    /\ \E g \in G :
        \/ call[g] = None /\ \E o \in Calls : Invoke(g, o)
        \/ Return(g)
        \/ Pending(g) /\ TakeEffect(g)
        \/ call[g] # None /\ \E i \in DOMAIN call[g].cases : Fail(g, i)

AbsSpec == AbsInit /\ [][AbsNext]_absVars

\* A call that has taken effect returns, unless the process ends.
AbsFairness == \A g \in G : WF_absVars(~failed /\ Return(g))

AbsFairSpec == AbsSpec /\ AbsFairness
=============================================================================
