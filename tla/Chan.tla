-------------------------------- MODULE Chan --------------------------------
(***************************************************************************)
(* Channels and select of platform/abi/runtime_gccgo.c.  A channel is a    *)
(* ring buffer and two queues of waiting goroutines under a lock; a select *)
(* takes the locks of all its channels in the order of their addresses.    *)
(* runtime_chan_send and runtime_chan_recv are one-case selects here: they *)
(* make the same attempt and wait in the same queues, but their wait       *)
(* records are not marked is_select.                                       *)
(*                                                                         *)
(* Outside the locks a select shares its word g->select_done with every    *)
(* goroutine that finds one of its records in a queue.  Steps end where    *)
(* that word is read or written, at a lock, where a record joins a queue,  *)
(* and at a park.  With one kernel thread, the default, goroutines         *)
(* interleave only where they park (Parallel = FALSE).  runtime_ready is   *)
(* the step to "woken"; the handshake behind it is in Sched.  Nil          *)
(* channels, which no call ever leaves or which a select skips, are left   *)
(* out.                                                                    *)
(***************************************************************************)
EXTENDS Naturals, Sequences, FiniteSets, SequencesExt

CONSTANTS
    G,          \* goroutines; a goroutine sends its own name
    C,          \* channels, by address
    Caps,       \* sizes channels are made with
    Calls,      \* [cases, sel, block]: what a goroutine may call
    Parallel,   \* several kernel threads
    None

Case == [dir : {"send", "recv", "close"}, c : C]
Record == [g : G, i : Nat, sel : BOOLEAN]                  \* runtime_sudog
Waking == [g : G, i : Nat, sel : BOOLEAN, ok : BOOLEAN]
Outcomes == [case : Nat, v : G \cup {None}, ok : BOOLEAN]

\* A select has cases of two kinds; any other call has one case, and a close
\* waits for nobody.
ASSUME ChanAssumption ==
    /\ C \subseteq Nat /\ Caps \subseteq Nat
    /\ Parallel \in BOOLEAN
    /\ \A o \in Calls :
         /\ o \in [cases : Seq(Case), sel : BOOLEAN, block : BOOLEAN]
         /\ o.cases # <<>>
         /\ IF o.sel THEN \A i \in DOMAIN o.cases : o.cases[i].dir # "close"
                     ELSE Len(o.cases) = 1
    /\ None \notin G \cup Calls \cup Outcomes \cup Waking

VARIABLES
    cap,        \* c->dataqsiz
    ring,       \* c->buf
    sendx,      \* c->sendx
    recvx,      \* c->recvx
    qcount,     \* c->qcount
    closed,     \* c->closed
    sendq,      \* c->sendq: wait records [g, i, sel], i the case
    recvq,      \* c->recvq
    lock,       \* who holds c->lock
    pc,         \* where each goroutine is
    op,         \* its call, or None
    at,         \* the case it is trying or cleaning up
    todo,       \* the channels whose locks it still has to take
    elem,       \* what its receive cases received, by case
    done,       \* g->select_done, 0 for -1; sd->success of a plain call
    recvok,     \* g->select_recvok
    wk,         \* the wait record it took from a queue and has to wake
    res,        \* what its call returns
    failed      \* throw ended the process

chans == <<cap, ring, sendx, recvx, qcount, closed>>
queues == <<sendq, recvq>>
frame == <<op, at, todo, res>>
flags == <<done, recvok>>
vars == <<chans, queues, lock, pc, frame, elem, flags, wk, failed>>

PCs == {"idle", "lock", "try", "queue", "wake", "set", "drain", "unlock",
        "parked", "woken", "clean", "return"}

\* Where a goroutine may be while another one runs on the only thread.
Resting == {"idle", "parked", "woken"}

TypeOK ==
    /\ cap \in [C -> Caps]
    /\ DOMAIN ring = C
    /\ \A c \in C : ring[c] \in [0..(cap[c] - 1) -> G \cup {None}]
    /\ {sendx, recvx, qcount} \subseteq [C -> Nat]
    /\ \A c \in C : {sendx[c], recvx[c], qcount[c]} \subseteq 0..cap[c]
    /\ closed \in [C -> BOOLEAN]
    /\ sendq \in [C -> Seq(Record)] /\ recvq \in [C -> Seq(Record)]
    /\ lock \in [C -> G \cup {None}]
    /\ pc \in [G -> PCs]
    /\ op \in [G -> Calls \cup {None}]
    /\ at \in [G -> Nat] /\ todo \in [G -> SUBSET C]
    /\ elem \in [G -> Seq(G \cup {None})]
    /\ done \in [G -> Nat] /\ recvok \in [G -> BOOLEAN]
    /\ wk \in [G -> Waking \cup {None}]
    /\ res \in [G -> Outcomes \cup {None}]
    /\ failed \in BOOLEAN

\* runtime_makechan for every channel
Init ==
    /\ cap \in [C -> Caps]
    /\ ring = [c \in C |-> [s \in 0..(cap[c] - 1) |-> None]]
    /\ sendx = [c \in C |-> 0] /\ recvx = [c \in C |-> 0]
    /\ qcount = [c \in C |-> 0]
    /\ closed = [c \in C |-> FALSE]
    /\ sendq = [c \in C |-> <<>>] /\ recvq = [c \in C |-> <<>>]
    /\ lock = [c \in C |-> None]
    /\ pc = [g \in G |-> "idle"]
    /\ op = [g \in G |-> None]
    /\ at = [g \in G |-> 0] /\ todo = [g \in G |-> {}]
    /\ elem = [g \in G |-> <<>>]
    /\ done = [g \in G |-> 0] /\ recvok = [g \in G |-> FALSE]
    /\ wk = [g \in G |-> None]
    /\ res = [g \in G |-> None]
    /\ failed = FALSE

-----------------------------------------------------------------------------
\* g is on a thread and at p.
At(g, p) ==
    /\ ~failed /\ pc[g] = p
    /\ Parallel \/ \A h \in G \ {g} : pc[h] \in Resting

Goto(g, p) == pc' = [pc EXCEPT ![g] = p]
This(g) == op[g].cases[at[g]]
Outcome(i, v, ok) == [case |-> i, v |-> v, ok |-> ok]
Reply(g, i, v, ok) == res' = [res EXCEPT ![g] = Outcome(i, v, ok)]

\* The locks g holds are released.
Release(g) == lock' = [c \in C |-> IF lock[c] = g THEN None ELSE lock[c]]

\* A record counts unless its select is over.
Live(r) == r.sel => done[r.g] = 0

\* The place of the first record in queue s that counts.
FirstLive(s) ==
    {k \in DOMAIN s : Live(s[k]) /\ \A j \in 1..(k - 1) : ~Live(s[j])}

\* runtime_waitq_dequeue: the records passed over are dropped.
Dequeue(s, k) == SubSeq(s, k + 1, Len(s))

\* g has to wake r: its value was exchanged (ok), or the channel was closed.
ToWake(g, r, ok) ==
    /\ wk' = [wk EXCEPT ![g] = [g |-> r.g, i |-> r.i, sel |-> r.sel, ok |-> ok]]
    /\ Goto(g, "wake")

-----------------------------------------------------------------------------
\* The channels of a call.
Channels(o) == {o.cases[i].c : i \in DOMAIN o.cases}

\* The call.  A select starts with its select_done cleared.
Begin(g, o) ==
    /\ Goto(g, "lock")
    /\ at' = [at EXCEPT ![g] = 1]
    /\ todo' = [todo EXCEPT ![g] = Channels(o)]
    /\ done' = [done EXCEPT ![g] = 0]
    /\ recvok' = [recvok EXCEPT ![g] = FALSE]

Call(g, o) ==
    /\ At(g, "idle")
    /\ op' = [op EXCEPT ![g] = o]
    /\ elem' = [elem EXCEPT ![g] = [i \in DOMAIN o.cases |-> None]]
    /\ Begin(g, o)
    /\ UNCHANGED <<chans, queues, lock, wk, res, failed>>

\* Mutant: the locks are taken in the order of the cases.
FirstCase(g) ==
    {op[g].cases[i].c : i \in {j \in DOMAIN op[g].cases :
        /\ op[g].cases[j].c \in todo[g]
        /\ \A k \in 1 .. (j - 1) : op[g].cases[k].c \notin todo[g]}}

\* The locks are taken in the order of the channels' addresses.
LockNext(g) == {c \in todo[g] : \A d \in todo[g] : c <= d}

Lock(g) ==
    /\ At(g, "lock")
    /\ \E c \in LockNext(g) :
         /\ lock[c] = None
         /\ lock' = [lock EXCEPT ![c] = g]
         /\ todo' = [todo EXCEPT ![g] = @ \ {c}]
         /\ Goto(g, IF todo[g] = {c} THEN "try" ELSE "lock")
    /\ UNCHANGED <<chans, queues, op, at, res, elem, flags, wk, failed>>

-----------------------------------------------------------------------------
\* The attempt at one case, with the locks held

\* Buffer operations.
Inc(c, x) == (x + 1) % cap[c]

\* A receiver waits: it is given the value directly.
SendDirect(g, c) ==
    \E k \in FirstLive(recvq[c]) :
        LET r == recvq[c][k] IN
        /\ recvq' = [recvq EXCEPT ![c] = Dequeue(@, k)]
        /\ elem' = [elem EXCEPT ![r.g][r.i] = g]
        /\ ToWake(g, r, TRUE)
        /\ UNCHANGED <<chans, sendq>>

SendBuffer(g, c) ==
    /\ qcount[c] < cap[c]
    /\ ring' = [ring EXCEPT ![c][sendx[c]] = g]
    /\ sendx' = [sendx EXCEPT ![c] = Inc(c, @)]
    /\ qcount' = [qcount EXCEPT ![c] = @ + 1]
    /\ recvq' = [recvq EXCEPT ![c] = <<>>]
    /\ Goto(g, "unlock")
    /\ UNCHANGED <<cap, recvx, closed, sendq, elem, wk>>

TrySend(g) ==
    LET c == This(g).c IN
    /\ At(g, "try") /\ This(g).dir = "send" /\ ~closed[c]
    /\ IF FirstLive(recvq[c]) # {} THEN SendDirect(g, c)
                                   ELSE SendBuffer(g, c)
    /\ Reply(g, at[g], None, TRUE)
    /\ UNCHANGED <<lock, op, at, todo, flags, failed>>

\* throw("send on closed channel")
SendClosed(g) ==
    /\ At(g, "try") /\ This(g).dir = "send" /\ closed[This(g).c]
    /\ failed' = TRUE
    /\ UNCHANGED <<chans, queues, lock, pc, frame, elem, flags, wk>>

\* Mutant: the value of the waiting sender goes where the buffer has just been
\* read, without moving sendx.
RefillKeepsIndex(g, k, c) ==
    LET r == sendq[c][k] IN
    /\ ring' = [ring EXCEPT ![c][sendx[c]] = r.g]
    /\ sendq' = [sendq EXCEPT ![c] = Dequeue(@, k)]
    /\ ToWake(g, r, TRUE)
    /\ UNCHANGED <<sendx, qcount>>

\* A waiting sender fills the place that has become free.
Refill(g, k, c) ==
    LET r == sendq[c][k] IN
    /\ ring' = [ring EXCEPT ![c][sendx[c]] = r.g]
    /\ sendx' = [sendx EXCEPT ![c] = Inc(c, @)]
    /\ sendq' = [sendq EXCEPT ![c] = Dequeue(@, k)]
    /\ ToWake(g, r, TRUE)
    /\ UNCHANGED qcount

RecvBuffer(g, c) ==
    /\ qcount[c] > 0
    /\ elem' = [elem EXCEPT ![g][at[g]] = ring[c][recvx[c]]]
    /\ Reply(g, at[g], ring[c][recvx[c]], TRUE)
    /\ recvx' = [recvx EXCEPT ![c] = Inc(c, @)]
    /\ IF FirstLive(sendq[c]) # {}
       THEN \E k \in FirstLive(sendq[c]) : Refill(g, k, c)
       ELSE /\ sendq' = [sendq EXCEPT ![c] = <<>>]
            /\ qcount' = [qcount EXCEPT ![c] = @ - 1]
            /\ Goto(g, "unlock")
            /\ UNCHANGED <<ring, sendx, wk>>
    /\ UNCHANGED <<cap, closed, recvq>>

\* No buffered value, but a sender waits: take the value from it.
RecvDirect(g, c) ==
    /\ qcount[c] = 0
    /\ \E k \in FirstLive(sendq[c]) :
        LET r == sendq[c][k] IN
        /\ sendq' = [sendq EXCEPT ![c] = Dequeue(@, k)]
        /\ elem' = [elem EXCEPT ![g][at[g]] = r.g]
        /\ Reply(g, at[g], r.g, TRUE)
        /\ ToWake(g, r, TRUE)
        /\ UNCHANGED <<chans, recvq>>

RecvClosed(g, c) ==
    /\ qcount[c] = 0 /\ FirstLive(sendq[c]) = {} /\ closed[c]
    /\ Reply(g, at[g], None, FALSE)
    /\ sendq' = [sendq EXCEPT ![c] = <<>>]
    /\ Goto(g, "unlock")
    /\ UNCHANGED <<chans, recvq, elem, wk>>

TryRecv(g) ==
    LET c == This(g).c IN
    /\ At(g, "try") /\ This(g).dir = "recv"
    /\ RecvBuffer(g, c) \/ RecvDirect(g, c) \/ RecvClosed(g, c)
    /\ UNCHANGED <<lock, op, at, todo, flags, failed>>

\* The case cannot proceed.  (The search for a partner emptied the queue.)
Stuck(g) ==
    LET c == This(g).c IN
    \/ /\ This(g).dir = "send" /\ ~closed[c]
       /\ FirstLive(recvq[c]) = {} /\ qcount[c] = cap[c]
    \/ /\ This(g).dir = "recv" /\ ~closed[c]
       /\ FirstLive(sendq[c]) = {} /\ qcount[c] = 0

SearchedQueue(g) ==
    LET c == This(g).c IN
    IF This(g).dir = "send"
    THEN recvq' = [recvq EXCEPT ![c] = <<>>] /\ UNCHANGED sendq
    ELSE sendq' = [sendq EXCEPT ![c] = <<>>] /\ UNCHANGED recvq

LastCase(g) == at[g] = Len(op[g].cases)

TryNext(g) ==
    /\ At(g, "try") /\ This(g).dir # "close" /\ Stuck(g)
    /\ ~LastCase(g)
    /\ SearchedQueue(g)
    /\ at' = [at EXCEPT ![g] = @ + 1]
    /\ UNCHANGED <<chans, lock, pc, op, todo, res, elem, flags, wk, failed>>

Decline(g) ==
    /\ At(g, "try") /\ This(g).dir # "close" /\ Stuck(g)
    /\ LastCase(g) /\ ~op[g].block
    /\ SearchedQueue(g)
    /\ Reply(g, 0, None, FALSE)
    /\ Goto(g, "unlock")
    /\ UNCHANGED <<chans, lock, op, at, todo, elem, flags, wk, failed>>

-----------------------------------------------------------------------------
\* Waiting

\* No case can proceed, and the call may wait.
Wait(g) ==
    /\ At(g, "try") /\ This(g).dir # "close" /\ Stuck(g)
    /\ LastCase(g) /\ op[g].block
    /\ SearchedQueue(g)
    /\ at' = [at EXCEPT ![g] = 1]
    /\ Goto(g, "queue")
    /\ UNCHANGED <<chans, lock, op, todo, res, elem, flags, wk, failed>>

\* runtime_waitq_enqueue
Enqueue(g) ==
    LET c == This(g).c
        r == [g |-> g, i |-> at[g], sel |-> op[g].sel] IN
    IF This(g).dir = "send"
    THEN sendq' = [sendq EXCEPT ![c] = Append(@, r)] /\ UNCHANGED recvq
    ELSE recvq' = [recvq EXCEPT ![c] = Append(@, r)] /\ UNCHANGED sendq

\* The cases are queued one by one ...
Queue(g) ==
    /\ At(g, "queue") /\ ~LastCase(g)
    /\ Enqueue(g)
    /\ at' = [at EXCEPT ![g] = @ + 1]
    /\ UNCHANGED <<chans, lock, pc, op, todo, res, elem, flags, wk, failed>>

\* ... and after the last the park is announced and the locks are released.
Park(g) ==
    /\ At(g, "queue") /\ LastCase(g)
    /\ Enqueue(g)
    /\ at' = [at EXCEPT ![g] = 1]
    /\ Release(g)
    /\ Goto(g, "parked")
    /\ UNCHANGED <<chans, op, todo, res, elem, flags, wk, failed>>

\* runtime_wake_sudog: a select that is over is not woken ...
WakeTest(g) ==
    /\ At(g, "wake")
    /\ IF Live(wk[g])
       THEN Goto(g, "set") /\ UNCHANGED wk
       ELSE /\ Goto(g, IF This(g).dir = "close" THEN "drain" ELSE "unlock")
            /\ wk' = [wk EXCEPT ![g] = None]
    /\ UNCHANGED <<chans, queues, lock, frame, elem, flags, failed>>

\* Mutant: the call is told and not readied.
WakeSetOnly(g) ==
    LET h == wk[g].g
        back == IF This(g).dir = "close" THEN "drain" ELSE "unlock" IN
    /\ At(g, "set")
    /\ done' = [done EXCEPT ![h] = wk[g].i]
    /\ recvok' = [recvok EXCEPT ![h] = wk[g].ok]
    /\ Goto(g, back)
    /\ wk' = [wk EXCEPT ![g] = None]
    /\ UNCHANGED <<chans, queues, lock, frame, elem, failed>>

\* ... any other call is told which case went through, and readied.
WakeSet(g) ==
    LET h == wk[g].g
        back == IF This(g).dir = "close" THEN "drain" ELSE "unlock" IN
    /\ At(g, "set")
    /\ done' = [done EXCEPT ![h] = wk[g].i]
    /\ recvok' = [recvok EXCEPT ![h] = wk[g].ok]
    /\ pc' = [pc EXCEPT ![g] = back,
                        ![h] = IF @ = "parked" THEN "woken" ELSE @]
    /\ wk' = [wk EXCEPT ![g] = None]
    /\ UNCHANGED <<chans, queues, lock, frame, elem, failed>>

\* Mutant: a send that was woken by a close returns.
ResumeUnchecked(g) ==
    /\ At(g, "woken") /\ ~op[g].sel
    /\ Goto(g, "return")
    /\ Reply(g, 1, IF This(g).dir = "recv" /\ recvok[g]
                   THEN elem[g][1] ELSE None, recvok[g])
    /\ UNCHANGED <<chans, queues, lock, op, at, todo, elem, flags, wk, failed>>

\* Woken from a plain send or receive.
ResumePlain(g) ==
    /\ At(g, "woken") /\ ~op[g].sel
    /\ IF This(g).dir = "send" /\ ~recvok[g]
       THEN failed' = TRUE /\ UNCHANGED <<pc, res>>
       ELSE /\ Goto(g, "return")
            /\ Reply(g, 1, IF This(g).dir = "recv" /\ recvok[g]
                           THEN elem[g][1] ELSE None, recvok[g])
            /\ UNCHANGED failed
    /\ UNCHANGED <<chans, queues, lock, op, at, todo, elem, flags, wk>>

\* Woken from a select: the records of the other cases are removed one lock at
\* a time.
ResumeSelect(g) ==
    /\ At(g, "woken") /\ op[g].sel
    /\ at' = [at EXCEPT ![g] = 1]
    /\ Goto(g, "clean")
    /\ Reply(g, done[g],
             IF done[g] # 0 /\ recvok[g] /\ op[g].cases[done[g]].dir = "recv"
             THEN elem[g][done[g]] ELSE None,
             recvok[g])
    /\ UNCHANGED <<chans, queues, lock, op, todo, elem, flags, wk, failed>>

Places(s, g, i) == {k \in DOMAIN s : s[k].g = g /\ s[k].i = i}

\* Mutant: the record stays.
WithoutNone(s, g, i) == s

\* runtime_waitq_remove
Without(s, g, i) ==
    IF Places(s, g, i) = {} THEN s
    ELSE RemoveAt(s, CHOOSE k \in Places(s, g, i) : TRUE)

Clean(g) ==
    LET c == This(g).c IN
    /\ At(g, "clean") /\ at[g] <= Len(op[g].cases)
    /\ at' = [at EXCEPT ![g] = @ + 1]
    /\ IF at[g] = res[g].case
       THEN UNCHANGED queues
       ELSE /\ lock[c] = None
            /\ IF This(g).dir = "send"
               THEN /\ sendq' = [sendq EXCEPT ![c] = Without(@, g, at[g])]
                    /\ UNCHANGED recvq
               ELSE /\ recvq' = [recvq EXCEPT ![c] = Without(@, g, at[g])]
                    /\ UNCHANGED sendq
    /\ UNCHANGED <<chans, lock, pc, op, todo, res, elem, flags, wk, failed>>

\* Woken for no case: start again.
CleanDone(g) ==
    /\ At(g, "clean") /\ at[g] > Len(op[g].cases)
    /\ IF res[g].case = 0
       THEN Begin(g, op[g]) /\ res' = [res EXCEPT ![g] = None]
       ELSE Goto(g, "return") /\ UNCHANGED <<at, todo, flags, res>>
    /\ UNCHANGED <<chans, queues, lock, op, elem, wk, failed>>

-----------------------------------------------------------------------------
\* runtime_closechan

Close(g) ==
    LET c == This(g).c IN
    /\ At(g, "try") /\ This(g).dir = "close"
    /\ IF closed[c]
       THEN failed' = TRUE /\ UNCHANGED <<closed, pc, res>>
       ELSE /\ closed' = [closed EXCEPT ![c] = TRUE]
            /\ Goto(g, "drain")
            /\ Reply(g, 1, None, FALSE)
            /\ UNCHANGED failed
    /\ UNCHANGED <<cap, ring, sendx, recvx, qcount, queues, lock, op, at, todo,
                   elem, flags, wk>>

\* Mutant: waiting senders are forgotten.
DrainReceivers(g) ==
    LET c == This(g).c IN
    /\ At(g, "drain")
    /\ IF FirstLive(recvq[c]) # {}
       THEN \E k \in FirstLive(recvq[c]) :
                 /\ recvq' = [recvq EXCEPT ![c] = Dequeue(@, k)]
                 /\ ToWake(g, recvq[c][k], FALSE)
       ELSE /\ recvq' = [recvq EXCEPT ![c] = <<>>]
            /\ Goto(g, "unlock")
            /\ UNCHANGED wk
    /\ UNCHANGED <<chans, sendq, lock, frame, elem, flags, failed>>

\* Everybody who waits is woken, receivers first.
Drain(g) ==
    LET c == This(g).c IN
    /\ At(g, "drain")
    /\ IF FirstLive(recvq[c]) # {}
       THEN /\ \E k \in FirstLive(recvq[c]) :
                 /\ recvq' = [recvq EXCEPT ![c] = Dequeue(@, k)]
                 /\ ToWake(g, recvq[c][k], FALSE)
            /\ UNCHANGED sendq
       ELSE /\ recvq' = [recvq EXCEPT ![c] = <<>>]
            /\ IF FirstLive(sendq[c]) # {}
               THEN \E k \in FirstLive(sendq[c]) :
                      /\ sendq' = [sendq EXCEPT ![c] = Dequeue(@, k)]
                      /\ ToWake(g, sendq[c][k], FALSE)
               ELSE /\ sendq' = [sendq EXCEPT ![c] = <<>>]
                    /\ Goto(g, "unlock")
                    /\ UNCHANGED wk
    /\ UNCHANGED <<chans, lock, frame, elem, flags, failed>>

Unlock(g) ==
    /\ At(g, "unlock")
    /\ Release(g)
    /\ Goto(g, "return")
    /\ UNCHANGED <<chans, queues, frame, elem, flags, wk, failed>>

\* (The locals are gone.  g->select_done keeps its value, which nobody reads
\* before the next select clears it, unless somebody still has g to wake.)
Return(g) ==
    LET unread == \A h \in G : wk[h] # None => wk[h].g # g IN
    /\ At(g, "return")
    /\ Goto(g, "idle")
    /\ op' = [op EXCEPT ![g] = None]
    /\ at' = [at EXCEPT ![g] = 0]
    /\ elem' = [elem EXCEPT ![g] = <<>>]
    /\ res' = [res EXCEPT ![g] = None]
    /\ done' = [done EXCEPT ![g] = IF unread THEN 0 ELSE @]
    /\ recvok' = [recvok EXCEPT ![g] = FALSE]
    /\ UNCHANGED <<chans, queues, lock, todo, wk, failed>>

Step(g) ==
    \/ Lock(g) \/ TrySend(g) \/ SendClosed(g) \/ TryRecv(g) \/ TryNext(g)
    \/ Decline(g) \/ Wait(g) \/ Queue(g) \/ Park(g) \/ WakeTest(g) \/ WakeSet(g)
    \/ ResumePlain(g) \/ ResumeSelect(g) \/ Clean(g) \/ CleanDone(g)
    \/ Close(g) \/ Drain(g) \/ Unlock(g) \/ Return(g)

Next == \E g \in G : Step(g) \/ \E o \in Calls : Call(g, o)

Spec == Init /\ [][Next]_vars

\* A goroutine that can go on does, again and again: the scheduler is first-in
\* first-out, and the channel locks do not starve a thread for ever.
FairSpec == Spec /\ \A g \in G : SF_vars(Step(g))

-----------------------------------------------------------------------------
Waiters(s) == {s[k].g : k \in {j \in DOMAIN s : Live(s[j])}}

\* Nobody waits in vain: once a channel is unlocked, a receiver waits only if
\* it is open and empty and no other goroutine waits to send, and a sender only
\* if it is open and full.
NobodyWaitsInVain ==
    \A c \in C : lock[c] = None /\ ~failed =>
        /\ Waiters(recvq[c]) # {} => qcount[c] = 0 /\ ~closed[c]
        /\ Waiters(sendq[c]) # {} => qcount[c] = cap[c] /\ ~closed[c]
        /\ \A g \in Waiters(recvq[c]), h \in Waiters(sendq[c]) : g = h

\* A call that was matched with a waiting one, and has exchanged a value with
\* it, wakes it for that case: a select is matched with one partner only.
MatchedOnce ==
    \A g \in G : pc[g] \in {"wake", "set"} /\ ~failed =>
        /\ Live(wk[g])
        /\ \A h \in G \ {g} : wk[h] # None => wk[h].g # wk[g].g

\* Wait records are freed when their call returns: no queue holds one of a call
\* that is over or belongs to another case.
RecordsOfCalls ==
    \A c \in C, d \in {"send", "recv"} :
        LET s == IF d = "send" THEN sendq[c] ELSE recvq[c] IN
        \A k \in DOMAIN s :
            /\ pc[s[k].g] \in {"queue", "parked", "woken", "clean"}
            /\ op[s[k].g].cases[s[k].i] = [dir |-> d, c |-> c]
            /\ \A j \in DOMAIN s : s[j] = s[k] => j = k

\* A send that returns has delivered its value.
SendsDelivered ==
    \A g \in G : pc[g] = "return" /\ res[g].case # 0 =>
        (op[g].cases[res[g].case].dir = "send" => res[g].ok)

\* A call gets its locks and tries its cases: selects that name their channels
\* in different orders do not hold each other up.
CallsDecide ==
    \A g \in G : pc[g] \in {"lock", "try"}
                 ~> (pc[g] \notin {"lock", "try"} \/ failed)

-----------------------------------------------------------------------------
(***************************************************************************)
(* Refinement.  A call takes effect when its own attempt succeeds, or when *)
(* another call takes its wait record out of a queue.                      *)
(***************************************************************************)
Contents(c) == [n \in 1..qcount[c] |-> ring[c][(recvx[c] + n - 1) % cap[c]]]
values == [c \in C |-> Contents(c)]

Waker(g) == {h \in G : wk[h] # None /\ wk[h].g = g}

Value(g, i, ok) ==
    IF ok /\ op[g].cases[i].dir = "recv" THEN elem[g][i] ELSE None

Outcome1(g) ==
    IF pc[g] \in {"parked", "woken"} /\ Waker(g) # {}
    THEN LET w == wk[CHOOSE h \in Waker(g) : TRUE] IN
         Outcome(w.i, Value(g, w.i, w.ok), w.ok)
    ELSE IF pc[g] = "woken"
    THEN Outcome(done[g], Value(g, done[g], recvok[g]), recvok[g])
    ELSE res[g]

replies == [g \in G |-> Outcome1(g)]

Abs == INSTANCE AbsChan WITH
           room <- cap,
           q <- values,
           shut <- closed,
           call <- op,
           reply <- replies

\* Every call takes effect at one moment, on a first-in first-out queue.
Atomic == Abs!AbsSpec

\* ... and returns once it has.
Promise == Abs!AbsFairSpec
=============================================================================
