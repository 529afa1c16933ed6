----------------------------- MODULE NotifyList -----------------------------
(***************************************************************************)
(* The notification lists of platform/abi/runtime_sync.h, on which         *)
(* sync.Cond sleeps.  A goroutine draws a ticket (runtime_notifyListAdd),  *)
(* unlocks the condition's lock, and waits for its ticket to be passed by  *)
(* the list's notify counter (runtime_notifyListWait).  Both counters are  *)
(* uint32_t and wrap around.                                               *)
(*                                                                         *)
(* A critical section of list->lock is one step: what it changes is read   *)
(* under the lock, except for the two counters, of which it writes at most *)
(* one, once.  The unlocked test that the notifiers begin with loads the   *)
(* counters one at a time.  Parking and runtime_ready are one step, the    *)
(* handshake behind it is in Sched.                                        *)
(***************************************************************************)
EXTENDS Integers, Sequences, FiniteSets, SequencesExt

CONSTANTS
    G,          \* goroutines
    Half,       \* half the number of tickets; 2^31 in the code
    None

\* There are fewer goroutines than half the tickets: each has its own stack in
\* the address space of a 32-bit machine.
ASSUME NotifyAssumption ==
    /\ Half \in Nat \ {0} /\ None \notin G
    /\ IsFiniteSet(G) /\ Cardinality(G) <= Half

VARIABLES
    wait,       \* list->wait, the next ticket
    notify,     \* list->notify, the next ticket to be notified
    list,       \* list->head .. list->tail: whose wait record is linked
    pc,         \* where each goroutine is
    ticket,     \* its ticket, while it is in Wait
    old,        \* the copy of list->wait a notifier compares
    chain,      \* goroutines a notifier has unlinked and has to ready
    ahead       \* history: who is in line since before each notifier's call

vars == <<wait, notify, list, pc, ticket, old, chain, ahead>>

Tickets == 0..(2 * Half - 1)
PCs == {"idle", "added", "parked", "all", "allLock", "one", "oneLock", "walk"}

TypeOK ==
    /\ wait \in Tickets /\ notify \in Tickets
    /\ list \in Seq(G)
    /\ pc \in [G -> PCs]
    /\ ticket \in [G -> Tickets]
    /\ old \in [G -> Tickets]
    /\ chain \in [G -> Seq(G)]
    /\ ahead \in [G -> SUBSET G]

Init ==
    /\ wait = 0 /\ notify = 0
    /\ list = <<>>
    /\ pc = [g \in G |-> "idle"]
    /\ ticket = [g \in G |-> 0]
    /\ old = [g \in G |-> 0]
    /\ chain = [g \in G |-> <<>>]
    /\ ahead = [g \in G |-> {}]

-----------------------------------------------------------------------------
Goto(g, p) == pc' = [pc EXCEPT ![g] = p]

\* A call returns; its locals are forgotten.
Forget(f, g) == [f EXCEPT ![g] = 0]

\* Unsigned 32-bit arithmetic.
Plus1(t) == (t + 1) % (2 * Half)
Minus(s, t) == (s - t) % (2 * Half)

\* runtime_notify_less: the difference as a signed number is negative.
Less(s, t) == Minus(s, t) >= Half

\* Those in line hold the tickets notify, ..., wait - 1: they are linked, or have
\* a ticket that Wait will not find passed.  Somebody a notifier has unlinked is
\* out of line whatever its ticket: while it waits in the chain the counters may
\* come round to the ticket again.
InLine(g) == \/ \E i \in DOMAIN list : list[i] = g
             \/ pc[g] = "added" /\ ~Less(ticket[g], notify)

\* A notifier's call has its effect, if any, in this step.
Ends(g) ==
    ahead' = [h \in G |-> IF h = g THEN {} ELSE {k \in ahead[h] : InLine(k)'}]

\* Bound: the counters are never half their range ahead of a ticket somebody
\* still has to compare.
InWindow == \A g \in G : pc[g] = "added" => Minus(wait, ticket[g]) < Half - 1

Add(g) ==
    /\ pc[g] = "idle" /\ InWindow
    /\ ticket' = [ticket EXCEPT ![g] = wait]
    /\ wait' = Plus1(wait)
    /\ Goto(g, "added")
    /\ UNCHANGED <<notify, list, old, chain, ahead>>

Wait(g) ==
    /\ pc[g] = "added"
    /\ IF Less(ticket[g], notify)
       THEN Goto(g, "idle") /\ ticket' = Forget(ticket, g) /\ UNCHANGED list
       ELSE Goto(g, "parked") /\ list' = Append(list, g) /\ UNCHANGED ticket
    /\ UNCHANGED <<wait, notify, old, chain, ahead>>

\* Broadcast and Signal begin without the lock: if no ticket is out they
\* return.
LoadWait(g, p) ==
    /\ pc[g] = "idle"
    /\ old' = [old EXCEPT ![g] = wait]
    /\ Goto(g, p)
    /\ ahead' = [ahead EXCEPT ![g] = {h \in G : InLine(h)}]
    /\ UNCHANGED <<wait, notify, list, ticket, chain>>

LoadNotify(g, p, q) ==
    /\ pc[g] = p
    /\ old' = Forget(old, g)
    /\ UNCHANGED <<wait, notify, list, ticket, chain>>
    /\ IF old[g] = notify THEN Goto(g, "idle") /\ Ends(g)
       ELSE Goto(g, q) /\ UNCHANGED ahead

\* Mutant: the list is not emptied.
NotifyAllKeeps(g) ==
    /\ pc[g] = "allLock"
    /\ chain' = [chain EXCEPT ![g] = list]
    /\ notify' = wait
    /\ Goto(g, "walk")
    /\ UNCHANGED <<wait, list, ticket, old>>
    /\ Ends(g)

\* runtime_notifyListNotifyAll, under the lock
NotifyAll(g) ==
    /\ pc[g] = "allLock"
    /\ chain' = [chain EXCEPT ![g] = list]
    /\ list' = <<>>
    /\ notify' = wait
    /\ Goto(g, "walk")
    /\ UNCHANGED <<wait, ticket, old>>
    /\ Ends(g)

\* The place of the record with ticket t; its goroutine may not be in the list
\* yet.
Holder(t) == {i \in DOMAIN list : ticket[list[i]] = t}

\* Mutant: the counter goes on only if a record was found.
NotifyOneLinked(g) ==
    /\ pc[g] = "oneLock"
    /\ IF notify = wait \/ Holder(notify) = {}
       THEN Goto(g, "idle") /\ UNCHANGED <<notify, list, chain>>
       ELSE \E i \in Holder(notify) :
            /\ notify' = Plus1(notify)
            /\ list' = RemoveAt(list, i)
            /\ chain' = [chain EXCEPT ![g] = <<list[i]>>]
            /\ Goto(g, "walk")
    /\ UNCHANGED <<wait, ticket, old>>
    /\ Ends(g)

\* runtime_notifyListNotifyOne, under the lock
NotifyOne(g) ==
    /\ pc[g] = "oneLock"
    /\ IF notify = wait
       THEN Goto(g, "idle") /\ UNCHANGED <<notify, list, chain>>
       ELSE /\ notify' = Plus1(notify)
            /\ IF Holder(notify) = {}
               THEN Goto(g, "idle") /\ UNCHANGED <<list, chain>>
               ELSE \E i \in Holder(notify) :
                    /\ list' = RemoveAt(list, i)
                    /\ chain' = [chain EXCEPT ![g] = <<list[i]>>]
                    /\ Goto(g, "walk")
    /\ UNCHANGED <<wait, ticket, old>>
    /\ Ends(g)

\* Ready the unlinked goroutines one by one.  The link to the next is read
\* before the ready, for the record is on the stack of the goroutine that runs.
Walk(g) ==
    /\ pc[g] = "walk"
    /\ IF chain[g] = <<>>
       THEN Goto(g, "idle") /\ UNCHANGED <<chain, ticket>>
       ELSE /\ Goto(Head(chain[g]), "idle")
            /\ ticket' = Forget(ticket, Head(chain[g]))
            /\ chain' = [chain EXCEPT ![g] = Tail(@)]
    /\ UNCHANGED <<wait, notify, list, old, ahead>>

Call(g) == Add(g) \/ LoadWait(g, "all") \/ LoadWait(g, "one")

Step(g) ==
    \/ Wait(g) \/ NotifyAll(g) \/ NotifyOne(g) \/ Walk(g)
    \/ LoadNotify(g, "all", "allLock") \/ LoadNotify(g, "one", "oneLock")

Next == \E g \in G : Call(g) \/ Step(g)

Spec == Init /\ [][Next]_vars

\* A call in progress goes on: the scheduler runs every runnable goroutine.
FairSpec == Spec /\ \A g \in G : WF_vars(Step(g))

-----------------------------------------------------------------------------
\* Wait records live on the stacks of their goroutines: a record is in the list
\* or in one notifier's chain, once, and only while its goroutine is parked.
Places == {<<None, i>> : i \in DOMAIN list}
          \cup UNION {{<<g, i>> : i \in DOMAIN chain[g]} : g \in G}
Record(p) == IF p[1] = None THEN list[p[2]] ELSE chain[p[1]][p[2]]

StackRecords ==
    \A p, q \in Places : /\ pc[Record(p)] = "parked"
                         /\ Record(p) = Record(q) => p = q

-----------------------------------------------------------------------------
\* Refinement.
inside == {g \in G : pc[g] \in {"added", "parked"}}

called == [g \in G |-> CASE pc[g] \in {"one", "oneLock"} -> "signal"
                         [] pc[g] \in {"all", "allLock"} -> "broadcast"
                         [] OTHER -> "none"]

line == [i \in 1..Minus(wait, notify) |->
            CHOOSE g \in G : InLine(g) /\ Minus(ticket[g], notify) = i - 1]

Abs == INSTANCE AbsNotify

\* Goroutines are let go in the order of their tickets, at once if they have
\* not gone to sleep yet; those let go return, and nobody else does, however
\* the counters wrap.  A Signal or Broadcast has no effect only if everybody who
\* was in line when it was called has been let go by others since: the test
\* without the lock loses nobody who was there before the call.
Promise == Abs!AbsFairSpec
=============================================================================
