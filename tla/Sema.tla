-------------------------------- MODULE Sema --------------------------------
(***************************************************************************)
(* The semaphores of platform/abi/runtime_sync.h, on which sync.Mutex,     *)
(* sync.RWMutex and sync.WaitGroup sleep: one bucket of                    *)
(* runtime_sema_roots, whose queue the callers of all the addresses that   *)
(* hash to it share.                                                       *)
(*                                                                         *)
(* Every access to a semaphore word is a step; a critical section of the   *)
(* bucket's lock contains at most one of them and is one step with it.     *)
(* The load and compare-and-swap loop of runtime_cansemacquire acts as one *)
(* atomic decrement of a positive word.  Parking and runtime_ready are the *)
(* step from "parked" to "woken"; the handshake behind it is in Sched.     *)
(***************************************************************************)
EXTENDS Naturals, Sequences, FiniteSets, SequencesExt

CONSTANTS
    G,          \* goroutines
    Sys,        \* callers on a g0 stack or before the scheduler exists
    A,          \* addresses of semaphore words in this bucket
    MaxTokens,  \* bound on a semaphore word
    None

ASSUME SemaAssumption ==
    /\ IsFiniteSet(G) /\ IsFiniteSet(Sys) /\ G \cap Sys = {}
    /\ MaxTokens \in Nat
    /\ None \notin A /\ None \notin G

VARIABLES
    value,      \* the word at each address
    queue,      \* root->head .. root->tail: whose wait record is linked
    pc,         \* where each caller is
    address,    \* the address its call is about
    ticket,     \* waiter.ticket = 1
    waiter      \* the goroutine a release unlinked and has to ready

callers == G \cup Sys
vars == <<value, queue, pc, address, ticket, waiter>>

PCs == {"idle", "try", "lock", "parked", "woken", "spin", "release", "ready"}

TypeOK ==
    /\ value \in [A -> Nat]
    /\ queue \in Seq(G)
    /\ pc \in [callers -> PCs]
    /\ address \in [callers -> A \cup {None}]
    /\ ticket \in [G -> BOOLEAN]
    /\ waiter \in [callers -> G \cup {None}]

Init ==
    /\ value = [a \in A |-> 0]
    /\ queue = <<>>
    /\ pc = [c \in callers |-> "idle"]
    /\ address = [c \in callers |-> None]
    /\ ticket = [g \in G |-> FALSE]
    /\ waiter = [c \in callers |-> None]

-----------------------------------------------------------------------------
Goto(c, p) == pc' = [pc EXCEPT ![c] = p]

\* The call returns.
Finish(c) == Goto(c, "idle") /\ address' = [address EXCEPT ![c] = None]

\* runtime_cansemacquire that succeeds on the caller's address.
CanAcquire(c) == value[address[c]] > 0
TakeToken(a) == value' = [value EXCEPT ![a] = @ - 1]

\* runtime_semacquire_impl

SemAcquire(c, a) ==
    /\ pc[c] = "idle"
    /\ Goto(c, "try")
    /\ address' = [address EXCEPT ![c] = a]
    /\ UNCHANGED <<value, queue, ticket, waiter>>

\* The fast path; a caller without a goroutine spins from then on.
AcquireFast(c) ==
    /\ pc[c] = "try"
    /\ IF CanAcquire(c)
       THEN TakeToken(address[c]) /\ Finish(c)
       ELSE /\ Goto(c, IF c \in G THEN "lock" ELSE "spin")
            /\ UNCHANGED <<value, address>>
    /\ UNCHANGED <<queue, ticket, waiter>>

AcquireSpin(c) ==
    /\ pc[c] = "spin" /\ CanAcquire(c)
    /\ TakeToken(address[c]) /\ Finish(c)
    /\ UNCHANGED <<queue, ticket, waiter>>

\* Under the bucket's lock: recheck, or link the wait record and park.
AcquireLocked(g, lifo) ==
    /\ pc[g] = "lock"
    /\ IF CanAcquire(g)
       THEN TakeToken(address[g]) /\ Finish(g) /\ UNCHANGED <<queue, ticket>>
       ELSE /\ queue' = IF lifo THEN <<g>> \o queue ELSE Append(queue, g)
            /\ ticket' = [ticket EXCEPT ![g] = FALSE]
            /\ Goto(g, "parked")
            /\ UNCHANGED <<value, address>>
    /\ UNCHANGED waiter

\* Mutant: a woken goroutine returns without a token.
AcquireWokenFree(g) ==
    /\ pc[g] = "woken"
    /\ Finish(g)
    /\ UNCHANGED <<value, queue, ticket, waiter>>

\* Woken up: it was handed a token, or it competes for one again.
AcquireWoken(g) ==
    /\ pc[g] = "woken"
    /\ IF ticket[g]
       THEN Finish(g) /\ UNCHANGED value
       ELSE IF CanAcquire(g)
       THEN TakeToken(address[g]) /\ Finish(g)
       ELSE Goto(g, "lock") /\ UNCHANGED <<value, address>>
    /\ UNCHANGED <<queue, ticket, waiter>>

\* runtime_Semrelease: first the token ...
SemRelease(c, a) ==
    /\ pc[c] = "idle" /\ value[a] < MaxTokens
    /\ value' = [value EXCEPT ![a] = @ + 1]
    /\ Goto(c, "release")
    /\ address' = [address EXCEPT ![c] = a]
    /\ UNCHANGED <<queue, ticket, waiter>>

\* Mutant: the first record of the bucket is taken, whatever its address.
FirstOfBucket(a) == {1}

NoWaiter(a) == \A i \in DOMAIN queue : address[queue[i]] # a

\* The place of the first wait record for address a.
FirstWaiter(a) ==
    {i \in DOMAIN queue : /\ address[queue[i]] = a
                          /\ \A j \in 1..(i - 1) : address[queue[j]] # a}

\* Mutant: the waiter that was found stays linked.
UnlinkNone(q, i) == q

Unlink(q, i) == RemoveAt(q, i)

\* ... then, under the lock, a waiter for the address is unlinked and perhaps
\* handed the token ...
ReleaseLocked(c, handoff) ==
    LET a == address[c] IN
    /\ pc[c] = "release"
    /\ IF NoWaiter(a)
       THEN Finish(c) /\ UNCHANGED <<value, queue, ticket, waiter>>
       ELSE \E i \in FirstWaiter(a) :
            /\ queue' = Unlink(queue, i)
            /\ waiter' = [waiter EXCEPT ![c] = queue[i]]
            /\ IF handoff /\ CanAcquire(c)
               THEN /\ TakeToken(a)
                    /\ ticket' = [ticket EXCEPT ![queue[i]] = TRUE]
               ELSE UNCHANGED <<value, ticket>>
            /\ Goto(c, "ready")
            /\ UNCHANGED address

\* ... and readied.  (After a transfer the releaser also yields its thread.)
ReleaseReady(c) ==
    /\ pc[c] = "ready"
    /\ pc' = [pc EXCEPT ![c] = "idle", ![waiter[c]] = "woken"]
    /\ address' = [address EXCEPT ![c] = None]
    /\ waiter' = [waiter EXCEPT ![c] = None]
    /\ UNCHANGED <<value, queue, ticket>>

Call(c) == \E a \in A : SemAcquire(c, a) \/ SemRelease(c, a)

\* The steps of a call in progress.
Step(c) ==
    \/ AcquireFast(c) \/ AcquireSpin(c) \/ ReleaseReady(c)
    \/ \E handoff \in BOOLEAN : ReleaseLocked(c, handoff)
    \/ /\ c \in G
       /\ AcquireWoken(c) \/ \E lifo \in BOOLEAN : AcquireLocked(c, lifo)

Next == \E c \in callers : Call(c) \/ Step(c)

Spec == Init /\ [][Next]_vars

\* A call in progress goes on: the scheduler runs every runnable goroutine.
FairSpec == Spec /\ \A c \in callers : WF_vars(Step(c))

-----------------------------------------------------------------------------
QueuedFor(a) == {g \in G : /\ address[g] = a
                           /\ \E i \in DOMAIN queue : queue[i] = g}
Unlinked(g) == \E c \in callers : waiter[c] = g

\* A release that has added its token and not looked at the queue yet, or a
\* goroutine it woke that has not looked at the word yet: each will notice one
\* token.
Noticing(a) ==
    {c \in callers :
        /\ address[c] = a
        /\ \/ pc[c] = "release"
           \/ /\ pc[c] \in {"parked", "woken"}
              /\ pc[c] = "woken" \/ Unlinked(c)
              /\ ~ticket[c]}

\* No release is lost between the fast path and the queue, under hash
\* collisions, barging and LIFO requeueing: while somebody is queued for an
\* address, every token there is matched by a call that will notice it.
NoLostRelease ==
    \A a \in A : QueuedFor(a) # {} => value[a] <= Cardinality(Noticing(a))

\* Wait records live on the stacks of their goroutines.  The queue holds each
\* at most once and only while its goroutine is parked, so that no release
\* follows a pointer into a stack that has moved on; and no two releases ready
\* the same goroutine.
StackRecords ==
    /\ \A i \in DOMAIN queue : /\ pc[queue[i]] = "parked"
                               /\ ~Unlinked(queue[i])
    /\ \A i, j \in DOMAIN queue : queue[i] = queue[j] => i = j
    /\ \A c, d \in callers :
        waiter[c] # None => /\ pc[waiter[c]] = "parked"
                            /\ waiter[c] = waiter[d] => c = d

-----------------------------------------------------------------------------
(***************************************************************************)
(* Refinement.  An acquire counts as granted once it was handed a token,   *)
(* even if it still has to be woken.                                       *)
(***************************************************************************)
Acquiring(c) ==
    /\ pc[c] \in {"try", "lock", "spin", "parked", "woken"}
    /\ c \in G => ~(pc[c] \in {"parked", "woken"} /\ ticket[c])

want == [c \in callers |-> IF Acquiring(c) THEN address[c] ELSE None]

Abs == INSTANCE AbsSema WITH G <- callers, avail <- value

\* Every acquire takes exactly one token that a release put there, and tokens
\* and callers of an address do not keep waiting for each other.
Promise == Abs!AbsFairSpec
=============================================================================
