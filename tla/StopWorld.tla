------------------------------ MODULE StopWorld ------------------------------
(***************************************************************************)
(* Stopping the world for a collection: runtime_stop_world and             *)
(* runtime_poll_world_stop, the poll inside every runtime_lock_mutex, and  *)
(* the threads that start, exit, allocate and collect around them.         *)
(*                                                                         *)
(* A step reads or writes one shared word, with these exceptions: the      *)
(* stopper's identity is read and written with runtime_world_stopping, and *)
(* what a critical section does is one step with the unlock.               *)
(*                                                                         *)
(* The locks are runtime_gc_lock ("gc"), runtime_sched_lock ("sched"),     *)
(* runtime_m_lock ("m"), and those a collector takes with the world        *)
(* stopped: runtime_pool_lock ("pool"), the lock of a size class           *)
(* ("central", one class stands for all: a thread has one of them at a     *)
(* time) and that of runtime_gc_page_entry_fixalloc ("entries").  Inside   *)
(* each of the last three runtime_persistent_lock may be taken.            *)
(* runtime_m_count is the number of members of runtime_allm: both change   *)
(* together under runtime_m_lock.                                          *)
(***************************************************************************)
EXTENDS Naturals, FiniteSets

CONSTANTS
    T,        \* threads
    Main,     \* the thread of runtime_m0
    Running,  \* the threads that run to begin with
    Nobody,   \* no thread
    Asks      \* what each thread asks for, of Requests: a bound

\* runtime_pool_malloc whose local lists are empty; a small object that comes
\* from the list of its class, for which a single thread takes no lock;
\* runtime_persistent_alloc by itself; a thread is started, or exits for good.
Requests == {"alloc", "small", "persist", "spawn", "exit"}

ASSUME StopWorldAssumption ==
    /\ Asks \in [T -> SUBSET Requests]
    /\ IsFiniteSet(T)
    /\ Main \in Running /\ Running \subseteq T
    /\ Nobody \notin T

VARIABLES
    at,        \* what a thread does next
    goal,      \* why it polls, locks or stops the world
    owner,     \* who holds each lock
    stopping,  \* runtime_world_stopping
    stopper,   \* whose tid runtime_world_stopper_tid is
    waiting,   \* runtime_world_waiting
    seen,      \* the value of it that a stopper has loaded
    round,     \* first or second collection of a call
    linked,    \* threads whose g0 is in runtime_allg
    members,   \* threads in runtime_allm
    doubts     \* history: why a thread's stop may return too early

worldVars ==
    <<at, goal, owner, stopping, stopper, waiting, seen, round, linked, members,
      doubts>>
world == <<stopping, stopper, waiting, seen, doubts>>
threads == <<round, linked, members>>

Locks == {"gc", "sched", "m", "pool", "central", "entries", "persistent"}

\* The lock each goal needs; the scheduler only polls.
LockOf == [collect |-> "gc", stats |-> "gc", link |-> "sched",
           register |-> "m", spawn |-> "m", exit |-> "m",
           alloc |-> "pool", small |-> "central", index |-> "entries",
           persist |-> "persistent",
           unindex |-> "entries", push |-> "central", sweep |-> "pool"]
Goals == DOMAIN LockOf \cup {"poll"}

\* A lock under which runtime_persistent_alloc may be called, and one that the
\* sweep needs.
Growing == {"alloc", "small", "index"}
Sweeping == {"unindex", "push", "sweep"}

Places == {"absent", "run", "dead", "create",
           "check", "enter", "wait", "leave", "try", "held",
           "stop", "count", "compare", "stopped", "started"}

WorldTypeOK ==
    /\ at \in [T -> Places]
    /\ goal \in [T -> Goals]
    /\ owner \in [Locks -> T \cup {Nobody}]
    /\ stopping \in BOOLEAN
    /\ stopper \in T \cup {Nobody}
    /\ waiting \in 0 .. Cardinality(T)
    /\ seen \in [T -> 0 .. Cardinality(T)]
    /\ round \in [T -> 1 .. 2]
    /\ doubts \in [T -> SUBSET {"leaving", "starting", "alone", "rival"}]
    /\ Main \in members /\ members \subseteq linked /\ linked \subseteq T

WorldInit ==
    /\ at = [t \in T |-> IF t \in Running THEN "run" ELSE "absent"]
    /\ goal = [t \in T |-> "poll"]
    /\ owner = [l \in Locks |-> Nobody]
    /\ stopping = FALSE /\ stopper = Nobody
    /\ waiting = 0 /\ seen = [t \in T |-> 0]
    /\ round = [t \in T |-> 1] /\ doubts = [t \in T |-> {}]
    /\ linked = Running /\ members = Running

-----------------------------------------------------------------------------
GoesTo(t, p) == at' = [at EXCEPT ![t] = p]
Aim(t, g) == goal' = [goal EXCEPT ![t] = g]

\* runtime_getm: a thread that no list knows passes for the main thread.
Getm(t) == IF t \in linked THEN t ELSE Main

\* Mutant: a starting thread does not look at the count.
AloneUncounted == ~stopping

\* runtime_gc_single_thread_fast_path.
Alone == ~stopping /\ Cardinality(members) <= 1

\* A thread stops the world from the first write to the last.
Stops(t) == \/ at[t] \in {"count", "compare", "stopped"}
            \/ goal[t] \in Sweeping

\* A thread that runs and that runtime_m_count does not include yet.
Starting(t) == at[t] \notin {"absent", "dead"} /\ t \notin members

Doubt(d, b) == IF b THEN {d} ELSE {}

-----------------------------------------------------------------------------
\* What Go code calls.

\* runtime_schedule and runtime_kolibri_poll_world_stop.
Poll(t) ==
    /\ at[t] = "run"
    /\ GoesTo(t, "check") /\ Aim(t, "poll")
    /\ UNCHANGED <<owner, world, threads>>

\* What asks for a lock by itself.
Lock(t, g) ==
    /\ at[t] = "run" /\ g \in Asks[t]
    /\ g = "exit" => t # Main
    /\ g = "small" => ~Alone
    /\ GoesTo(t, "check") /\ Aim(t, g)
    /\ UNCHANGED <<owner, world, threads>>

\* runtime_force_gc, runtime_gc_poll and the allocator's collections, which go
\* without the lock when there is one thread ...
Unlocked(t) ==
    doubts' = [doubts EXCEPT ![t] =
                  @ \cup Doubt("alone", \E u \in T : Starting(u))]

Collect(t) ==
    /\ at[t] = "run"
    /\ IF Alone THEN GoesTo(t, "stop") /\ Unlocked(t)
               ELSE GoesTo(t, "check") /\ UNCHANGED doubts
    /\ Aim(t, "collect")
    /\ UNCHANGED <<owner, stopping, stopper, waiting, seen, threads>>

\* ... and runtime_kolibri_read_memstats.
ReadStats(t) ==
    /\ at[t] = "run"
    /\ IF Cardinality(members) > 1
       THEN GoesTo(t, "check") /\ UNCHANGED doubts
       ELSE GoesTo(t, "stop") /\ Unlocked(t)
    /\ Aim(t, "stats")
    /\ UNCHANGED <<owner, stopping, stopper, waiting, seen, threads>>

-----------------------------------------------------------------------------
\* runtime_poll_world_stop and runtime_lock_mutex.

\* Where a thread goes on when it need not wait.
PastPoll(t) == IF goal[t] = "poll" THEN "run" ELSE "try"

Check(t) ==
    /\ at[t] = "check"
    /\ GoesTo(t, IF stopping /\ stopper # Getm(t) THEN "enter" ELSE PastPoll(t))
    /\ UNCHANGED <<goal, owner, world, threads>>

Enter(t) ==
    /\ at[t] = "enter"
    /\ waiting' = waiting + 1
    /\ GoesTo(t, "wait")
    /\ UNCHANGED <<goal, owner, stopping, stopper, seen, doubts, threads>>

SeeStart(t) ==
    /\ at[t] = "wait" /\ ~stopping
    /\ GoesTo(t, "leave")
    /\ UNCHANGED <<goal, owner, world, threads>>

Leave(t) ==
    /\ at[t] = "leave"
    /\ waiting' = waiting - 1
    /\ GoesTo(t, PastPoll(t))
    /\ UNCHANGED <<goal, owner, stopping, stopper, seen, doubts, threads>>

\* Mutant: a thread that finds the lock taken spins without polling.
TryNoPoll(t) ==
    /\ at[t] = "try" /\ owner[LockOf[goal[t]]] = Nobody
    /\ owner' = [owner EXCEPT ![LockOf[goal[t]]] = t] /\ GoesTo(t, "held")
    /\ UNCHANGED <<goal, world, threads>>

\* The compare-and-swap; when it fails the thread polls again.
Try(t) ==
    LET l == LockOf[goal[t]] IN
    /\ at[t] = "try"
    /\ IF owner[l] = Nobody
       THEN owner' = [owner EXCEPT ![l] = t] /\ GoesTo(t, "held")
       ELSE UNCHANGED owner /\ GoesTo(t, "check")
    /\ UNCHANGED <<goal, world, threads>>

-----------------------------------------------------------------------------
\* Under a lock.
Unlock(t, p) ==
    /\ owner' = [owner EXCEPT ![LockOf[goal[t]]] = Nobody]
    /\ GoesTo(t, p)

Holds(t, g) == at[t] = "held" /\ goal[t] = g

\* The pool, the size class or the index is done ...
Allocated(t) ==
    /\ Holds(t, "alloc") \/ Holds(t, "small")
    /\ Unlock(t, "run") /\ Aim(t, "poll")
    /\ UNCHANGED <<world, threads>>

Indexed(t) ==
    /\ Holds(t, "index") /\ Unlock(t, "started") /\ Aim(t, "poll")
    /\ UNCHANGED <<world, threads>>

\* ... or needs memory from runtime_persistent_alloc, for a chunk, what is known
\* of a chunk, or entries: the lock is kept meanwhile.
NeedChunk(t) ==
    /\ \E g \in Growing : Holds(t, g)
    /\ GoesTo(t, "check") /\ Aim(t, "persist")
    /\ UNCHANGED <<owner, world, threads>>

Has(t, g) == owner[LockOf[g]] = t

GotChunk(t) ==
    /\ Holds(t, "persist")
    /\ \/ \E g \in Growing : Has(t, g) /\ Unlock(t, "held") /\ Aim(t, g)
       \/ /\ \A g \in Growing : ~Has(t, g)
          /\ Unlock(t, "run") /\ Aim(t, "poll")
    /\ UNCHANGED <<world, threads>>

\* runtime_spawn_m_with_start: the count of pending threads, then the thread.
Spawn(t) ==
    /\ Holds(t, "spawn") /\ Unlock(t, "create")
    /\ UNCHANGED <<goal, world, threads>>

Create(t) ==
    /\ at[t] = "create"
    /\ \E c \in T : /\ at[c] = "absent"
                    /\ at' = [at EXCEPT ![t] = "run", ![c] = "check"]
                    /\ goal' = [goal EXCEPT ![t] = "poll", ![c] = "link"]
    /\ doubts' = [u \in T |-> doubts[u] \cup Doubt("starting", Stops(u))]
    /\ UNCHANGED <<owner, stopping, stopper, waiting, seen, threads>>

\* The system call fails.
CreateFails(t) ==
    /\ at[t] = "create"
    /\ GoesTo(t, "run") /\ Aim(t, "poll")
    /\ UNCHANGED <<owner, world, threads>>

\* runtime_m_start: runtime_allg_add, then runtime_allm_add.
Link(t) ==
    /\ Holds(t, "link")
    /\ linked' = linked \cup {t}
    /\ Unlock(t, "check") /\ Aim(t, "register")
    /\ UNCHANGED <<world, round, members>>

Register(t) ==
    /\ Holds(t, "register")
    /\ members' = members \cup {t}
    /\ Unlock(t, "run") /\ Aim(t, "poll")
    /\ UNCHANGED <<world, round, linked>>

\* runtime_kolibri_exit_thread.
Exit(t) ==
    /\ Holds(t, "exit")
    /\ members' = members \ {t}
    /\ Unlock(t, "dead") /\ Aim(t, "poll")
    /\ UNCHANGED <<world, round, linked>>

\* The lock of the collector.
Begin(t) ==
    /\ Holds(t, "collect") \/ Holds(t, "stats")
    /\ GoesTo(t, "stop")
    /\ UNCHANGED <<goal, owner, world, threads>>

-----------------------------------------------------------------------------
\* runtime_stop_world, the collection, runtime_start_world.

\* runtime_gc_running: a thread has stopped the world to collect.
Marking == \E t \in T : \/ at[t] = "stopped" /\ goal[t] = "collect"
                        \/ goal[t] \in Sweeping

\* runtime_gc_collect_impl_locked returns at once.
Skip(t) ==
    /\ at[t] = "stop" /\ goal[t] = "collect" /\ Marking
    /\ GoesTo(t, "started")
    /\ UNCHANGED <<goal, owner, world, threads>>

StopWorld(t) ==
    /\ at[t] = "stop"
    /\ goal[t] = "collect" => ~Marking
    /\ stopper' = Getm(t) /\ stopping' = TRUE
    /\ GoesTo(t, "count")
    /\ doubts' = [u \in T |->
          IF u # t THEN doubts[u] \cup Doubt("rival", Stops(u))
          ELSE (doubts[t] \cap {"alone"})
               \cup Doubt("leaving", waiting > 0)
               \cup Doubt("starting", \E v \in T : Starting(v))
               \cup Doubt("rival", \E v \in T : Stops(v))]
    /\ UNCHANGED <<goal, owner, waiting, seen, threads>>

Count(t) ==
    /\ at[t] = "count"
    /\ seen' = [seen EXCEPT ![t] = waiting]
    /\ GoesTo(t, "compare")
    /\ UNCHANGED <<goal, owner, stopping, stopper, waiting, doubts, threads>>

\* Mutant: one thread too few is enough.
EnoughLess(t) == seen[t] + 2 >= Cardinality(members)

Enough(t) == seen[t] + 1 >= Cardinality(members)

Compare(t) ==
    /\ at[t] = "compare"
    /\ GoesTo(t, IF Enough(t) THEN "stopped" ELSE "count")
    /\ seen' = [seen EXCEPT ![t] = 0]
    /\ UNCHANGED <<goal, owner, stopping, stopper, waiting, doubts, threads>>

\* The sweep gives back the entries of large objects, pushes what is free onto
\* the lists of the size classes, and always ends with the pool, each under its
\* lock.  One time stands for all: it takes the first two once for an object or a
\* class, and the pool's also for the block of each large object.
Sweep(t) ==
    /\ at[t] = "stopped" /\ goal[t] = "collect"
    /\ GoesTo(t, "check")
    /\ \E g \in Sweeping : Aim(t, g)
    /\ UNCHANGED <<owner, world, threads>>

SweepOn(t) ==
    /\ \/ Holds(t, "unindex") /\ \E g \in {"push", "sweep"} : Aim(t, g)
       \/ Holds(t, "push") /\ Aim(t, "sweep")
    /\ Unlock(t, "check")
    /\ UNCHANGED <<world, threads>>

Swept(t) ==
    /\ Holds(t, "sweep")
    /\ owner' = [owner EXCEPT !["pool"] = Nobody]
    /\ stopping' = FALSE /\ doubts' = [doubts EXCEPT ![t] = @ \cap {"alone"}]
    /\ GoesTo(t, "started") /\ Aim(t, "collect")
    /\ UNCHANGED <<stopper, waiting, seen, threads>>

StatsRead(t) ==
    /\ at[t] = "stopped" /\ goal[t] = "stats"
    /\ stopping' = FALSE /\ doubts' = [doubts EXCEPT ![t] = @ \cap {"alone"}]
    /\ GoesTo(t, "started")
    /\ UNCHANGED <<goal, owner, stopper, waiting, seen, threads>>

\* A second collection, or the end of the call.
Again(t) ==
    /\ at[t] = "started" /\ goal[t] = "collect" /\ round[t] = 1
    /\ round' = [round EXCEPT ![t] = 2]
    /\ GoesTo(t, "stop")
    /\ UNCHANGED <<goal, owner, world, linked, members>>

\* A large object is linked under the collector's lock, after the collections of
\* its allocation or without one; its second page takes an entry, for which a
\* single thread takes no lock.
Index(t) ==
    /\ goal[t] = "collect" /\ at[t] \in {"held", "started"}
    /\ ~Alone
    /\ round' = [round EXCEPT ![t] = 1]
    /\ GoesTo(t, "check") /\ Aim(t, "index")
    /\ UNCHANGED <<owner, world, linked, members>>

FinishCall(t) ==
    /\ at[t] = "started"
    /\ owner' = IF owner["gc"] = t THEN [owner EXCEPT !["gc"] = Nobody] ELSE owner
    /\ round' = [round EXCEPT ![t] = 1]
    /\ doubts' = [doubts EXCEPT ![t] = {}]
    /\ GoesTo(t, "run") /\ Aim(t, "poll")
    /\ UNCHANGED <<stopping, stopper, waiting, seen, linked, members>>

-----------------------------------------------------------------------------
WorldCall(t) ==
    \/ Poll(t) \/ Collect(t) \/ ReadStats(t)
    \/ \E g \in Asks[t] : Lock(t, g)

WorldStep(t) ==
    \/ Check(t) \/ Enter(t) \/ SeeStart(t) \/ Leave(t) \/ Try(t)
    \/ Allocated(t) \/ Indexed(t) \/ NeedChunk(t) \/ GotChunk(t)
    \/ Spawn(t) \/ Create(t) \/ CreateFails(t)
    \/ Link(t) \/ Register(t) \/ Exit(t)
    \/ Begin(t) \/ Skip(t) \/ StopWorld(t) \/ Count(t) \/ Compare(t)
    \/ Sweep(t) \/ SweepOn(t) \/ Swept(t) \/ StatsRead(t)
    \/ Again(t) \/ Index(t) \/ FinishCall(t)

WorldNext == \E t \in T : WorldCall(t) \/ WorldStep(t)

WorldSpec == WorldInit /\ [][WorldNext]_worldVars

\* Every thread goes on, and one that runs Go code comes to a poll or a lock.
WorldFairness == \A t \in T : WF_worldVars(WorldCall(t) \/ WorldStep(t))
WorldFairSpec == WorldSpec /\ WorldFairness

-----------------------------------------------------------------------------
\* It has the world to itself, or believes so.
Collects(t) == at[t] = "stopped" \/ goal[t] \in Sweeping

\* No two threads stop the world at once, unless one of them took no lock, since
\* it was the only thread, while another was starting.
OneStopper ==
    \A t, u \in T : Stops(t) /\ Stops(u) /\ t # u
                    => "alone" \in doubts[t] \cup doubts[u]

\* While a thread collects, every other thread of the runtime waits.
AllWait(t) == Collects(t) => \A u \in members \ {t} : at[u] = "wait"

\* A collector has the world to itself when nobody was still leaving the stop
\* before, no thread was starting and no other stop came in between: then
\* runtime_stop_world returns only when every other thread waits in
\* runtime_poll_world_stop, with whatever locks it holds, and they wait until the
\* world is started.
SettledStop == \A t \in T : doubts[t] \subseteq {"alone"} => AllWait(t)

\* Two threads stop the world at once.
Rivals == \E t, u \in T : Stops(t) /\ Stops(u) /\ t # u

\* The sweep needs a lock of a thread that waits for the world to start: it is
\* in runtime_persistent_alloc with the lock of the pool, of a size class or of
\* the index.
Blocked(t) ==
    goal[t] \in Sweeping /\ \E u \in T : Has(u, goal[t]) /\ at[u] = "wait"

\* A world that is stopped is started again: the poll in every lock brings all
\* the threads in, those that queue for a lock a waiting thread holds included,
\* and the sweep ends.  The exceptions are a stop that meets another one, and a
\* sweep that needs the lock of a thread that waits for it.
CollectionFinishes ==
    stopping ~> (~stopping \/ Rivals \/ \E t \in T : Blocked(t))
=============================================================================
