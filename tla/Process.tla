------------------------------- MODULE Process -------------------------------
(***************************************************************************)
(* A child process that os.StartProcess started: its threads, of which the *)
(* parent learns from an area of memory both have open, and Wait, Kill and *)
(* Release in the parent.  Word 0 of the area tells the child to stop,     *)
(* word i holds the identifier of the worker in slot i.                    *)
(*                                                                         *)
(* A thread that was terminated takes no further step; the kernel removes  *)
(* it later.  Identifiers are not used again.  No worker starts before the *)
(* child opened the area, in the initialisation of package os.             *)
(*                                                                         *)
(* Of the child's locks the model has the two that a starting thread needs *)
(* and of StopWorld only who has stopped the world: a thread that asks for *)
(* a lock meanwhile waits.                                                 *)
(***************************************************************************)
EXTENDS FiniteSets

CONSTANTS
    W,        \* workers that the child may start, each in a slot of its own
    Main,     \* the child's main thread
    Nobody

ASSUME ProcessAssumption == IsFiniteSet(W) /\ Main \notin W /\ Nobody \notin W \cup {Main}

T == W \cup {Main}
Locks == {"sched", "m"}

VARIABLES
    stop,     \* control.words[0]
    word,     \* workers whose identifier is in control.words
    pc,       \* what each thread of the child does
    held,     \* who holds runtime_sched_lock and runtime_m_lock
    stopper,  \* who has stopped the world
    allm,     \* runtime_allm
    sweep,    \* the threads of it that runtime_exit_process has still to look at
    sigMu,    \* Kill holds p.sigMu
    released, \* p.Pid is -1
    waiting,  \* p.nativeWaitStarted
    gone,     \* p.done()
    killed,   \* nativeKilled, of p and of the reaper that Release starts
    kill,     \* Kill: [pc, left], left the slots to look at
    wait,     \* Wait or the reaper: [pc, left, reaper, killed]
    told      \* history: a Kill returned nil

child == <<word, pc, held, stopper, allm, sweep>>
handle == <<sigMu, released, waiting, gone, killed>>
vars == <<stop, child, handle, kill, wait, told>>

TypeOK ==
    /\ stop \in BOOLEAN
    /\ word \subseteq W
    /\ pc \in [T -> {"none", "start", "new", "linking", "linked", "listing",
                     "listed", "published", "checked", "run", "queue", "collect",
                     "spawn", "counting", "create", "failed", "uncounting",
                     "exit", "sweep", "leave", "unlist", "zombie", "dead"}]
    /\ held \in [Locks -> T \cup {Nobody}]
    /\ stopper \in T \cup {Nobody}
    /\ allm \subseteq T /\ sweep \subseteq T
    /\ sigMu \in BOOLEAN /\ released \in BOOLEAN /\ waiting \in BOOLEAN
    /\ gone \in BOOLEAN /\ killed \in BOOLEAN /\ told \in BOOLEAN
    /\ kill \in [pc : {"idle", "stop", "scan", "main", "note"}, left : SUBSET W]
    /\ wait \in [pc : {"idle", "pid", "main", "stop", "scan", "look", "done",
                       "state", "close", "closed", "invalid"},
                 left : SUBSET W, reaper : BOOLEAN, killed : BOOLEAN]

Init ==
    /\ stop = FALSE /\ word = {}
    /\ pc = [t \in T |-> IF t = Main THEN "start" ELSE "none"]
    /\ held = [l \in Locks |-> Nobody] /\ stopper = Nobody
    /\ allm = {Main} /\ sweep = {}
    /\ sigMu = FALSE /\ released = FALSE /\ waiting = FALSE
    /\ gone = FALSE /\ killed = FALSE /\ told = FALSE
    /\ kill = [pc |-> "idle", left |-> {}]
    /\ wait = [pc |-> "idle", left |-> {}, reaper |-> FALSE, killed |-> FALSE]

-----------------------------------------------------------------------------
\* The child.
parent == <<stop, handle, kill, wait, told>>
lists == <<word, allm, sweep>>

Step(t, p, q) == pc[t] = p /\ pc' = [pc EXCEPT ![t] = q]

\* runtime_getm: a thread that no list knows yet passes for the main thread.
Getm(t) == IF pc[t] = "new" THEN Main ELSE t

\* The poll in runtime_lock_mutex, in which a thread waits for the world.
Halted(t) == stopper \notin {Nobody, Getm(t)}

Lock(t, l) ==
    /\ held[l] = Nobody /\ ~Halted(t)
    /\ held' = [held EXCEPT ![l] = t]
    /\ UNCHANGED stopper
Unlock(t, l) == held' = [held EXCEPT ![l] = Nobody] /\ UNCHANGED stopper
NoLock == UNCHANGED <<held, stopper>>

\* runtime_kolibri_process_thread_control, before any worker.
Attach ==
    /\ Step(Main, "start", IF stop THEN "exit" ELSE "run")
    /\ NoLock /\ UNCHANGED <<parent, lists>>

\* The run queue, goroutines that end, sleepers: under runtime_sched_lock.
Queue(t) ==
    /\ Step(t, "run", "queue") /\ Lock(t, "sched")
    /\ UNCHANGED <<parent, lists>>

Queued(t) ==
    /\ Step(t, "queue", "run") /\ Unlock(t, "sched")
    /\ UNCHANGED <<parent, lists>>

\* runtime_stop_world and runtime_start_world.
Collect(t) ==
    /\ Step(t, "run", "collect")
    /\ stopper' = t
    /\ UNCHANGED <<parent, lists, held>>

Collected(t) ==
    /\ Step(t, "collect", "run")
    /\ stopper' = Nobody
    /\ UNCHANGED <<parent, lists, held>>

\* runtime_spawn_m_with_start: not when the child is to stop ...
Spawn(t) ==
    /\ Step(t, "run", "spawn") /\ ~stop
    /\ NoLock /\ UNCHANGED <<parent, lists>>

\* ... the count of pending threads, which the lock is for ...
Count(t) ==
    /\ Step(t, "spawn", "counting") /\ Lock(t, "m")
    /\ UNCHANGED <<parent, lists>>

Counted(t) ==
    /\ Step(t, "counting", "create") /\ Unlock(t, "m")
    /\ UNCHANGED <<parent, lists>>

\* ... and the thread ...
Create(t, w) ==
    /\ pc[t] = "create" /\ pc[w] = "none"
    /\ pc' = [pc EXCEPT ![t] = "run", ![w] = "new"]
    /\ NoLock /\ UNCHANGED <<parent, lists>>

\* ... for which there may be no memory, or no slot.
CreateFails(t) ==
    /\ Step(t, "create", "failed")
    /\ NoLock /\ UNCHANGED <<parent, lists>>

Uncount(t) ==
    /\ Step(t, "failed", "uncounting") /\ Lock(t, "m")
    /\ UNCHANGED <<parent, lists>>

Uncounted(t) ==
    /\ Step(t, "uncounting", "run") /\ Unlock(t, "m")
    /\ UNCHANGED <<parent, lists>>

\* runtime_m_start: runtime_allg_add ...
EnterAllg(w) ==
    /\ Step(w, "new", "linking") /\ Lock(w, "sched")
    /\ UNCHANGED <<parent, lists>>

AddToAllg(w) ==
    /\ Step(w, "linking", "linked") /\ Unlock(w, "sched")
    /\ UNCHANGED <<parent, lists>>

\* ... and runtime_allm_add: the list ...
EnterList(w) ==
    /\ Step(w, "linked", "listing") /\ Lock(w, "m")
    /\ UNCHANGED <<parent, lists>>

AddToList(w) ==
    /\ Step(w, "listing", "listed") /\ Unlock(w, "m")
    /\ allm' = allm \cup {w}
    /\ UNCHANGED <<parent, word, sweep>>

\* ... the identifier ...
Publish(w) ==
    /\ Step(w, "listed", "published")
    /\ word' = word \cup {w}
    /\ NoLock /\ UNCHANGED <<parent, allm, sweep>>

\* Mutant: a thread that just started is not asked to stop.
CheckNot(w) ==
    /\ Step(w, "published", "checked")
    /\ NoLock /\ UNCHANGED <<parent, lists>>

\* ... and the word to stop, before the thread runs anything else.
Check(w) ==
    /\ Step(w, "published", IF stop THEN "zombie" ELSE "checked")
    /\ NoLock /\ UNCHANGED <<parent, lists>>

\* runtime_bind_m, from which on runtime_exit_process finds it.
Bind(w) ==
    /\ Step(w, "checked", "run")
    /\ NoLock /\ UNCHANGED <<parent, lists>>

\* runtime_kolibri_exit_thread.
Leave(w) ==
    /\ Step(w, "run", "unlist") /\ Lock(w, "m")
    /\ UNCHANGED <<parent, lists>>

Unlist(w) ==
    /\ Step(w, "unlist", "zombie") /\ Unlock(w, "m")
    /\ allm' = allm \ {w}
    /\ UNCHANGED <<parent, word, sweep>>

\* A fault ends a thread outside the runtime's view.
Fault(t) ==
    /\ Step(t, "run", "zombie")
    /\ NoLock /\ UNCHANGED <<parent, lists>>

Alive(t) == pc[t] \notin {"none", "zombie", "dead"}
Terminate(S) == pc' = [t \in T |-> IF t \in S /\ Alive(t) THEN "zombie" ELSE pc[t]]

\* runtime_exit_process, by the main thread or another: under the lock it passes
\* the list once and terminates every other thread that is bound ...
Exit(t) ==
    /\ Step(t, "run", "exit")
    /\ NoLock /\ UNCHANGED <<parent, lists>>

ExitLock(t) ==
    /\ Step(t, "exit", "sweep") /\ Lock(t, "m")
    /\ sweep' = allm \ {t}
    /\ UNCHANGED <<parent, word, allm>>

Bound(u) ==
    u = Main \/ pc[u] \in {"run", "queue", "collect", "spawn", "counting", "create",
                           "failed", "uncounting", "exit"}

Sweep(t) ==
    /\ pc[t] = "sweep"
    /\ \E u \in sweep : /\ sweep' = sweep \ {u}
                        /\ IF Bound(u) THEN Terminate({u}) ELSE UNCHANGED pc
    /\ NoLock /\ UNCHANGED <<parent, word, allm>>

Swept(t) ==
    /\ sweep = {} /\ Step(t, "sweep", "leave") /\ Unlock(t, "m")
    /\ UNCHANGED <<parent, lists>>

\* ... then itself.
ExitSelf(t) ==
    /\ Step(t, "leave", "zombie")
    /\ NoLock /\ UNCHANGED <<parent, lists>>

\* The kernel frees the slot.
RemoveThread(t) ==
    /\ Step(t, "zombie", "dead")
    /\ NoLock /\ UNCHANGED <<parent, lists>>

Slot(t) == pc[t] \notin {"none", "dead"}

-----------------------------------------------------------------------------
\* Kill.
rest == <<held, stopper, lists>>

\* An error, or else under p.sigMu ...
Kill ==
    /\ kill.pc = "idle" /\ ~sigMu
    /\ ~released /\ ~gone /\ Slot(Main)
    /\ sigMu' = TRUE
    /\ kill' = [kill EXCEPT !.pc = "stop"]
    /\ UNCHANGED <<stop, child, released, waiting, gone, killed, wait, told>>

\* ... terminateWorkers: the word to stop first, then the slots ...
KillStop ==
    /\ kill.pc = "stop" /\ stop' = TRUE
    /\ kill' = [pc |-> "scan", left |-> W]
    /\ UNCHANGED <<child, handle, wait, told>>

\* One slot: an identifier whose thread is there.
Found(w) == w \in word /\ Slot(w)

KillScan ==
    /\ kill.pc = "scan"
    /\ \/ \E w \in kill.left :
             /\ IF Found(w) THEN Terminate({w}) ELSE UNCHANGED pc
             /\ kill' = [kill EXCEPT !.left = @ \ {w}]
       \/ /\ kill.left = {} /\ UNCHANGED pc
          /\ kill' = [kill EXCEPT !.pc = "main"]
    /\ UNCHANGED <<stop, rest, handle, wait, told>>

\* ... the main thread, if it is still there ...
KillMain ==
    /\ kill.pc = "main"
    /\ IF Slot(Main)
       THEN /\ Terminate({Main}) /\ kill' = [kill EXCEPT !.pc = "note"]
            /\ UNCHANGED sigMu
       ELSE /\ kill' = [kill EXCEPT !.pc = "idle"] /\ sigMu' = FALSE
            /\ UNCHANGED pc
    /\ UNCHANGED <<stop, rest, released, waiting, gone, killed, wait, told>>

\* ... and nil is returned.
KillNote ==
    /\ kill.pc = "note"
    /\ killed' = TRUE /\ told' = TRUE /\ sigMu' = FALSE
    /\ kill' = [kill EXCEPT !.pc = "idle"]
    /\ UNCHANGED <<stop, child, released, waiting, gone, wait>>

-----------------------------------------------------------------------------
\* Release, under p.sigMu: if Wait was not called, a reaper waits, which has a
\* Process of its own.
Release ==
    /\ ~sigMu /\ ~released
    /\ released' = TRUE
    /\ IF waiting THEN UNCHANGED <<waiting, wait>>
       ELSE /\ waiting' = TRUE
            /\ wait' = [wait EXCEPT !.pc = "main", !.reaper = TRUE,
                                    !.killed = killed]
    /\ UNCHANGED <<stop, child, sigMu, gone, killed, kill, told>>

\* Wait: the first of all calls goes on ...
Wait ==
    /\ wait.pc = "idle" /\ ~waiting
    /\ waiting' = TRUE
    /\ wait' = [wait EXCEPT !.pc = "pid"]
    /\ UNCHANGED <<stop, child, sigMu, released, gone, killed, kill, told>>

waiter == <<stop, child, handle, kill, told>>
WaitGo(p, q) == wait.pc = p /\ wait' = [wait EXCEPT !.pc = q]

\* ... EINVAL after a Release in between ...
WaitPid ==
    /\ ~sigMu
    /\ WaitGo("pid", IF released THEN "invalid" ELSE "main")
    /\ UNCHANGED waiter

\* Mutant: workers are left to end by themselves.
WaitMainOnly ==
    /\ ~Slot(Main)
    /\ wait.pc = "main" /\ wait' = [wait EXCEPT !.pc = "look", !.left = W]
    /\ UNCHANGED waiter

\* ... until the main thread is gone ...
WaitMain ==
    /\ ~Slot(Main)
    /\ WaitGo("main", "stop")
    /\ UNCHANGED waiter

\* Mutant: the word to stop is left to Kill.
WaitStopNot ==
    /\ wait.pc = "stop"
    /\ UNCHANGED stop /\ wait' = [wait EXCEPT !.pc = "scan", !.left = W]
    /\ UNCHANGED <<child, handle, kill, told>>

\* ... terminateWorkers ...
WaitStop ==
    /\ wait.pc = "stop"
    /\ stop' = TRUE /\ wait' = [wait EXCEPT !.pc = "scan", !.left = W]
    /\ UNCHANGED <<child, handle, kill, told>>

WaitScan ==
    /\ wait.pc = "scan"
    /\ \/ \E w \in wait.left :
             /\ IF Found(w) THEN Terminate({w}) ELSE UNCHANGED pc
             /\ wait' = [wait EXCEPT !.left = @ \ {w}]
       \/ /\ wait.left = {} /\ UNCHANGED pc
          /\ wait' = [wait EXCEPT !.pc = "look", !.left = W]
    /\ UNCHANGED <<stop, rest, handle, kill, told>>

\* ... waitWorkers: a pass over the slots that finds none ...
WaitLook ==
    /\ wait.pc = "look"
    /\ \/ \E w \in wait.left :
             wait' = [wait EXCEPT !.left = IF Found(w) THEN W ELSE @ \ {w}]
       \/ wait.left = {} /\ wait' = [wait EXCEPT !.pc = "done"]
    /\ UNCHANGED waiter

\* ... setDone, of p or of the reaper's Process ...
WaitDone ==
    /\ WaitGo("done", "state")
    /\ gone' = (gone \/ ~wait.reaper)
    /\ UNCHANGED <<stop, child, sigMu, released, waiting, killed, kill, told>>

\* Mutant: nativeKilled is read without p.sigMu.
StateUnlocked ==
    /\ wait.pc = "state"
    /\ wait' = [wait EXCEPT !.pc = "close", !.killed = IF wait.reaper THEN @ ELSE killed]
    /\ UNCHANGED waiter

\* ... nativeKilled, under p.sigMu ...
WaitState ==
    /\ wait.pc = "state" /\ (sigMu => wait.reaper)
    /\ wait' = [wait EXCEPT !.pc = "close", !.killed = IF wait.reaper THEN @ ELSE killed]
    /\ UNCHANGED waiter

\* ... and the area is closed.
WaitClose ==
    /\ WaitGo("close", "closed")
    /\ UNCHANGED waiter

-----------------------------------------------------------------------------
KillSteps == KillStop \/ KillScan \/ KillMain \/ KillNote
WaitSteps ==
    \/ WaitPid \/ WaitMain \/ WaitStop \/ WaitScan \/ WaitLook
    \/ WaitDone \/ WaitState \/ WaitClose

\* What a thread does without being asked to.
Runs(t) ==
    \/ Queued(t)
    \/ Count(t) \/ Counted(t) \/ CreateFails(t) \/ \E w \in W : Create(t, w)
    \/ Uncount(t) \/ Uncounted(t)
    \/ ExitLock(t) \/ Sweep(t) \/ Swept(t) \/ ExitSelf(t) \/ RemoveThread(t)
Starts(w) ==
    \/ EnterAllg(w) \/ AddToAllg(w) \/ EnterList(w) \/ AddToList(w)
    \/ Publish(w) \/ Check(w) \/ Bind(w) \/ Unlist(w)

Next ==
    \/ Attach
    \/ \E t \in T : \/ Queue(t) \/ Collect(t) \/ Collected(t)
                 \/ Spawn(t) \/ Fault(t) \/ Exit(t) \/ Runs(t)
    \/ \E w \in W : Leave(w) \/ Starts(w)
    \/ Kill \/ Release \/ Wait
    \/ KillSteps \/ WaitSteps

Spec == Init /\ [][Next]_vars

Fairness ==
    /\ WF_vars(KillSteps) /\ WF_vars(WaitSteps)
    /\ \A t \in T : WF_vars(Runs(t))
    /\ \A w \in W : WF_vars(Starts(w))
FairSpec == Spec /\ Fairness

-----------------------------------------------------------------------------
\* Properties.

Running(t) ==
    pc[t] \in {"checked", "run", "queue", "collect", "spawn", "counting", "create",
               "failed", "uncounting", "exit", "sweep", "leave", "unlist"}

\* Once Wait is over, no thread of the child runs a goroutine, now or later:
\* a worker that was starting meanwhile finds the word to stop.
NoneRuns == wait.pc \in {"done", "state", "close", "closed"} => \A t \in T : ~Running(t)

\* If a Kill returned nil, Wait says that the child was killed.
KillTold == told /\ wait.pc \in {"close", "closed"} => wait.killed

\* A thread that is terminated keeps its lock, and the world stopped.
LockLost(l) == held[l] # Nobody /\ ~Alive(held[l])
WorldLost(t) == Halted(t) /\ ~Alive(stopper)

\* A starting thread waits for ever for the first lock it needs, or the second.
Stuck(w) ==
    \/ pc[w] = "new" /\ (LockLost("sched") \/ WorldLost(w))
    \/ pc[w] = "linked" /\ (LockLost("m") \/ WorldLost(w))

\* Of a child that was told to stop no worker is left in the end: those that were
\* starting exit themselves.  The exception is a starting worker that is stuck,
\* since a thread was terminated that held the lock it needs next, or that had
\* stopped the world.
StartingExits ==
    <>[](stop => \A w \in W : pc[w] \in {"none", "dead"} \/ Stuck(w))

\* After Wait or Release was called and the main thread is gone, the child is
\* waited for to the end, unless a Release came in the midst of a Wait.
Reaped == waiting /\ ~Slot(Main) ~> wait.pc \in {"closed", "invalid"}
=============================================================================
