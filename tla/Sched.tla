------------------------------- MODULE Sched -------------------------------
(***************************************************************************)
(* The goroutine scheduler of platform/abi/runtime_gccgo.c: kernel threads *)
(* (Ms) that pass goroutines (Gs) between the run queue, the per-M         *)
(* registers of struct runtime_m, the parking protocol and the sleeper     *)
(* list.                                                                   *)
(*                                                                         *)
(* One action is one access that another thread can observe: an atomic     *)
(* operation on g->parking or m->nextg, a plain write of g->status, or a   *)
(* critical section of runtime_sched_lock.  Reads and writes of state only *)
(* the executing M touches are folded into the neighbouring step.  Only    *)
(* the deadlock scan of M0 holds runtime_sched_lock over several steps, so *)
(* it is the only holder that appears in schedLock.                        *)
(*                                                                         *)
(* Goroutines are arbitrary programs: at each point they may start another *)
(* goroutine or thread, yield, park on a synchronisation object, wake a    *)
(* parked goroutine, sleep, lock themselves to their thread, or exit.  The *)
(* objects (channels, semaphores, condition variables) appear here only as *)
(* the set waitq of goroutines queued on one: whoever removes a goroutine  *)
(* from it, which the object's lock serialises, must call runtime_ready.   *)
(***************************************************************************)
EXTENDS Integers, Sequences, FiniteSets, SequencesExt

CONSTANTS
    M,          \* kernel threads
    G,          \* goroutines (addresses of runtime_g, reused once freed)
    M0,         \* the thread of kolibri_start, &runtime_m0
    Main,       \* the goroutine of runtime_app_entry
    Workers,    \* threads kolibri_start creates when runtime_max_threads > 1
    None        \* NULL; in curg it stands for the thread's own g0

ASSUME SchedAssumption ==
    /\ M0 \in M /\ Main \in G
    /\ Workers \subseteq M \ {M0}
    /\ None \notin M /\ None \notin G
    /\ IsFiniteSet(M) /\ IsFiniteSet(G)

VARIABLES
    pc,         \* where each thread is
    reg,        \* goroutine pointers each thread holds, by register
    tgt,        \* argument of the thread's current runtime_ready
    seen,       \* the local copy of tgt's parking word in runtime_ready
    cand,       \* the idle thread runtime_runq_enqueue found
    ret,        \* where the current ready or enqueue call returns to
    status,     \* g->status
    parking,    \* g->parking
    lockedm,    \* g->lockedm
    runq,       \* runtime_runq_head .. runtime_runq_tail
    deadq,      \* the list runtime_deadg
    allg,       \* the list runtime_allg, newest first
    allm,       \* threads on the list runtime_allm
    waitq,      \* goroutines queued on some synchronisation object
    sleepers,   \* goroutines on the list runtime_sleepers
    nsleep,     \* runtime_sleepers_count
    schedLock,  \* runtime_sched_lock while the deadlock scan holds it
    togo,       \* goroutines the deadlock scan has not read yet
    found,      \* any_runnable, any_running, any_waiting of the scan
    proc        \* the process: running, exited or failed with a deadlock

threads == <<pc, reg>>
frames  == <<tgt, seen, cand, ret>>
gs      == <<status, parking, lockedm>>
lists   == <<runq, deadq, allg, allm>>
waits   == <<waitq, sleepers, nsleep>>
scan    == <<schedLock, togo, found>>
vars    == <<threads, frames, gs, lists, waits, scan, proc>>

\* curg, nextg, deadg, enqg and park_g are fields of struct runtime_m; next and
\* enq are the local of runtime_schedule and the argument of
\* runtime_runq_enqueue; start is start_g of the runtime_m_start_record.
Registers == {"curg", "nextg", "deadg", "enqg", "park_g", "next", "enq",
              "start"}

ReadyPCs == {"ready", "cas1", "cas2", "store"}
PCs == {"none", "mstart", "mready", "sched", "take", "commit", "wake3",
        "poll", "polled", "run", "deq", "scan", "read", "app", "park",
        "spawn", "mark", "enq", "hand", "push", "gone"} \cup ReadyPCs

Statuses == {"free", "runnable", "running", "waiting", "dead"}

TypeOK ==
    /\ pc \in [M -> PCs]
    /\ reg \in [M -> [Registers -> G \cup {None}]]
    /\ tgt \in [M -> G \cup {None}]
    /\ seen \in [M -> 0..3]
    /\ cand \in [M -> M \cup {None}]
    /\ ret \in [M -> {"app", "take", "poll", "polled"}]
    /\ status \in [G -> Statuses]
    /\ parking \in [G -> 0..3]
    /\ lockedm \in [G -> M \cup {None}]
    /\ runq \in Seq(G) /\ allg \in Seq(G)
    /\ deadq \subseteq G /\ allm \subseteq M
    /\ waitq \subseteq G /\ sleepers \subseteq G
    /\ nsleep \in Nat
    /\ schedLock \in {None, M0}
    /\ togo \in Seq(G)
    /\ found \subseteq {"runnable", "running", "waiting"}
    /\ proc \in {"running", "exited", "deadlock"}

Init ==
    /\ pc = [m \in M |-> IF m = M0 THEN "sched"
                         ELSE IF m \in Workers THEN "mstart" ELSE "none"]
    /\ reg = [m \in M |-> [r \in Registers |-> None]]
    /\ tgt = [m \in M |-> None]
    /\ seen = [m \in M |-> 0]
    /\ cand = [m \in M |-> None]
    /\ ret = [m \in M |-> "app"]
    /\ status = [g \in G |-> IF g = Main THEN "runnable" ELSE "free"]
    /\ parking = [g \in G |-> 0]
    /\ lockedm = [g \in G |-> None]
    /\ runq = <<Main>> /\ allg = <<Main>>
    /\ deadq = {} /\ allm = {M0}
    /\ waitq = {} /\ sleepers = {} /\ nsleep = 0
    /\ schedLock = None /\ togo = <<>> /\ found = {}
    /\ proc = "running"

-----------------------------------------------------------------------------
\* Shorthands for the steps below.

At(m, p) == proc = "running" /\ pc[m] = p
Goto(m, p) == pc' = [pc EXCEPT ![m] = p]
Unlocked == schedLock = None

\* Register r of m is set to g; register b of n takes what register a of m
\* holds, and a is cleared.
Put(m, r, g) == [reg EXCEPT ![m][r] = g]
Move(m, a, n, b) == [reg EXCEPT ![m][a] = None, ![n][b] = reg[m][a]]

\* The running goroutine gives its thread back to runtime_schedule: m->curg
\* becomes g0 and the goroutine is left in register r.
SwitchToG0(m, r) == Goto(m, "sched") /\ reg' = Move(m, "curg", m, r)

\* Call runtime_runq_enqueue on register r, or runtime_ready on g, and return to
\* p afterwards.
CallEnqueue(m, r, p) ==
    /\ Goto(m, "enq")
    /\ reg' = IF r = "enq" THEN reg ELSE Move(m, r, m, "enq")
    /\ ret' = [ret EXCEPT ![m] = p]

CallReady(m, g, p) ==
    /\ Goto(m, "ready")
    /\ tgt' = [tgt EXCEPT ![m] = g]
    /\ ret' = [ret EXCEPT ![m] = p]

Return(m) ==
    /\ Goto(m, ret[m])
    /\ ret' = [ret EXCEPT ![m] = "app"]

\* runtime_allg_remove: unlink g if it is on the list.
AllgRemove(g) ==
    LET where == {i \in DOMAIN allg : allg[i] = g} IN
    IF where = {} THEN allg ELSE RemoveAt(allg, CHOOSE i \in where : TRUE)

-----------------------------------------------------------------------------
\* runtime_ready

\* A dead goroutine is left alone; otherwise the parking word is read.
ReadyLoad(m) ==
    LET g == tgt[m] IN
    /\ At(m, "ready")
    /\ IF status[g] = "dead"
       THEN /\ Return(m)
            /\ tgt' = [tgt EXCEPT ![m] = None]
            /\ UNCHANGED seen
       ELSE /\ seen' = [seen EXCEPT ![m] = parking[g]]
            /\ Goto(m, IF parking[g] = 1 THEN "cas1" ELSE "cas2")
            /\ UNCHANGED <<tgt, ret>>
    /\ UNCHANGED <<reg, cand, gs, lists, waits, scan, proc>>

\* The goroutine announced its park but has not committed: cancel it.
ReadyCancel(m) ==
    LET g == tgt[m] IN
    /\ At(m, "cas1")
    /\ IF parking[g] = 1
       THEN /\ parking' = [parking EXCEPT ![g] = 0]
            /\ seen' = [seen EXCEPT ![m] = 0]
            /\ Goto(m, "mark")
       ELSE /\ seen' = [seen EXCEPT ![m] = parking[g]]
            /\ Goto(m, "cas2")
            /\ UNCHANGED parking
    /\ UNCHANGED <<reg, tgt, cand, ret, status, lockedm, lists, waits,
                   scan, proc>>

\* The status write that follows the successful cancel.
ReadyMark(m) ==
    /\ At(m, "mark")
    /\ status' = [status EXCEPT ![tgt[m]] = "running"]
    /\ tgt' = [tgt EXCEPT ![m] = None]
    /\ Return(m)
    /\ UNCHANGED <<reg, seen, cand, parking, lockedm, lists, waits,
                   scan, proc>>

\* Mutant: a committed park is treated like a finished one.
ReadyPendNot(m) ==
    /\ At(m, "cas2")
    /\ seen' = [seen EXCEPT ![m] = 0]
    /\ IF seen[m] = 3
       THEN Return(m) /\ tgt' = [tgt EXCEPT ![m] = None]
       ELSE Goto(m, "store") /\ UNCHANGED <<tgt, ret>>
    /\ UNCHANGED <<reg, cand, gs, lists, waits, scan, proc>>

\* The goroutine committed but its scheduler has not seen it yet: leave 3.
ReadyPend(m) ==
    LET g == tgt[m] IN
    /\ At(m, "cas2")
    /\ IF seen[m] = 2 /\ parking[g] = 2
       THEN /\ parking' = [parking EXCEPT ![g] = 3]
            /\ Return(m)
            /\ tgt' = [tgt EXCEPT ![m] = None]
            /\ seen' = [seen EXCEPT ![m] = 0]
       ELSE /\ UNCHANGED parking
            /\ LET p == IF seen[m] = 2 THEN parking[g] ELSE seen[m] IN
               /\ seen' = [seen EXCEPT ![m] = 0]
               /\ IF p = 3
                  THEN Return(m) /\ tgt' = [tgt EXCEPT ![m] = None]
                  ELSE Goto(m, "store") /\ UNCHANGED <<tgt, ret>>
    /\ UNCHANGED <<reg, cand, status, lockedm, lists, waits, scan,
                   proc>>

\* The goroutine is fully parked: make it runnable and enqueue it.
ReadyParked(m) ==
    LET g == tgt[m] IN
    /\ At(m, "store")
    /\ parking' = [parking EXCEPT ![g] = 0]
    /\ tgt' = [tgt EXCEPT ![m] = None]
    /\ IF status[g] = "waiting"
       THEN /\ status' = [status EXCEPT ![g] = "runnable"]
            /\ reg' = Put(m, "enq", g)
            /\ Goto(m, "enq")
            /\ UNCHANGED ret
       ELSE Return(m) /\ UNCHANGED <<status, reg>>
    /\ UNCHANGED <<seen, cand, lockedm, lists, waits, scan, proc>>

Ready(m) == \/ ReadyLoad(m) \/ ReadyCancel(m) \/ ReadyMark(m)
            \/ ReadyPend(m) \/ ReadyParked(m)

-----------------------------------------------------------------------------
\* runtime_runq_enqueue

\* runtime_find_idle_m: a published thread on its g0 with nothing handed over
\* and nothing half parked.  At "commit" the register park_g stands for the local
\* pg of runtime_schedule, and m->park_g is clear.
Idle(m) ==
    {n \in allm \ {m} : /\ reg[n]["curg"] = None /\ reg[n]["nextg"] = None
                        /\ reg[n]["park_g"] = None \/ pc[n] = "commit"}

EnqueueFind(m) ==
    /\ At(m, "enq")
    /\ IF lockedm[reg[m]["enq"]] = None /\ Idle(m) # {}
       THEN /\ \E n \in Idle(m) : cand' = [cand EXCEPT ![m] = n]
            /\ Goto(m, "hand")
       ELSE Goto(m, "push") /\ UNCHANGED cand
    /\ UNCHANGED <<reg, tgt, seen, ret, gs, lists, waits, scan, proc>>

\* Mutant: a plain store instead of the compare-and-swap.
EnqueueHandStores(m) ==
    LET n == cand[m] IN
    /\ At(m, "hand")
    /\ cand' = [cand EXCEPT ![m] = None]
    /\ reg' = Move(m, "enq", n, "nextg")
    /\ Return(m)
    /\ UNCHANGED <<tgt, seen, gs, lists, waits, scan, proc>>

\* The compare-and-swap of the idle thread's nextg.
EnqueueHand(m) ==
    LET n == cand[m] IN
    /\ At(m, "hand")
    /\ cand' = [cand EXCEPT ![m] = None]
    /\ IF reg[n]["nextg"] = None
       THEN /\ reg' = Move(m, "enq", n, "nextg")
            /\ Return(m)
       ELSE Goto(m, "push") /\ UNCHANGED <<reg, ret>>
    /\ UNCHANGED <<tgt, seen, gs, lists, waits, scan, proc>>

\* Mutant: the goroutine is put at the head of the queue.
PutAtHead(q, g) == <<g>> \o q

PutAtTail(q, g) == Append(q, g)

EnqueuePush(m) ==
    /\ At(m, "push") /\ Unlocked
    /\ runq' = PutAtTail(runq, reg[m]["enq"])
    /\ reg' = Put(m, "enq", None)
    /\ Return(m)
    /\ UNCHANGED <<tgt, seen, cand, gs, deadq, allg, allm, waits, scan,
                   proc>>

Enqueue(m) == EnqueueFind(m) \/ EnqueueHand(m) \/ EnqueuePush(m)

-----------------------------------------------------------------------------
\* runtime_schedule, on the thread's g0

\* Hand over what the goroutine that just stopped left behind: a dead goroutine
\* to the list of the dead, one that yielded to the run queue.
SchedReap(m) ==
    /\ At(m, "sched") /\ Unlocked
    /\ reg[m]["deadg"] # None
    /\ deadq' = deadq \cup {reg[m]["deadg"]}
    /\ reg' = Put(m, "deadg", None)
    /\ UNCHANGED <<pc, frames, gs, runq, allg, allm, waits, scan, proc>>

SchedRequeue(m) ==
    /\ At(m, "sched") /\ reg[m]["deadg"] = None
    /\ IF reg[m]["enqg"] # None
       THEN CallEnqueue(m, "enqg", "take")
       ELSE Goto(m, "take") /\ UNCHANGED <<reg, ret>>
    /\ UNCHANGED <<tgt, seen, cand, gs, lists, waits, scan, proc>>

\* The exchange of nextg, after which m->park_g is cleared; if it was set, the
\* goroutine is in a local until SchedCommit (see Idle).
SchedTake(m) ==
    /\ At(m, "take")
    /\ reg' = Move(m, "nextg", m, "next")
    /\ Goto(m, IF reg[m]["park_g"] = None THEN "poll" ELSE "commit")
    /\ UNCHANGED <<frames, gs, lists, waits, scan, proc>>

\* Mutant: the parking word is cleared only when a wakeup was pending.
SchedCommitKeeps(m) ==
    LET g == reg[m]["park_g"] IN
    /\ At(m, "commit")
    /\ parking' = [parking EXCEPT ![g] = IF @ = 3 THEN 0 ELSE @]
    /\ IF parking[g] = 3
       THEN /\ reg' = Move(m, "park_g", m, "enq")
            /\ Goto(m, "wake3")
       ELSE /\ reg' = Put(m, "park_g", None)
            /\ Goto(m, "poll")
    /\ UNCHANGED <<frames, status, lockedm, lists, waits, scan, proc>>

\* Commit the park with one exchange of the parking word.
SchedCommit(m) ==
    LET g == reg[m]["park_g"] IN
    /\ At(m, "commit")
    /\ parking' = [parking EXCEPT ![g] = 0]
    /\ IF parking[g] = 3
       THEN /\ reg' = Move(m, "park_g", m, "enq")
            /\ Goto(m, "wake3")
       ELSE /\ reg' = Put(m, "park_g", None)
            /\ Goto(m, "poll")
    /\ UNCHANGED <<frames, status, lockedm, lists, waits, scan, proc>>

\* A wakeup was pending: the goroutine goes straight back to a queue.
SchedWake(m) ==
    LET g == reg[m]["enq"] IN
    /\ At(m, "wake3")
    /\ IF status[g] = "waiting"
       THEN /\ status' = [status EXCEPT ![g] = "runnable"]
            /\ CallEnqueue(m, "enq", "poll")
       ELSE /\ Goto(m, "poll")
            /\ reg' = Put(m, "enq", None)
            /\ UNCHANGED <<status, ret>>
    /\ UNCHANGED <<tgt, seen, cand, parking, lockedm, lists, waits,
                   scan, proc>>

\* runtime_poll_sleepers: g is due, so it is unlinked and readied ...
PollDue(m, g) ==
    /\ At(m, "poll") /\ Unlocked
    /\ g \in sleepers
    /\ sleepers' = sleepers \ {g}
    /\ CallReady(m, g, "polled")
    /\ UNCHANGED <<reg, seen, cand, gs, lists, waitq, nsleep, scan,
                   proc>>

\* ... the count drops only after the ready, and the next one is looked for;
PollDrop(m) ==
    /\ At(m, "polled") /\ Unlocked
    /\ nsleep' = nsleep - 1
    /\ Goto(m, "poll")
    /\ UNCHANGED <<reg, frames, gs, lists, waitq, sleepers, scan, proc>>

\* ... until no sleeper is due.
PollDone(m) ==
    /\ At(m, "poll") /\ Unlocked
    /\ Goto(m, IF reg[m]["next"] # None THEN "run" ELSE "deq")
    /\ UNCHANGED <<reg, frames, gs, lists, waits, scan, proc>>

SchedRun(m) ==
    LET g == reg[m]["next"] IN
    /\ At(m, "run")
    /\ status' = [status EXCEPT ![g] = "running"]
    /\ reg' = Move(m, "next", m, "curg")
    /\ Goto(m, "app")
    /\ UNCHANGED <<frames, parking, lockedm, lists, waits, scan, proc>>

\* runtime_free_dead: the goroutine's memory can be reused from here on.
FreeDead(m) ==
    /\ At(m, "deq") /\ Unlocked
    /\ \E g \in deadq :
         /\ deadq' = deadq \ {g}
         /\ allg' = AllgRemove(g)
         /\ status' = [status EXCEPT ![g] = "free"]
         /\ parking' = [parking EXCEPT ![g] = 0]
         /\ lockedm' = [lockedm EXCEPT ![g] = None]
    /\ UNCHANGED <<threads, frames, runq, allm, waits, scan, proc>>

\* Mutant: a goroutine locked to another thread is taken all the same.
AnyQueued(m) == DOMAIN runq

\* Mutant: the queue ends where the goroutine was unlinked.
UnlinkTail(q, i) == SubSeq(q, 1, i - 1)

Unlink(q, i) == RemoveAt(q, i)

\* runtime_runq_dequeue_for_m: the first queued goroutine this thread may run.
Eligible(m) == {i \in DOMAIN runq : lockedm[runq[i]] \in {None, m}}

Dequeue(m) ==
    /\ At(m, "deq") /\ Unlocked /\ deadq = {}
    /\ \E i \in Eligible(m) :
         /\ \A j \in Eligible(m) : i <= j
         /\ reg' = Put(m, "next", runq[i])
         /\ runq' = Unlink(runq, i)
    /\ Goto(m, "run")
    /\ UNCHANGED <<frames, gs, deadq, allg, allm, waits, scan, proc>>

DequeueNone(m) ==
    /\ At(m, "deq") /\ Unlocked /\ deadq = {}
    /\ Eligible(m) = {}
    /\ Goto(m, IF m = M0 THEN "scan" ELSE "sched")
    /\ UNCHANGED <<reg, frames, gs, lists, waits, scan, proc>>

\* Only M0 looks for a deadlock.  It walks runtime_allg under the lock, but
\* status and parking words change without it.
ScanBegin ==
    /\ At(M0, "scan") /\ Unlocked
    /\ schedLock' = M0 /\ togo' = allg /\ found' = {}
    /\ Goto(M0, "read")
    /\ UNCHANGED <<reg, frames, gs, lists, waits, proc>>

ScanRead ==
    /\ At(M0, "read") /\ togo # <<>>
    /\ LET g == Head(togo) IN
       found' = found \cup
           (CASE status[g] = "waiting" /\ parking[g] = 3 -> {"running"}
              [] status[g] \in {"free", "dead"} -> {}
              [] OTHER -> {status[g]})
    /\ togo' = Tail(togo)
    /\ UNCHANGED <<threads, frames, gs, lists, waits, schedLock, proc>>

\* Mutant: the sleeping goroutines are forgotten.
VerdictNoSleepers(f, n) ==
    IF f \cap {"runnable", "running"} # {} THEN "running"
    ELSE IF "waiting" \in f THEN "deadlock" ELSE "exited"

Verdict(f, n) ==
    IF f \cap {"runnable", "running"} # {} \/ n # 0 THEN "running"
    ELSE IF "waiting" \in f THEN "deadlock" ELSE "exited"

ScanEnd ==
    /\ At(M0, "read") /\ togo = <<>>
    /\ schedLock' = None /\ found' = {}
    /\ Goto(M0, "sched")
    /\ proc' = Verdict(found, nsleep)
    /\ UNCHANGED <<reg, frames, gs, lists, waits, togo>>

Schedule(m) ==
    \/ SchedReap(m) \/ SchedRequeue(m) \/ SchedTake(m) \/ SchedCommit(m) \/ SchedWake(m)
    \/ \E g \in G : PollDue(m, g)
    \/ PollDrop(m) \/ PollDone(m) \/ SchedRun(m)
    \/ FreeDead(m) \/ Dequeue(m) \/ DequeueNone(m)
    \/ m = M0 /\ (ScanBegin \/ ScanRead \/ ScanEnd)

-----------------------------------------------------------------------------
\* What the goroutine on m->curg may do next

\* runtime_newg on a free address, left in the caller's enq register.  The name
\* Main stays with the goroutine of main.main, should it end before the others.
NewG(m, g) ==
    /\ status[g] = "free" /\ g # Main
    /\ status' = [status EXCEPT ![g] = "runnable"]
    /\ allg' = <<g>> \o allg
    /\ reg' = Put(m, "enq", g)
    /\ UNCHANGED <<parking, lockedm>>

\* __go_go
Go(m, g) ==
    /\ At(m, "app") /\ Unlocked
    /\ NewG(m, g)
    /\ Goto(m, "enq")
    /\ UNCHANGED <<frames, runq, deadq, allm, waits, scan, proc>>

\* runtime_kolibri_start_locked creates a goroutine with a thread of its own ...
StartLocked(m, g) ==
    /\ At(m, "app") /\ Unlocked
    /\ NewG(m, g)
    /\ Goto(m, "spawn")
    /\ UNCHANGED <<frames, runq, deadq, allm, waits, scan, proc>>

\* ... whose creation succeeds
SpawnThread(m, n) ==
    LET g == reg[m]["enq"] IN
    /\ At(m, "spawn") /\ pc[n] = "none"
    /\ pc' = [[pc EXCEPT ![m] = "app"] EXCEPT ![n] = "mstart"]
    /\ reg' = Move(m, "enq", n, "start")
    /\ lockedm' = [lockedm EXCEPT ![g] = n]
    /\ UNCHANGED <<frames, status, parking, lists, waits, scan, proc>>

\* ... or fails, and the goroutine is freed again.
SpawnFail(m) ==
    LET g == reg[m]["enq"] IN
    /\ At(m, "spawn") /\ Unlocked
    /\ allg' = AllgRemove(g)
    /\ status' = [status EXCEPT ![g] = "free"]
    /\ reg' = Put(m, "enq", None)
    /\ Goto(m, "app")
    /\ UNCHANGED <<frames, parking, lockedm, runq, deadq, allm, waits,
                   scan, proc>>

\* runtime_kolibri_set_threads (GOMAXPROCS) adds a thread without a goroutine.
SpawnWorker(m, n) ==
    /\ At(m, "app") /\ pc[n] = "none"
    /\ Goto(n, "mstart")
    /\ UNCHANGED <<reg, frames, gs, lists, waits, scan, proc>>

Gosched(m) ==
    /\ At(m, "app")
    /\ status' = [status EXCEPT ![reg[m]["curg"]] = "runnable"]
    /\ SwitchToG0(m, "enqg")
    /\ UNCHANGED <<frames, parking, lockedm, lists, waits, scan, proc>>

\* Under the object's lock the goroutine announces the park and queues itself.
ParkRegister(m) ==
    LET g == reg[m]["curg"] IN
    /\ At(m, "app")
    /\ status' = [status EXCEPT ![g] = "waiting"]
    /\ parking' = [parking EXCEPT ![g] = 1]
    /\ waitq' = waitq \cup {g}
    /\ Goto(m, "park")
    /\ UNCHANGED <<reg, frames, lockedm, lists, sleepers, nsleep, scan,
                   proc>>

\* runtime_kolibri_sleep does the same under runtime_sched_lock.
Sleep(m) ==
    LET g == reg[m]["curg"] IN
    /\ At(m, "app") /\ Unlocked
    /\ status' = [status EXCEPT ![g] = "waiting"]
    /\ parking' = [parking EXCEPT ![g] = 1]
    /\ sleepers' = sleepers \cup {g}
    /\ nsleep' = nsleep + 1
    /\ Goto(m, "park")
    /\ UNCHANGED <<reg, frames, lockedm, lists, waitq, scan, proc>>

\* runtime_gopark_after_unlock
ParkSwitch(m) ==
    LET g == reg[m]["curg"] IN
    /\ At(m, "park")
    /\ IF parking[g] = 1
       THEN /\ parking' = [parking EXCEPT ![g] = 2]
            /\ SwitchToG0(m, "park_g")
            /\ UNCHANGED status
       ELSE /\ status' = [status EXCEPT ![g] = "running"]
            /\ Goto(m, "app")
            /\ UNCHANGED <<reg, parking>>
    /\ UNCHANGED <<frames, lockedm, lists, waits, scan, proc>>

\* A send, a release, a notify: dequeue a waiter and ready it.
Wake(m, g) ==
    /\ At(m, "app")
    /\ g \in waitq
    /\ waitq' = waitq \ {g}
    /\ CallReady(m, g, "app")
    /\ UNCHANGED <<reg, seen, cand, gs, lists, sleepers, nsleep, scan,
                   proc>>

LockOSThread(m) ==
    /\ At(m, "app")
    /\ lockedm' = [lockedm EXCEPT ![reg[m]["curg"]] = m]
    /\ UNCHANGED <<threads, frames, status, parking, lists, waits, scan, proc>>

UnlockOSThread(m) ==
    /\ At(m, "app")
    /\ lockedm' = [lockedm EXCEPT ![reg[m]["curg"]] = None]
    /\ UNCHANGED <<threads, frames, status, parking, lists, waits, scan, proc>>

\* runtime_goexit_internal
Goexit(m) ==
    LET g == reg[m]["curg"] IN
    /\ At(m, "app")
    /\ status' = [status EXCEPT ![g] = "dead"]
    /\ SwitchToG0(m, "deadg")
    /\ UNCHANGED <<frames, parking, lockedm, lists, waits, scan, proc>>

\* main.main returned: runtime_app_entry ends the process.
MainReturn(m) ==
    /\ At(m, "app") /\ reg[m]["curg"] = Main
    /\ proc' = "exited"
    /\ UNCHANGED <<threads, frames, gs, lists, waits, scan>>

\* runtime_kolibri_exit_thread: the thread leaves runtime_allm and is gone, with
\* whatever its registers hold; on M0 the process ends.
ExitThread(m) ==
    /\ At(m, "app")
    /\ IF m = M0
       THEN proc' = "exited" /\ UNCHANGED <<pc, allm>>
       ELSE allm' = allm \ {m} /\ Goto(m, "gone") /\ UNCHANGED proc
    /\ UNCHANGED <<reg, frames, gs, runq, deadq, allg, waits, scan>>

Goroutine(m) ==
    \/ \E g \in G : Go(m, g) \/ StartLocked(m, g) \/ Wake(m, g)
    \/ \E n \in M : SpawnThread(m, n) \/ SpawnWorker(m, n)
    \/ SpawnFail(m)
    \/ Gosched(m) \/ ParkRegister(m) \/ Sleep(m) \/ ParkSwitch(m)
    \/ LockOSThread(m) \/ UnlockOSThread(m)
    \/ Goexit(m) \/ MainReturn(m) \/ ExitThread(m)

-----------------------------------------------------------------------------
\* runtime_m_start: a new thread publishes itself, then takes its goroutine.

MPublish(m) ==
    /\ At(m, "mstart")
    /\ allm' = allm \cup {m}
    /\ Goto(m, "mready")
    /\ UNCHANGED <<reg, frames, gs, runq, deadq, allg, waits, scan, proc>>

MFirst(m) ==
    LET g == reg[m]["start"] IN
    /\ At(m, "mready")
    /\ Goto(m, "sched")
    /\ IF g = None
       THEN UNCHANGED <<reg, gs>>
       ELSE /\ reg' = Move(m, "start", m, "nextg")
            /\ lockedm' = [lockedm EXCEPT ![g] = m]
            /\ status' = [status EXCEPT ![g] = IF @ = "dead" THEN @
                                               ELSE "runnable"]
            /\ parking' = [parking EXCEPT ![g] = 0]
    /\ UNCHANGED <<frames, lists, waits, scan, proc>>

\* The process ended; nothing runs any more.
Ended == proc # "running" /\ UNCHANGED vars

Step(m) == Ready(m) \/ Enqueue(m) \/ Schedule(m) \/ Goroutine(m)
           \/ MPublish(m) \/ MFirst(m)

Next == (\E m \in M : Step(m)) \/ Ended

Spec == Init /\ [][Next]_vars

-----------------------------------------------------------------------------
\* Fairness.  The kernel schedules every thread, so a thread with a step takes
\* one; the scheduling of goroutines is cooperative, so a goroutine must leave
\* its thread again and again (SF: it may run calls in between); a sleeper whose
\* deadline passed is seen by some later poll.
Leave(m) == Gosched(m) \/ Goexit(m)

Fairness ==
    /\ \A m \in M : WF_vars(Step(m)) /\ SF_vars(Leave(m))
    /\ \A g \in G : SF_vars(\E m \in M : PollDue(m, g))

FairSpec == Spec /\ Fairness

-----------------------------------------------------------------------------
(***************************************************************************)
(* Where a goroutine is.  A register or the run queue gives the right to   *)
(* run it; the wait sets and a runtime_ready in progress give the right to *)
(* wake it.                                                                *)
(***************************************************************************)
Held(g) == \E m \in M, r \in Registers : reg[m][r] = g
Queued(g) == \E i \in DOMAIN runq : runq[i] = g
Waking(m, g) == pc[m] \in ReadyPCs /\ tgt[m] = g
CanBeWoken(g) == g \in waitq \/ g \in sleepers \/ \E m \in M : Waking(m, g)
Live(g) == status[g] \notin {"free", "dead"}

OneRegister ==
    \A m, n \in M : \A r, s \in Registers :
        reg[m][r] # None /\ reg[m][r] = reg[n][s] => m = n /\ r = s
HeldNotQueued == \A m \in M, r \in Registers : reg[m][r] # None => ~Queued(reg[m][r])
QueuedOnce == \A i, j \in DOMAIN runq : runq[i] = runq[j] => i = j

\* A goroutine is in one register of one thread or once in the run queue, never
\* in two places: no two threads can run it, and none can run it while another
\* still has to save its context (curg) or commit its park (park_g).
SingleOwner == OneRegister /\ HeldNotQueued /\ QueuedOnce

\* A goroutine that may still be woken is announced on its own thread (1),
\* committed but not yet seen by that thread's scheduler (2), or fully parked
\* (0): a wakeup therefore never makes a second copy of a goroutine that is
\* still on its way to sleep.
ParkHandshake ==
    \A g \in G : CanBeWoken(g) =>
        \/ parking[g] = 1 /\ \E m \in M : pc[m] = "park" /\ reg[m]["curg"] = g
        \/ parking[g] = 2 /\ \E m \in M : reg[m]["park_g"] = g
        \/ parking[g] = 0 /\ ~Held(g) /\ ~Queued(g)

\* runtime.LockOSThread: a locked goroutine is only ever on its own thread,
\* whichever thread wakes it or enqueues it.
LockedStaysHome ==
    \A m \in M : reg[m]["curg"] # None => lockedm[reg[m]["curg"]] \in {None, m}

\* A live goroutine is held by a thread or queued, or somebody still has the
\* duty to wake it: none is forgotten.  (runtime_kolibri_exit_thread abandons
\* the goroutine that calls it, and nothing else.)
Abandoned(g) == \E m \in M : pc[m] = "gone" /\ reg[m]["curg"] = g
HeldByThread(g) == \E m \in M, r \in Registers : pc[m] # "gone" /\ reg[m][r] = g

NoLostGoroutine ==
    \A g \in G : Live(g) /\ ~Abandoned(g) =>
        HeldByThread(g) \/ Queued(g) \/ CanBeWoken(g)

\* The places a goroutine leaves when it ends or its thread gives up, and those
\* where a step of one thread undoes what another has done: a thread exits with
\* what was handed to it, or is handed something after that; a thread that starts
\* overwrites what was handed to it; the late status write of a cancelled park
\* (ReadyMark) makes a goroutine that has parked again look awake to its waker.
Somewhere(g) == HeldByThread(g) \/ Queued(g) \/ CanBeWoken(g)

Ends(g) == \E m \in M :
    \/ SchedReap(m) /\ reg[m]["deadg"] = g
    \/ SpawnFail(m) /\ reg[m]["enq"] = g
    \/ ExitThread(m) /\ reg[m]["curg"] = g

Dropped(g) == \E m \in M :
    \/ ExitThread(m) /\ reg[m]["nextg"] = g
    \/ EnqueueHand(m) /\ reg[m]["enq"] = g /\ pc[cand[m]] = "gone"
    \/ MFirst(m) /\ reg[m]["start"] # None /\ reg[m]["nextg"] = g
    \/ ReadyParked(m) /\ tgt[m] = g /\ status[g] # "waiting"
    \/ SchedWake(m) /\ reg[m]["enq"] = g /\ status[g] # "waiting"

\* A goroutine that some thread holds, that is queued or that somebody may wake
\* stays so until it ends, unless it is dropped in one of these five ways.
LostOnlyThere ==
    [][\A g \in G : Somewhere(g) /\ ~Somewhere(g)' => Ends(g) \/ Dropped(g)]_vars

\* The fatal error "all goroutines asleep - deadlock" is raised only when every
\* live goroutine is queued on an object, so that none is left to wake another,
\* and nobody sleeps.
NoFalseDeadlock ==
    proc = "deadlock" =>
        sleepers = {} /\ \A g \in G : Live(g) /\ ~Abandoned(g) => g \in waitq

\* A goroutine in the run queue gets to run, unless the process ends.
QueuedRuns ==
    \A g \in G : Queued(g) ~> (status[g] = "running" \/ proc # "running")

\* time.Sleep returns: a sleeping goroutine runs again.
SleeperRuns ==
    \A g \in G : g \in sleepers ~> (status[g] = "running" \/ proc # "running")
=============================================================================
