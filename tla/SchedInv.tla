------------------------------ MODULE SchedInv ------------------------------
(***************************************************************************)
(* The inductive invariant behind TypeOK, SingleOwner, ParkHandshake and   *)
(* LockedStaysHome of Sched and SleepersCounted below, in layers: every    *)
(* layer is inductive together with the ones before it.  Layer 5 holds for *)
(* a program with one thread only, and gives NoLostGoroutine and           *)
(* NoFalseDeadlock there.  Layer 6 is about any number of threads again,   *)
(* and gives LostOnlyThere.                                                *)
(***************************************************************************)
EXTENDS Sched

\* Layer 1.  Types, and which register a program counter relies on.
EnqPCs  == {"enq", "hand", "push"}
CallPCs == ReadyPCs \cup EnqPCs \cup {"mark"}

\* TypeOK with runtime_sleepers_count as an integer: that it never drops below
\* zero takes SleepersCounted.
BaseTypeOK ==
    /\ pc \in [M -> PCs]
    /\ reg \in [M -> [Registers -> G \cup {None}]]
    /\ tgt \in [M -> G \cup {None}]
    /\ seen \in [M -> 0..3]
    /\ cand \in [M -> M \cup {None}]
    /\ ret \in [M -> {"app", "take", "poll", "polled"}]
    /\ status \in [G -> Statuses]
    /\ parking \in [G -> 0..3]
    /\ lockedm \in [G -> M \cup {None}]
    /\ runq \in Seq(G) /\ allg \in Seq(G)
    /\ deadq \subseteq G /\ allm \subseteq M
    /\ waitq \subseteq G /\ sleepers \subseteq G
    /\ nsleep \in Int
    /\ schedLock \in {None, M0}
    /\ togo \in Seq(G)
    /\ found \subseteq {"runnable", "running", "waiting"}
    /\ proc \in {"running", "exited", "deadlock"}

FilledAt(m) ==
    /\ pc[m] \in {"app", "park", "spawn"} => reg[m]["curg"] # None
    /\ pc[m] \in CallPCs /\ ret[m] = "app" => reg[m]["curg"] # None
    /\ pc[m] \in EnqPCs \cup {"spawn", "wake3"} => reg[m]["enq"] # None
    /\ pc[m] = "commit" => reg[m]["park_g"] # None
    /\ pc[m] = "run" => reg[m]["next"] # None
    /\ pc[m] \in ReadyPCs \cup {"mark"} => tgt[m] # None
    /\ pc[m] = "hand" => cand[m] # None
    /\ reg[m]["park_g"] # None =>
         \/ pc[m] \in {"sched", "take", "commit"}
         \/ pc[m] \in EnqPCs /\ ret[m] = "take"

Filled == \A m \in M : FilledAt(m)

Inv1 == BaseTypeOK /\ Filled

\* Layer 2.  The right to wake a goroutine is held once; the local copy of the
\* parking word is good enough for what runtime_ready does with it; goroutines
\* that are dead or free are nowhere else.
OneWaker ==
    /\ waitq \cap sleepers = {}
    /\ \A m \in M, g \in G : Waking(m, g) => g \notin waitq \cup sleepers
    /\ \A m, n \in M, g \in G : Waking(m, g) /\ Waking(n, g) => m = n

SeenIsSafe ==
    \A m \in M :
        /\ pc[m] = "cas2" =>
             /\ parking[tgt[m]] # 1 /\ seen[m] # 1
             /\ seen[m] = 0 => parking[tgt[m]] = 0
        /\ pc[m] = "store" => parking[tgt[m]] = 0

GoneForGood ==
    \A g \in G : g \in deadq \/ status[g] = "free" =>
                     ~Held(g) /\ ~Queued(g) /\ ~CanBeWoken(g)

DeadNotFree == \A g \in deadq : status[g] # "free"

Inv2 == SingleOwner /\ ParkHandshake /\ OneWaker /\ SeenIsSafe
        /\ GoneForGood /\ DeadNotFree

\* Layer 3.  Wherever a locked goroutine waits to run, it is on its own thread.
LockedInPlace ==
    /\ \A m \in M : \A r \in {"curg", "next", "nextg"} :
         reg[m][r] # None => lockedm[reg[m][r]] \in {None, m}
    /\ \A m \in M : pc[m] = "hand" => lockedm[reg[m]["enq"]] = None

\* Layer 4.  A return address is only kept during a call, so a poll that has
\* unlinked a sleeper is counted until its ready returns.
RetPending == \A m \in M : ret[m] # "app" => pc[m] \in CallPCs

\* runtime_sleepers_count counts every sleeper from the moment it is linked
\* until the ready that wakes it has returned: between unlinking and readying
\* it, only the count tells the deadlock scan that it is coming back.
SleepersCounted ==
    nsleep = Cardinality(sleepers)
             + Cardinality({m \in M : "polled" \in {pc[m], ret[m]}})

Polled(m) == "polled" \in {pc[m], ret[m]}

Inv4 == RetPending /\ SleepersCounted

IndInv == Inv1 /\ Inv2 /\ LockedInPlace /\ Inv4

\* Layer 5, for a program with one thread: M = {M0}.  Which registers are in use
\* is known from where the thread is, where a goroutine is from its status, and
\* neither a park that is cancelled nor a wakeup that is left pending occurs.
LonePCs == {"sched", "take", "commit", "poll", "polled", "run", "deq", "scan",
            "read", "app", "park", "spawn", "ready", "cas2", "store", "enq",
            "push"}
UserPCs == {"app", "park", "spawn"}

LoneRegs ==
    /\ pc[M0] \in LonePCs
    /\ reg[M0]["nextg"] = None /\ reg[M0]["start"] = None
    /\ reg[M0]["next"] # None => pc[M0] = "run"
    /\ reg[M0]["enq"] # None => pc[M0] \in {"enq", "push", "spawn"}
    /\ reg[M0]["enqg"] # None => pc[M0] = "sched"
    /\ reg[M0]["deadg"] # None =>
          pc[M0] = "sched" /\ status[reg[M0]["deadg"]] = "dead"
    /\ reg[M0]["curg"] # None =>
          \/ pc[M0] \in UserPCs
          \/ pc[M0] \in CallPCs /\ ret[M0] = "app"
    /\ pc[M0] = "cas2" => seen[M0] = 0

\* A goroutine that waits can be woken, from before it has left the thread;
\* one that runs is the current one; one that is runnable is queued or about to
\* be, or to run.
Parks(g) == \/ reg[M0]["park_g"] = g
            \/ reg[M0]["curg"] = g /\ pc[M0] = "park"
Runs(g) == reg[M0]["curg"] = g /\ pc[M0] # "park"
RunsSoon(g) == \/ Queued(g)
               \/ reg[M0]["next"] = g
               \/ reg[M0]["enq"] = g
               \/ reg[M0]["enqg"] = g

PlacedAt(g) ==
    /\ Parks(g) => CanBeWoken(g)
    /\ status[g] = "waiting" <=> CanBeWoken(g)
    /\ status[g] = "running" <=> Runs(g)
    /\ status[g] = "runnable" <=> RunsSoon(g)

ByStatus == \A g \in G : PlacedAt(g)

\* The scan goes through every goroutine there is, and nothing changes meanwhile.
OnList(g) == \E i \in DOMAIN allg : allg[i] = g
ToGo(g) == \E i \in DOMAIN togo : togo[i] = g
ScanSees ==
    /\ \A g \in G : Live(g) => OnList(g)
    /\ pc[M0] = "read" =>
          \A g \in G : Live(g) =>
              ToGo(g) \/ status[g] \in found \/ "running" \in found

LoneInv == LoneRegs /\ ByStatus /\ ScanSees /\ NoFalseDeadlock

\* Layer 6, for any number of threads: which registers are in use where, so that
\* none is overwritten; and whoever goes to sleep is announced to somebody.
RegsAt(m) ==
    /\ reg[m]["curg"] # None =>
          \/ pc[m] \in UserPCs \cup {"gone"}
          \/ pc[m] \in CallPCs /\ ret[m] = "app"
    /\ reg[m]["enq"] # None => pc[m] \in EnqPCs \cup {"wake3", "spawn"}
    /\ reg[m]["enqg"] # None => pc[m] = "sched"
    /\ reg[m]["deadg"] # None => pc[m] = "sched"
    /\ reg[m]["next"] # None =>
          \/ pc[m] \in {"commit", "wake3", "poll", "polled", "run"}
          \/ pc[m] \in CallPCs /\ ret[m] \in {"poll", "polled"}
    /\ reg[m]["start"] # None => pc[m] \in {"mstart", "mready"}

RegsInUse == \A m \in M : RegsAt(m)

Parking(m, g) == pc[m] = "park" /\ reg[m]["curg"] = g

WakeOwed ==
    \A m \in M, g \in G :
        /\ Parking(m, g) /\ parking[g] # 0 => parking[g] = 1 /\ CanBeWoken(g)
        /\ reg[m]["park_g"] = g =>
              parking[g] = 3 \/ (parking[g] = 2 /\ CanBeWoken(g))

\* A waker reads no pending wakeup of somebody else, and its goroutine lives.
WakerKnows ==
    /\ \A m \in M : pc[m] = "cas2" => seen[m] \in {0, 2}
    /\ \A g \in G : CanBeWoken(g) => status[g] # "dead"

LossInv == RegsInUse /\ WakeOwed /\ WakerKnows
=============================================================================
