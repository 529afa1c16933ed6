------------------------------- MODULE OsProofs -------------------------------
(***************************************************************************)
(* Proofs about what package os builds on: Process, for every number of    *)
(* workers (after Wait no thread of the child runs a goroutine, and Wait   *)
(* knows of every Kill that returned nil), and Signals, for every number   *)
(* of goroutines, channels and calls (tables, counters and console agree   *)
(* between calls, an interrupt that was taken is delivered, Stop is        *)
(* final).                                                                 *)
(***************************************************************************)
EXTENDS Process, Signals, QueueLemmas

\* The parent has seen the main thread go; it has told the child to stop; it
\* has been through all slots.
SawMain == {"stop", "scan", "look", "done", "state", "close", "closed"}
SaidStop == {"scan", "look", "done", "state", "close", "closed"}
Scanned == {"look", "done", "state", "close", "closed"}

\* Who runs was found by a scan: a thread publishes itself before it looks at
\* the word to stop, and the parent writes that word before it scans.
StopInv ==
    /\ kill.pc \in {"scan", "main", "note"} => stop
    /\ \A w \in W : pc[w] = "published" \/ Running(w) => w \in word
    /\ pc[Main] # "none"
    /\ wait.pc \in SawMain => pc[Main] = "dead"
    /\ wait.pc \in SaidStop => stop
    /\ wait.pc = "scan" => \A w \in W \ wait.left : ~Running(w)
    /\ wait.pc \in Scanned => \A w \in W : ~Running(w)

\* What Wait knows of Kill; the reaper's Process is a copy that no Kill has.
KillInv ==
    /\ sigMu <=> kill.pc # "idle"
    /\ told => killed
    /\ wait.reaper => released /\ ~sigMu /\ (told => wait.killed)
    /\ wait.pc \in {"close", "closed"} =>
          kill.pc # "note" /\ (told => wait.killed)

IndInv == TypeOK /\ StopInv /\ KillInv

\* What any step of the child keeps.
ChildStep ==
    /\ parent' = parent
    /\ TypeOK'
    /\ word \subseteq word'
    /\ pc[Main] = "dead" => pc'[Main] = "dead"
    /\ pc[Main] # "none" => pc'[Main] # "none"
    /\ \A w \in W : Running(w)' => Running(w) \/ (pc[w] = "published" /\ ~stop)
    /\ \A w \in W : pc'[w] = "published" => pc[w] = "published" \/ w \in word'

LEMMA ChildKeeps == ASSUME IndInv, ChildStep PROVE IndInv'
<1>1. TypeOK' BY DEF ChildStep
<1>2. UNCHANGED <<stop, sigMu, released, waiting, gone, killed, kill, wait, told>>
  BY DEF ChildStep, parent, handle
<1>3. StopInv'
  <2>1. (kill.pc \in {"scan", "main", "note"} => stop)'
    BY <1>2 DEF IndInv, StopInv
  <2>2. (\A w \in W : pc[w] = "published" \/ Running(w) => w \in word)'
    BY DEF IndInv, StopInv, ChildStep
  <2>3. (wait.pc \in SawMain => pc[Main] = "dead")'
    BY <1>2 DEF IndInv, StopInv, ChildStep, SawMain
  <2>7. (pc[Main] # "none")' BY DEF IndInv, StopInv, ChildStep
  <2>4. (wait.pc \in SaidStop => stop)'
    BY <1>2 DEF IndInv, StopInv, SaidStop
  <2>5. (wait.pc = "scan" => \A w \in W \ wait.left : ~Running(w))'
    BY <1>2 DEF IndInv, StopInv, ChildStep, SaidStop
  <2>6. (wait.pc \in Scanned => \A w \in W : ~Running(w))'
    BY <1>2 DEF IndInv, StopInv, ChildStep, SaidStop, Scanned
  <2>. QED BY <2>1, <2>2, <2>3, <2>4, <2>5, <2>6, <2>7 DEF StopInv
<1>4. KillInv' BY <1>2 DEF IndInv, KillInv
<1>. QED BY <1>1, <1>3, <1>4 DEF IndInv

PC == {"none", "start", "new", "linking", "linked", "listing", "listed",
       "published", "checked", "run", "queue", "collect", "spawn", "counting",
       "create", "failed", "uncounting", "exit", "sweep", "leave", "unlist",
       "zombie", "dead"}
Silent == {"zombie", "dead", "new", "linking", "linked", "listing", "listed"}

\* The child's locks, its world and its lists of threads.
RestOK ==
    /\ held \in [Locks -> T \cup {Nobody}] /\ stopper \in T \cup {Nobody}
    /\ allm \subseteq T /\ sweep \subseteq T

\* What becomes of the locks and the world, one change at a time.
LEMMA Locking ==
    ASSUME RestOK, NEW t \in T, NEW l \in Locks,
           Lock(t, l) \/ Unlock(t, l) \/ NoLock
    PROVE  held' \in [Locks -> T \cup {Nobody}] /\ stopper' \in T \cup {Nobody}
BY DEF RestOK, Lock, Unlock, NoLock

\* A step of one thread, from p to q.
LEMMA OneThread ==
    ASSUME TypeOK, NEW t \in T, NEW p \in PC, NEW q \in PC, Step(t, p, q),
           p # "dead", q # "none", parent' = parent,
           RestOK',
           word \subseteq word', word' \subseteq W,
           t \in W => \/ q \in Silent
                      \/ q = "published" /\ t \in word'
                      \/ Running(t) /\ q # "published"
                      \/ p = "published" /\ ~stop
    PROVE  ChildStep
<1>1. pc \in [T -> PC] BY DEF TypeOK, PC
<1>2. pc' = [pc EXCEPT ![t] = q] /\ pc[t] = p BY DEF Step
<1>3. TypeOK' BY <1>1, <1>2 DEF TypeOK, RestOK, PC, parent, handle
<1>4. \A w \in W : pc'[w] = pc[w] \/ (w = t /\ pc'[w] = q)
  BY <1>1, <1>2 DEF T
<1>5. /\ pc[Main] = "dead" => pc'[Main] = "dead"
      /\ pc[Main] # "none" => pc'[Main] # "none"
  BY <1>1, <1>2 DEF T
<1>6. \A w \in W : Running(w)' => Running(w) \/ (pc[w] = "published" /\ ~stop)
  <2>. SUFFICES ASSUME NEW w \in W, Running(w)'
                PROVE  Running(w) \/ (pc[w] = "published" /\ ~stop)
    OBVIOUS
  <2>1. CASE w = t
    <3>1. pc'[t] = q BY <1>1, <1>2
    <3>2. q \notin Silent /\ q # "published"
      BY <2>1, <3>1 DEF Running, Silent
    <3>. QED BY <2>1, <3>2, <1>2 DEF Running
  <2>2. CASE w # t BY <2>2, <1>4, <1>1, <1>2 DEF Running
  <2>. QED BY <2>1, <2>2
<1>7. \A w \in W : pc'[w] = "published" => pc[w] = "published" \/ w \in word'
  BY <1>2, <1>4 DEF Running, Silent
<1>. QED BY <1>3, <1>5, <1>6, <1>7 DEF ChildStep


\* Threads that are terminated.
LEMMA Terminated ==
    ASSUME TypeOK, NEW S, Terminate(S)
    PROVE  /\ pc' \in [T -> PC]
           /\ pc[Main] = "dead" => pc'[Main] = "dead"
           /\ pc[Main] # "none" => pc'[Main] # "none"
           /\ \A w \in W : Running(w)' => Running(w)
           /\ \A w \in W : w \in S => ~Running(w)'
           /\ \A w \in W : pc'[w] = "published" => pc[w] = "published"
<1>1. pc \in [T -> PC] BY DEF TypeOK, PC
<1>2. pc' = [t \in T |-> IF t \in S /\ Alive(t) THEN "zombie" ELSE pc[t]]
  BY DEF Terminate
<1>3. \A t \in T : pc'[t] = IF t \in S /\ Alive(t) THEN "zombie" ELSE pc[t]
  BY <1>2
<1>4. pc' \in [T -> PC] BY <1>1, <1>2 DEF PC
<1>5. /\ pc[Main] = "dead" => pc'[Main] = "dead"
      /\ pc[Main] # "none" => pc'[Main] # "none"
  BY <1>3 DEF T, Alive
<1>6. \A w \in W : Running(w)' => Running(w) BY <1>3 DEF T, Running
<1>7. \A w \in W : w \in S => ~Running(w)' BY <1>3 DEF T, Running, Alive
<1>8. \A w \in W : pc'[w] = "published" => pc[w] = "published" BY <1>3 DEF T
<1>. QED BY <1>4, <1>5, <1>6, <1>7, <1>8

-----------------------------------------------------------------------------
(***************************************************************************)
(* The steps of the child                                                  *)
(***************************************************************************)
LEMMA WorkerSteps ==
    ASSUME IndInv, NEW w \in W, Leave(w) \/ Starts(w)
    PROVE  IndInv'
<1>. USE DEF IndInv, PC, Silent, lists
<1>0. w \in T /\ TypeOK /\ RestOK /\ word \subseteq W /\ "sched" \in Locks /\ "m" \in Locks
  BY DEF T, TypeOK, RestOK, Locks
<1>1. CASE EnterAllg(w)
  <2>. RestOK' BY <1>0, <1>1, Locking DEF EnterAllg, RestOK
  <2>. QED BY <1>0, <1>1, OneThread, ChildKeeps DEF EnterAllg
<1>2. CASE AddToAllg(w)
  <2>. RestOK' BY <1>0, <1>2, Locking DEF AddToAllg, RestOK
  <2>. QED BY <1>0, <1>2, OneThread, ChildKeeps DEF AddToAllg
<1>3. CASE EnterList(w)
  <2>. RestOK' BY <1>0, <1>3, Locking DEF EnterList, RestOK
  <2>. QED BY <1>0, <1>3, OneThread, ChildKeeps DEF EnterList
<1>4. CASE AddToList(w)
  <2>. RestOK' BY <1>0, <1>4, Locking DEF AddToList, RestOK
  <2>. QED BY <1>0, <1>4, OneThread, ChildKeeps DEF AddToList
<1>5. CASE Publish(w)
  <2>. RestOK' BY <1>0, <1>5, Locking DEF Publish, RestOK
  <2>. QED BY <1>0, <1>5, OneThread, ChildKeeps DEF Publish
<1>6. CASE Check(w)
  <2>. RestOK' BY <1>0, <1>6, Locking DEF Check, RestOK
  <2>. QED BY <1>0, <1>6, OneThread, ChildKeeps DEF Check, Step
<1>7. CASE Bind(w)
  <2>. RestOK' BY <1>0, <1>7, Locking DEF Bind, RestOK
  <2>. QED BY <1>0, <1>7, OneThread, ChildKeeps DEF Bind, Step, Running
<1>8. CASE Leave(w)
  <2>. RestOK' BY <1>0, <1>8, Locking DEF Leave, RestOK
  <2>. QED BY <1>0, <1>8, OneThread, ChildKeeps DEF Leave, Step, Running
<1>9. CASE Unlist(w)
  <2>. RestOK' BY <1>0, <1>9, Locking DEF Unlist, RestOK
  <2>. QED BY <1>0, <1>9, OneThread, ChildKeeps DEF Unlist
<1>. QED BY <1>1, <1>2, <1>3, <1>4, <1>5, <1>6, <1>7, <1>8, <1>9 DEF Starts

LEMMA ThreadSteps ==
    ASSUME IndInv, NEW t \in T,
           \/ Queue(t) \/ Collect(t) \/ Collected(t)
           \/ Spawn(t) \/ Fault(t) \/ Exit(t) \/ Runs(t)
    PROVE  IndInv'
<1>. USE DEF IndInv, PC, Silent, lists
<1>0. TypeOK /\ RestOK /\ word \subseteq W /\ "sched" \in Locks /\ "m" \in Locks
  BY DEF TypeOK, RestOK, Locks
<1>1. CASE Queue(t)
  <2>. RestOK' BY <1>0, <1>1, Locking DEF Queue, RestOK
  <2>. QED BY <1>0, <1>1, OneThread, ChildKeeps DEF Queue, Step, Running
<1>2. CASE Queued(t)
  <2>. RestOK' BY <1>0, <1>2, Locking DEF Queued, RestOK
  <2>. QED BY <1>0, <1>2, OneThread, ChildKeeps DEF Queued, Step, Running
<1>3. CASE Collect(t)
  <2>. RestOK' BY <1>0, <1>3 DEF Collect, RestOK
  <2>. QED BY <1>0, <1>3, OneThread, ChildKeeps DEF Collect, Step, Running
<1>4. CASE Collected(t)
  <2>. RestOK' BY <1>0, <1>4 DEF Collected, RestOK
  <2>. QED BY <1>0, <1>4, OneThread, ChildKeeps DEF Collected, Step, Running
<1>5. CASE Spawn(t)
  <2>. RestOK' BY <1>0, <1>5, Locking DEF Spawn, RestOK
  <2>. QED BY <1>0, <1>5, OneThread, ChildKeeps DEF Spawn, Step, Running
<1>6. CASE Fault(t)
  <2>. RestOK' BY <1>0, <1>6, Locking DEF Fault, RestOK
  <2>. QED BY <1>0, <1>6, OneThread, ChildKeeps DEF Fault
<1>7. CASE Exit(t)
  <2>. RestOK' BY <1>0, <1>7, Locking DEF Exit, RestOK
  <2>. QED BY <1>0, <1>7, OneThread, ChildKeeps DEF Exit, Step, Running
<1>8. CASE Count(t)
  <2>. RestOK' BY <1>0, <1>8, Locking DEF Count, RestOK
  <2>. QED BY <1>0, <1>8, OneThread, ChildKeeps DEF Count, Step, Running
<1>9. CASE Counted(t)
  <2>. RestOK' BY <1>0, <1>9, Locking DEF Counted, RestOK
  <2>. QED BY <1>0, <1>9, OneThread, ChildKeeps DEF Counted, Step, Running
<1>10. CASE CreateFails(t)
  <2>. RestOK' BY <1>0, <1>10, Locking DEF CreateFails, RestOK
  <2>. QED BY <1>0, <1>10, OneThread, ChildKeeps DEF CreateFails, Step, Running
<1>11. CASE Uncount(t)
  <2>. RestOK' BY <1>0, <1>11, Locking DEF Uncount, RestOK
  <2>. QED BY <1>0, <1>11, OneThread, ChildKeeps DEF Uncount, Step, Running
<1>12. CASE Uncounted(t)
  <2>. RestOK' BY <1>0, <1>12, Locking DEF Uncounted, RestOK
  <2>. QED BY <1>0, <1>12, OneThread, ChildKeeps DEF Uncounted, Step, Running
<1>13. CASE ExitLock(t)
  <2>. RestOK' BY <1>0, <1>13, Locking DEF ExitLock, RestOK
  <2>. QED BY <1>0, <1>13, OneThread, ChildKeeps DEF ExitLock, Step, Running
<1>14. CASE Swept(t)
  <2>. RestOK' BY <1>0, <1>14, Locking DEF Swept, RestOK
  <2>. QED BY <1>0, <1>14, OneThread, ChildKeeps DEF Swept, Step, Running
<1>15. CASE ExitSelf(t)
  <2>. RestOK' BY <1>0, <1>15, Locking DEF ExitSelf, RestOK
  <2>. QED BY <1>0, <1>15, OneThread, ChildKeeps DEF ExitSelf
<1>16. CASE RemoveThread(t)
  <2>. RestOK' BY <1>0, <1>16, Locking DEF RemoveThread, RestOK
  <2>. QED BY <1>0, <1>16, OneThread, ChildKeeps DEF RemoveThread
<1>17. ASSUME NEW w \in W, Create(t, w) PROVE IndInv'
  <2>1. pc \in [T -> PC] /\ w \in T BY DEF TypeOK, T
  <2>2. /\ pc[t] = "create" /\ pc[w] = "none"
        /\ pc' = [pc EXCEPT ![t] = "run", ![w] = "new"]
        /\ UNCHANGED <<held, stopper, parent, word, allm, sweep>>
    BY <1>17 DEF Create, NoLock
  <2>3. t # w BY <2>2
  <2>4. pc' \in [T -> PC] /\ pc'[t] = "run" /\ pc'[w] = "new"
        /\ \A u \in T \ {t, w} : pc'[u] = pc[u]
    BY <2>1, <2>2, <2>3
  <2>5. TypeOK' BY <2>2, <2>4, <1>0 DEF TypeOK, parent, handle
  <2>6. /\ pc[Main] = "dead" => pc'[Main] = "dead"
        /\ pc[Main] # "none" => pc'[Main] # "none"
    BY <2>2, <2>4, ProcessAssumption DEF T
  <2>7. \A v \in W : Running(v)' => Running(v)
    BY <2>2, <2>4 DEF T, Running
  <2>8. \A v \in W : pc'[v] = "published" => pc[v] = "published"
    BY <2>2, <2>4 DEF T
  <2>9. ChildStep BY <2>2, <2>5, <2>6, <2>7, <2>8 DEF ChildStep
  <2>. QED BY <2>9, ChildKeeps
<1>18. CASE Sweep(t)
  <2>1. /\ UNCHANGED <<held, stopper, parent, word, allm>> /\ sweep' \subseteq T
        /\ UNCHANGED pc \/ \E u \in T : Terminate({u})
    BY <1>18, <1>0 DEF Sweep, NoLock, RestOK
  <2>2. /\ pc' \in [T -> PC]
        /\ pc[Main] = "dead" => pc'[Main] = "dead"
        /\ pc[Main] # "none" => pc'[Main] # "none"
        /\ \A w \in W : Running(w)' => Running(w)
        /\ \A w \in W : pc'[w] = "published" => pc[w] = "published"
    <3>1. CASE UNCHANGED pc BY <3>1, <1>0 DEF TypeOK, Running
    <3>2. CASE \E u \in T : Terminate({u})
      <4>1. PICK u \in T : Terminate({u}) BY <3>2
      <4>. QED BY <4>1, <1>0, Terminated
    <3>. QED BY <2>1, <3>1, <3>2
  <2>3. TypeOK' BY <2>1, <2>2, <1>0 DEF TypeOK, parent, handle
  <2>4. ChildStep BY <2>1, <2>2, <2>3 DEF ChildStep
  <2>. QED BY <2>4, ChildKeeps
<1>. QED
  BY <1>1, <1>2, <1>3, <1>4, <1>5, <1>6, <1>7, <1>8, <1>9, <1>10,
     <1>11, <1>12, <1>13, <1>14, <1>15, <1>16, <1>17, <1>18 DEF Runs

LEMMA AttachStep == ASSUME IndInv, Attach PROVE IndInv'
<1>1. TypeOK /\ RestOK /\ RestOK' /\ Main \in T /\ word \subseteq W
  BY DEF IndInv, TypeOK, RestOK, T, Attach, NoLock, lists
<1>2. Main \notin W BY ProcessAssumption
<1>. USE DEF PC, lists
<1>3. CASE stop BY <1>1, <1>2, <1>3, OneThread, ChildKeeps DEF Attach
<1>4. CASE ~stop BY <1>1, <1>2, <1>4, OneThread, ChildKeeps DEF Attach
<1>. QED BY <1>3, <1>4

-----------------------------------------------------------------------------
(***************************************************************************)
(* The steps of the parent                                                 *)
(***************************************************************************)
LEMMA KillStepsKeep == ASSUME IndInv, Kill \/ KillSteps PROVE IndInv'
<1>0. TypeOK /\ StopInv /\ KillInv /\ pc \in [T -> PC] BY DEF IndInv, TypeOK, PC
<1>1. CASE Kill
  <2>1. TypeOK' BY <1>0, <1>1 DEF TypeOK, Kill, child
  <2>2. StopInv' BY <1>0, <1>1 DEF StopInv, Kill, child, Running, TypeOK
  <2>3. KillInv' BY <1>0, <1>1 DEF KillInv, Kill, TypeOK
  <2>. QED BY <2>1, <2>2, <2>3 DEF IndInv
<1>2. CASE KillStop
  <2>1. TypeOK' BY <1>0, <1>2 DEF TypeOK, KillStop, child, handle
  <2>2. StopInv' BY <1>0, <1>2 DEF StopInv, KillStop, child, Running, TypeOK
  <2>3. KillInv' BY <1>0, <1>2 DEF KillInv, KillStop, handle, TypeOK
  <2>. QED BY <2>1, <2>2, <2>3 DEF IndInv
<1>3. CASE KillScan
  <2>1. /\ kill.pc = "scan" /\ kill'.pc \in {"scan", "main"}
        /\ kill' \in [pc : {"idle", "stop", "scan", "main", "note"}, left : SUBSET W]
        /\ UNCHANGED <<stop, rest, handle, wait, told>>
    BY <1>0, <1>3 DEF KillScan, TypeOK
  <2>2. /\ pc' \in [T -> PC]
        /\ pc[Main] = "dead" => pc'[Main] = "dead"
        /\ pc[Main] # "none" => pc'[Main] # "none"
        /\ \A w \in W : Running(w)' => Running(w)
        /\ \A w \in W : pc'[w] = "published" => pc[w] = "published"
    <3>1. CASE UNCHANGED pc BY <3>1, <1>0 DEF Running
    <3>2. ASSUME NEW u \in W, Terminate({u})
          PROVE  /\ pc' \in [T -> PC]
                 /\ pc[Main] = "dead" => pc'[Main] = "dead"
                 /\ pc[Main] # "none" => pc'[Main] # "none"
                 /\ \A w \in W : Running(w)' => Running(w)
                 /\ \A w \in W : pc'[w] = "published" => pc[w] = "published"
      BY <3>2, <1>0, Terminated
    <3>. QED BY <3>1, <3>2, <1>3, <1>0 DEF KillScan, TypeOK
  <2>3. TypeOK' BY <2>1, <2>2, <1>0 DEF TypeOK, PC, handle, rest, lists
  <2>4. StopInv'
    BY <1>0, <2>1, <2>2 DEF StopInv, rest, lists, SawMain, SaidStop, Scanned
  <2>5. KillInv' BY <1>0, <2>1 DEF KillInv, handle
  <2>. QED BY <2>3, <2>4, <2>5 DEF IndInv
<1>4. CASE KillMain
  <2>1. /\ kill.pc = "main" /\ kill'.pc \in {"note", "idle"}
        /\ kill' \in [pc : {"idle", "stop", "scan", "main", "note"}, left : SUBSET W]
        /\ kill'.pc = "note" => Slot(Main) /\ sigMu' = sigMu
        /\ kill'.pc = "idle" => sigMu' = FALSE
        /\ UNCHANGED <<stop, rest, released, waiting, gone, killed, wait, told>>
    BY <1>0, <1>4 DEF KillMain, TypeOK
  <2>2. /\ pc' \in [T -> PC]
        /\ pc[Main] = "dead" => pc'[Main] = "dead"
        /\ pc[Main] # "none" => pc'[Main] # "none"
        /\ \A w \in W : Running(w)' => Running(w)
        /\ \A w \in W : pc'[w] = "published" => pc[w] = "published"
    <3>1. CASE UNCHANGED pc BY <3>1, <1>0 DEF Running
    <3>2. CASE Terminate({Main})
      BY <3>2, <1>0, Terminated
    <3>. QED BY <3>1, <3>2, <1>4 DEF KillMain
  <2>3. TypeOK'
    <3>1. sigMu' \in BOOLEAN BY <2>1, <1>0 DEF TypeOK
    <3>. QED BY <2>1, <2>2, <3>1, <1>0 DEF TypeOK, PC, rest, lists
  <2>4. StopInv'
    BY <1>0, <2>1, <2>2 DEF StopInv, rest, lists, SawMain, SaidStop, Scanned
  <2>5. KillInv'
    <3>1. wait.pc \in {"close", "closed"} => ~Slot(Main)
      BY <1>0 DEF StopInv, SawMain, Slot
    <3>2. sigMu /\ ~wait.reaper BY <1>0, <2>1 DEF KillInv
    <3>3. (sigMu <=> kill.pc # "idle")'
      <4>1. CASE kill'.pc = "note" BY <4>1, <2>1, <3>2
      <4>2. CASE kill'.pc = "idle" BY <4>2, <2>1
      <4>. QED BY <4>1, <4>2, <2>1
    <3>4. wait.pc \in {"close", "closed"} => kill'.pc # "note" /\ (told => wait.killed)
      BY <1>0, <2>1, <3>1 DEF KillInv
    <3>. QED BY <1>0, <2>1, <3>2, <3>3, <3>4 DEF KillInv
  <2>. QED BY <2>3, <2>4, <2>5 DEF IndInv
<1>5. CASE KillNote
  <2>1. TypeOK' BY <1>0, <1>5 DEF TypeOK, KillNote, child
  <2>2. StopInv' BY <1>0, <1>5 DEF StopInv, KillNote, child, Running, TypeOK
  <2>3. KillInv' BY <1>0, <1>5 DEF KillInv, KillNote, TypeOK
  <2>. QED BY <2>1, <2>2, <2>3 DEF IndInv
<1>. QED BY <1>1, <1>2, <1>3, <1>4, <1>5 DEF KillSteps

LEMMA WaitStepsKeep == ASSUME IndInv, Release \/ Wait \/ WaitSteps PROVE IndInv'
<1>0. TypeOK /\ StopInv /\ KillInv /\ pc \in [T -> PC] BY DEF IndInv, TypeOK, PC
<1>. USE DEF child, handle
<1>1. CASE Release
  <2>1. TypeOK'
    <3>1. /\ wait' = wait \/ wait' = [wait EXCEPT !.pc = "main", !.reaper = TRUE,
                                                !.killed = killed]
          /\ waiting' \in BOOLEAN /\ released' \in BOOLEAN
          /\ UNCHANGED <<stop, child, sigMu, gone, killed, kill, told>>
      BY <1>0, <1>1 DEF TypeOK, Release
    <3>2. /\ wait' \in [pc : {"idle", "pid", "main", "stop", "scan", "look",
                             "done", "state", "close", "closed", "invalid"},
                       left : SUBSET W, reaper : BOOLEAN, killed : BOOLEAN]
      BY <1>0, <3>1 DEF TypeOK
    <3>. QED BY <1>0, <3>1, <3>2 DEF TypeOK
  <2>2. StopInv'
    BY <1>0, <1>1
      DEF StopInv, Release, Running, TypeOK, SawMain, SaidStop, Scanned
  <2>3. KillInv' BY <1>0, <1>1 DEF KillInv, Release, TypeOK
  <2>. QED BY <2>1, <2>2, <2>3 DEF IndInv
<1>2. CASE Wait
  <2>1. TypeOK' BY <1>0, <1>2 DEF TypeOK, Wait
  <2>2. StopInv'
    BY <1>0, <1>2 DEF StopInv, Wait, Running, TypeOK, SawMain, SaidStop, Scanned
  <2>3. KillInv' BY <1>0, <1>2 DEF KillInv, Wait, TypeOK
  <2>. QED BY <2>1, <2>2, <2>3 DEF IndInv
<1>3. CASE WaitPid
  <2>1. TypeOK' BY <1>0, <1>3 DEF TypeOK, WaitPid, WaitGo, waiter
  <2>2. StopInv'
    BY <1>0, <1>3
      DEF StopInv, WaitPid, WaitGo, waiter, Running, TypeOK, SawMain, SaidStop,
          Scanned
  <2>3. KillInv' BY <1>0, <1>3 DEF KillInv, WaitPid, WaitGo, waiter, TypeOK
  <2>. QED BY <2>1, <2>2, <2>3 DEF IndInv
<1>4. CASE WaitMain
  <2>1. TypeOK' BY <1>0, <1>4 DEF TypeOK, WaitMain, WaitGo, waiter
  <2>2. pc[Main] = "dead"
    BY <1>0, <1>4 DEF WaitMain, WaitGo, waiter, Slot, StopInv
  <2>3. StopInv'
    BY <1>0, <1>4, <2>2
      DEF StopInv, WaitMain, WaitGo, waiter, Running, TypeOK, SawMain,
          SaidStop, Scanned
  <2>4. KillInv' BY <1>0, <1>4 DEF KillInv, WaitMain, WaitGo, waiter, TypeOK
  <2>. QED BY <2>1, <2>3, <2>4 DEF IndInv
<1>5. CASE WaitStop
  <2>1. TypeOK' BY <1>0, <1>5 DEF TypeOK, WaitStop
  <2>2. StopInv'
    BY <1>0, <1>5
      DEF StopInv, WaitStop, Running, TypeOK, SawMain, SaidStop, Scanned
  <2>3. KillInv' BY <1>0, <1>5 DEF KillInv, WaitStop, TypeOK
  <2>. QED BY <2>1, <2>2, <2>3 DEF IndInv
<1>6. CASE WaitScan
  <2>1. ASSUME NEW w \in wait.left, UNCHANGED <<stop, rest, handle, kill, told>>,
               IF Found(w) THEN Terminate({w}) ELSE UNCHANGED pc,
               wait.pc = "scan", wait' = [wait EXCEPT !.left = @ \ {w}]
        PROVE  IndInv'
    <3>1. /\ pc' \in [T -> PC]
          /\ pc[Main] = "dead" => pc'[Main] = "dead"
          /\ pc[Main] # "none" => pc'[Main] # "none"
          /\ \A v \in W : Running(v)' => Running(v)
          /\ \A v \in W : pc'[v] = "published" => pc[v] = "published"
          /\ ~Running(w)'
      <4>1. w \in W BY <2>1, <1>0 DEF TypeOK
      <4>2. CASE Terminate({w}) BY <4>1, <4>2, <1>0, Terminated
      <4>3. CASE ~Found(w) /\ UNCHANGED pc
        <5>1. ~Running(w) BY <4>1, <4>3, <1>0 DEF Found, StopInv, Running, Slot
        <5>. QED BY <4>3, <5>1, <1>0 DEF Running
      <4>. QED BY <2>1, <4>2, <4>3
    <3>2. TypeOK' BY <1>0, <2>1, <3>1 DEF TypeOK, rest, lists, PC
    <3>3. /\ wait'.pc = "scan" /\ wait'.left = wait.left \ {w}
          /\ wait'.reaper = wait.reaper /\ wait'.killed = wait.killed
      BY <2>1, <1>0 DEF TypeOK
    <3>4. StopInv'
      BY <1>0, <2>1, <3>1, <3>3 DEF StopInv, rest, lists, SawMain, SaidStop, Scanned
    <3>5. KillInv' BY <1>0, <2>1, <3>3 DEF KillInv
    <3>. QED BY <3>2, <3>4, <3>5 DEF IndInv
  <2>2. CASE wait.left = {} /\ UNCHANGED pc /\ wait' = [wait EXCEPT !.pc = "look", !.left = W]
    <3>1. UNCHANGED <<stop, rest, handle, kill, told, pc>> /\ wait.pc = "scan"
      BY <1>6, <2>2 DEF WaitScan
    <3>2. TypeOK'
      <4>1. wait' \in [pc : {"idle", "pid", "main", "stop", "scan", "look",
                            "done", "state", "close", "closed", "invalid"},
                      left : SUBSET W, reaper : BOOLEAN, killed : BOOLEAN]
        BY <1>0, <2>2 DEF TypeOK
      <4>. QED BY <1>0, <3>1, <4>1 DEF TypeOK, rest, lists
    <3>3. /\ wait'.pc = "look"
          /\ wait'.reaper = wait.reaper /\ wait'.killed = wait.killed
      BY <2>2, <1>0 DEF TypeOK
    <3>4. \A w \in W : ~Running(w) BY <1>0, <2>2, <3>1 DEF StopInv
    <3>5. StopInv'
      BY <1>0, <3>1, <3>3, <3>4
        DEF StopInv, rest, lists, SawMain, SaidStop, Scanned, Running
    <3>6. KillInv' BY <1>0, <3>1, <3>3 DEF KillInv
    <3>. QED BY <3>2, <3>5, <3>6 DEF IndInv
  <2>. QED BY <1>6, <2>1, <2>2 DEF WaitScan
<1>7. CASE WaitLook
  <2>1. TypeOK' BY <1>0, <1>7 DEF TypeOK, WaitLook, waiter
  <2>2. /\ wait.pc = "look" /\ wait'.pc \in {"look", "done"}
        /\ wait'.reaper = wait.reaper /\ wait'.killed = wait.killed
        /\ UNCHANGED waiter
    BY <1>0, <1>7 DEF TypeOK, WaitLook
  <2>3. StopInv'
    BY <1>0, <2>2 DEF StopInv, waiter, Running, SawMain, SaidStop, Scanned
  <2>4. KillInv' BY <1>0, <2>2 DEF KillInv, waiter
  <2>. QED BY <2>1, <2>3, <2>4 DEF IndInv
<1>8. CASE WaitDone
  <2>1. TypeOK' BY <1>0, <1>8 DEF TypeOK, WaitDone, WaitGo
  <2>2. StopInv'
    BY <1>0, <1>8
      DEF StopInv, WaitDone, WaitGo, Running, TypeOK, SawMain, SaidStop, Scanned
  <2>3. KillInv' BY <1>0, <1>8 DEF KillInv, WaitDone, WaitGo, TypeOK
  <2>. QED BY <2>1, <2>2, <2>3 DEF IndInv
<1>9. CASE WaitState
  <2>1. TypeOK'
    <3>. DEFINE Waits == [pc : {"idle", "pid", "main", "stop", "scan", "look",
                                "done", "state", "close", "closed", "invalid"},
                          left : SUBSET W, reaper : BOOLEAN, killed : BOOLEAN]
    <3>1. wait \in Waits BY <1>0 DEF TypeOK
    <3>2. killed \in BOOLEAN BY <1>0 DEF TypeOK
    <3>3. CASE wait.reaper
      <4>1. wait' = [wait EXCEPT !.pc = "close"]
        BY <1>9, <3>1, <3>3 DEF WaitState
      <4>. QED BY <1>0, <1>9, <3>1, <4>1 DEF TypeOK, WaitState, waiter
    <3>4. CASE ~wait.reaper
      <4>1. wait' = [wait EXCEPT !.pc = "close", !.killed = killed]
        BY <1>9, <3>4 DEF WaitState
      <4>2. wait' \in Waits BY <3>1, <3>2, <4>1
      <4>. QED BY <1>0, <1>9, <4>2 DEF TypeOK, WaitState, waiter
    <3>. QED BY <3>3, <3>4
  <2>2. wait.pc = "state" /\ wait'.pc = "close" /\ UNCHANGED waiter
    BY <1>0, <1>9 DEF TypeOK, WaitState
  <2>3. StopInv'
    BY <1>0, <2>2 DEF StopInv, waiter, Running, SawMain, SaidStop, Scanned
  <2>4. KillInv' BY <1>0, <1>9 DEF KillInv, WaitState, waiter, TypeOK
  <2>. QED BY <2>1, <2>3, <2>4 DEF IndInv
<1>10. CASE WaitClose
  <2>1. TypeOK' BY <1>0, <1>10 DEF TypeOK, WaitClose, WaitGo, waiter
  <2>2. StopInv'
    BY <1>0, <1>10
      DEF StopInv, WaitClose, WaitGo, waiter, Running, TypeOK, SawMain,
          SaidStop, Scanned
  <2>3. KillInv' BY <1>0, <1>10 DEF KillInv, WaitClose, WaitGo, waiter, TypeOK
  <2>. QED BY <2>1, <2>2, <2>3 DEF IndInv
<1>. QED
  BY <1>1, <1>2, <1>3, <1>4, <1>5, <1>6, <1>7, <1>8, <1>9, <1>10 DEF WaitSteps

-----------------------------------------------------------------------------
(***************************************************************************)
(* The theorems                                                            *)
(***************************************************************************)
LEMMA InitInv == Init => IndInv
<1>. SUFFICES ASSUME Init PROVE IndInv OBVIOUS
<1>1. TypeOK BY ProcessAssumption DEF Init, TypeOK, T
<1>2. pc[Main] = "start" /\ \A w \in W : pc[w] = "none"
  BY ProcessAssumption DEF Init, T
<1>3. StopInv BY <1>2 DEF Init, StopInv, Running, SawMain, SaidStop, Scanned
<1>4. KillInv BY DEF Init, KillInv
<1>. QED BY <1>1, <1>3, <1>4 DEF IndInv

LEMMA NextInv == IndInv /\ [Next]_vars => IndInv'
<1>. SUFFICES ASSUME IndInv, [Next]_vars PROVE IndInv' OBVIOUS
<1>1. CASE UNCHANGED vars
  BY <1>1 DEF IndInv, TypeOK, StopInv, KillInv, Running, vars, child, handle
<1>2. CASE Next
  BY <1>2, AttachStep, ThreadSteps, WorkerSteps, KillStepsKeep, WaitStepsKeep
    DEF Next
<1>. QED BY <1>1, <1>2

\* The inductive invariant of the parent and its child.
THEOREM ProcessInvariant == Spec => []IndInv
<1>. QED BY InitInv, NextInv, PTL DEF Spec

\* Type correctness.
THEOREM ProcessTypes == Spec => []TypeOK
<1>1. IndInv => TypeOK BY DEF IndInv
<1>. QED BY <1>1, ProcessInvariant, PTL

\* After Wait no thread of the child runs a goroutine, whatever was being
\* started, killed or exited meanwhile.
THEOREM NobodyRuns == Spec => []NoneRuns
<1>1. IndInv => NoneRuns
  <2>. SUFFICES ASSUME IndInv, wait.pc \in {"done", "state", "close", "closed"},
                       NEW t \in T
                PROVE  ~Running(t)
    BY DEF NoneRuns
  <2>1. CASE t = Main BY <2>1 DEF IndInv, StopInv, SawMain, Running
  <2>2. CASE t \in W BY <2>2 DEF IndInv, StopInv, Scanned
  <2>. QED BY <2>1, <2>2 DEF T
<1>. QED BY <1>1, ProcessInvariant, PTL

\* Wait reports every Kill that returned nil.
THEOREM KillReported == Spec => []KillTold
<1>1. IndInv => KillTold BY DEF IndInv, KillInv, KillTold
<1>. QED BY <1>1, ProcessInvariant, PTL

-----------------------------------------------------------------------------
(***************************************************************************)
(* Package os/signal                                                       *)
(***************************************************************************)
\* Calls that hold handlers.Mutex, and those of Stop.
Holding == {"add", "enable", "wake", "remove", "drop"}
Stops(g) == call[g].pc \in {"drop", "barrier", "forget"}

Calling == [pc : {"idle", "add", "enable", "wake", "remove", "drop",
                  "barrier", "forget"},
            c : C \cup {None}, mask : SUBSET Signal,
            todo : SUBSET Signal, ignore : BOOLEAN]

\* A call of Notify has a channel in the table, which Stop has taken out of it.
CallInv ==
    \A g \in G :
        /\ lock = g <=> call[g].pc \in Holding
        /\ call[g].pc \in {"add", "enable", "wake"} =>
              call[g].c \in C /\ handlers[call[g].c] # None
        /\ call[g].pc \in {"enable", "wake"} => call[g].todo # {}
        /\ Stops(g) => call[g].c \in C
        /\ At(g, "drop") => handlers[call[g].c] = None

\* What the holder of the mutex is about: a signal that is marked for its
\* channel and not counted yet, or counted and not marked any more.
Opening(n) ==
    lock # None /\ call[lock].pc \in {"enable", "wake"} /\ n \in Todo(lock)
Closing(n) == lock # None /\ At(lock, "drop") /\ n \in call[lock].todo
Woken(n) == lock # None /\ At(lock, "wake") /\ n \in Todo(lock)

Wanting(n) == {c \in C : Wants(c, n)}
Wanters(n) == Cardinality(Wanting(n))

CountInv ==
    \A n \in Signal :
        /\ Opening(n) => ref[n] = 0 /\ Wanters(n) = 1
        /\ ~Opening(n) /\ Closing(n) => ref[n] = Wanters(n) + 1
        /\ ~Opening(n) /\ ~Closing(n) => ref[n] = Wanters(n)

EnabledInv ==
    /\ \A n \in Signal : n \in enabled <=> ref[n] > 0 \/ Woken(n)
    /\ enabled \cap ignored = {}
    /\ mode = IF Interrupt \in enabled \/ Opening(Interrupt) THEN 1
              ELSE IF Interrupt \in ignored THEN 2 ELSE 0
    /\ Interrupt \in enabled \cup ignored \/ Opening(Interrupt) => console

\* Every Stop behind its barrier has an entry, and there are no others.
Listed(c) == {i \in DOMAIN stopping : stopping[i].c = c}
Leaving(c) == {g \in G : call[g].pc \in {"barrier", "forget"} /\ call[g].c = c}
ListInv == \A c \in C : Cardinality(Listed(c)) = Cardinality(Leaving(c))

\* A channel that two Stops never met for has the entry of its only one.
OneStop ==
    \A g, h \in G : Stops(g) /\ Stops(h) /\ call[g].c = call[h].c
                    /\ call[g].c \notin crossed => g = h
OwnEntry ==
    \A g \in G : call[g].pc \in {"barrier", "forget"}
                 /\ call[g].c \notin crossed =>
        \E i \in DOMAIN stopping :
            stopping[i].c = call[g].c /\ stopping[i].mask = call[g].mask

\* Whom the poller owes an interrupt still waits for it.
OwedInv ==
    poll.pc = "interrupt" => \A c \in owed : c \in crossed \/ c \in Waiting

SignalInv ==
    /\ SignalsTypeOK /\ CallInv
    /\ ~failed => CountInv /\ EnabledInv
    /\ ListInv /\ OneStop /\ OwnEntry /\ OwedInv

-----------------------------------------------------------------------------
(***************************************************************************)
(* How a call goes on                                                      *)
(***************************************************************************)
PCsOfCall == {"idle", "add", "enable", "wake", "remove", "drop", "barrier",
              "forget"}

LEMMA CallsTyped ==
    /\ SignalsTypeOK => call \in [G -> Calling]
    /\ \A r \in Calling : /\ r.pc \in PCsOfCall /\ r.c \in C \cup {None}
                          /\ r.mask \subseteq Signal /\ r.todo \subseteq Signal
BY DEF SignalsTypeOK, Calling, PCsOfCall

\* Todo is the next signal, if one is left.
LEMMA TodoNext ==
    ASSUME SignalsTypeOK, NEW g \in G
    PROVE  /\ Todo(g) \subseteq call[g].todo /\ Todo(g) \subseteq Signal
           /\ call[g].todo # {} => Todo(g) # {}
           /\ \A m, n \in Todo(g) : m = n
<1>1. call[g].todo \subseteq Signal BY CallsTyped
<1>2. PICK f \in Signal :
        Todo(g) = {n \in call[g].todo : n = f \/ f \notin call[g].todo}
  BY SignalsAssumption DEF Todo, Signal
<1>. QED BY <1>1, <1>2 DEF Signal, Interrupt, Winch

LEMMA GotoFacts ==
    ASSUME SignalsTypeOK, NEW g \in G, NEW p \in PCsOfCall, Goto(g, p)
    PROVE  /\ call' \in [G -> Calling]
           /\ \A h \in G \ {g} : call'[h] = call[h]
           /\ call'[g].pc = p
           /\ call'[g].c = call[g].c /\ call'[g].mask = call[g].mask
           /\ call'[g].todo = call[g].todo
<1>1. call \in [G -> Calling] BY CallsTyped
<1>2. call' = [call EXCEPT ![g].pc = p] BY DEF Goto
<1>3. call'[g] = [call[g] EXCEPT !.pc = p] BY <1>1, <1>2
<1>4. \A h \in G \ {g} : call'[h] = call[h] BY <1>1, <1>2
<1>5. call[g] \in Calling BY <1>1
<1>6. call'[g] \in Calling BY <1>3, <1>5 DEF Calling, PCsOfCall
<1>7. call' \in [G -> Calling] BY <1>1, <1>2, <1>4, <1>6
<1>. QED BY <1>3, <1>4, <1>5, <1>7 DEF Calling

LEMMA DidFacts ==
    ASSUME SignalsTypeOK, NEW g \in G, NEW n, NEW p \in PCsOfCall, Did(g, n, p)
    PROVE  /\ call' \in [G -> Calling]
           /\ \A h \in G \ {g} : call'[h] = call[h]
           /\ call'[g].pc = p
           /\ call'[g].c = call[g].c /\ call'[g].mask = call[g].mask
           /\ call'[g].todo = call[g].todo \ {n}
<1>1. call \in [G -> Calling] BY CallsTyped
<1>2. call' = [call EXCEPT ![g].todo = @ \ {n}, ![g].pc = p] BY DEF Did
<1>3. call'[g] = [call[g] EXCEPT !.todo = call[g].todo \ {n}, !.pc = p]
  BY <1>1, <1>2
<1>4. \A h \in G \ {g} : call'[h] = call[h] BY <1>1, <1>2
<1>5. call[g] \in Calling BY <1>1
<1>6. call'[g] \in Calling BY <1>3, <1>5 DEF Calling, PCsOfCall
<1>7. call' \in [G -> Calling] BY <1>1, <1>2, <1>4, <1>6
<1>. QED BY <1>3, <1>4, <1>5, <1>7 DEF Calling

LEMMA EnterFacts ==
    ASSUME SignalsTypeOK, NEW g \in G, NEW p \in PCsOfCall, NEW c \in C \cup {None},
           NEW mask \in SUBSET Signal, NEW todo \in SUBSET Signal,
           NEW ignore \in BOOLEAN, Enter(g, p, c, mask, todo, ignore)
    PROVE  /\ call' \in [G -> Calling]
           /\ \A h \in G \ {g} : call'[h] = call[h]
           /\ call'[g].pc = p /\ call'[g].c = c /\ call'[g].mask = mask
           /\ call'[g].todo = todo
           /\ call[g].pc = "idle" /\ lock = None /\ lock' = g
           /\ calls' \in 0 .. MaxCalls
<1>1. call \in [G -> Calling] BY CallsTyped
<1>. DEFINE r == [pc |-> p, c |-> c, mask |-> mask, todo |-> todo,
                  ignore |-> ignore]
<1>2. call' = [call EXCEPT ![g] = r] BY DEF Enter
<1>3. call'[g] = r /\ \A h \in G \ {g} : call'[h] = call[h] BY <1>1, <1>2
<1>4. r \in Calling BY DEF Calling, PCsOfCall
<1>5. call' \in [G -> Calling] BY <1>1, <1>2, <1>4
<1>6. calls' \in 0 .. MaxCalls
  BY SignalsAssumption DEF SignalsTypeOK, Enter
<1>. QED BY <1>3, <1>5, <1>6 DEF Enter, At

LEMMA LeaveFacts ==
    ASSUME SignalsTypeOK, NEW g \in G, call' = [call EXCEPT ![g] = Idle]
    PROVE  /\ call' \in [G -> Calling]
           /\ \A h \in G \ {g} : call'[h] = call[h]
           /\ call'[g].pc = "idle" /\ call'[g].c = None
<1>1. call \in [G -> Calling] BY CallsTyped
<1>2. Idle \in Calling BY DEF Calling, Idle
<1>3. call'[g] = Idle /\ \A h \in G \ {g} : call'[h] = call[h] BY <1>1
<1>. QED BY <1>1, <1>2, <1>3 DEF Idle

\* Who wants a signal.
LEMMA WantingFinite ==
    \A n : IsFiniteSet(Wanting(n)) /\ Wanters(n) \in Nat
           /\ (Wanters(n) = 0 <=> Wanting(n) = {})
<1>. SUFFICES ASSUME NEW n
              PROVE  IsFiniteSet(Wanting(n)) /\ Wanters(n) \in Nat
                     /\ (Wanters(n) = 0 <=> Wanting(n) = {})
  OBVIOUS
<1>1. Wanting(n) \in SUBSET C /\ IsFiniteSet(C) BY SignalsAssumption DEF Wanting
<1>2. IsFiniteSet(Wanting(n)) BY <1>1, FS_Subset
<1>. QED BY <1>2, FS_CardinalityType, FS_EmptySet DEF Wanters

LEMMA OneMore ==
    ASSUME NEW S, IsFiniteSet(S), NEW x, x \notin S
    PROVE  Cardinality(S \cup {x}) = Cardinality(S) + 1
BY FS_AddElement

-----------------------------------------------------------------------------
\* The entries of the list and the calls behind a barrier, when no Stop moves.
LEMMA StopsKept ==
    ASSUME ListInv, OneStop, OwnEntry, UNCHANGED <<stopping, crossed>>,
           \A h \in G : /\ Stops(h)' <=> Stops(h)
                        /\ Stops(h) => /\ call'[h].pc = call[h].pc
                                       /\ call'[h].c = call[h].c
                                       /\ call'[h].mask = call[h].mask
    PROVE  (ListInv /\ OneStop /\ OwnEntry)'
<1>1. \A c \in C : Leaving(c)' = Leaving(c) /\ Listed(c)' = Listed(c)
  BY DEF Leaving, Listed, Stops
<1>2. ListInv' BY <1>1 DEF ListInv
<1>3. OneStop' BY DEF OneStop
<1>4. OwnEntry' BY DEF OwnEntry, Stops
<1>. QED BY <1>2, <1>3, <1>4

-----------------------------------------------------------------------------
(***************************************************************************)
(* Every step keeps the invariant                                          *)
(***************************************************************************)
LEMMA SignalsStart == SignalsInit => SignalInv
<1>. SUFFICES ASSUME SignalsInit PROVE SignalInv OBVIOUS
<1>1. /\ call = [g \in G |-> Idle] /\ lock = None /\ stopping = <<>>
      /\ handlers = [c \in C |-> None] /\ ref = [n \in Signal |-> 0]
      /\ enabled = {} /\ ignored = {} /\ mode = 0 /\ poll.pc = "none"
      /\ console \in BOOLEAN
  BY DEF SignalsInit
<1>2. SignalsTypeOK
  <2>1. call \in [G -> Calling] BY <1>1 DEF Calling, Idle
  <2>2. poll \in [pc : {"none", "look", "asleep", "begin", "take",
                        "interrupt", "measure", "resized"},
                  enabled : SUBSET Signal, measured : BOOLEAN]
    BY DEF SignalsInit
  <2>3. stopping \in Seq([c : C, mask : SUBSET Signal]) BY <1>1
  <2>4. calls \in 0 .. MaxCalls BY SignalsAssumption DEF SignalsInit
  <2>5. /\ wake \in BOOLEAN /\ pending \in BOOLEAN /\ failed \in BOOLEAN
        /\ resized \in BOOLEAN
    BY DEF SignalsInit
  <2>6. /\ handlers \in [C -> (SUBSET Signal) \cup {None}]
        /\ ref \in [Signal -> Int] /\ lock \in G \cup {None}
        /\ mode \in 0 .. 2
    BY <1>1 DEF SignalsInit
  <2>7. full \subseteq C /\ owed \subseteq C /\ crossed \subseteq C
    BY DEF SignalsInit
  <2>. QED
    BY <1>1, <2>1, <2>2, <2>3, <2>4, <2>5, <2>6, <2>7 DEF SignalsTypeOK, Calling
<1>3. \A g \in G : call[g].pc = "idle" BY <1>1 DEF Idle
<1>4. CallInv BY <1>1, <1>3, SignalsAssumption DEF CallInv, Holding, Stops, At
<1>5. \A n : Wanters(n) = 0
  <2>1. \A n : Wanting(n) = {} BY <1>1 DEF Wanting, Wants
  <2>. QED BY <2>1, WantingFinite
<1>6. \A n : ~Opening(n) /\ ~Closing(n) /\ ~Woken(n)
  BY <1>1 DEF Opening, Closing, Woken
<1>7. CountInv BY <1>1, <1>5, <1>6 DEF CountInv
<1>8. EnabledInv BY <1>1, <1>6 DEF EnabledInv
<1>9. ListInv
  <2>1. \A c \in C : Listed(c) = {} /\ Leaving(c) = {}
    BY <1>1, <1>3 DEF Listed, Leaving
  <2>. QED BY <2>1 DEF ListInv
<1>10. OneStop /\ OwnEntry /\ OwedInv
  BY <1>1, <1>3 DEF OneStop, OwnEntry, OwedInv, Stops
<1>. QED BY <1>2, <1>4, <1>7, <1>8, <1>9, <1>10 DEF SignalInv

LEMMA NotifyKeeps ==
    ASSUME SignalInv, NEW g \in G, NEW c \in C, NEW S \in SUBSET Signal,
           Notify(g, c, S)
    PROVE  SignalInv'
<1>0. SignalsTypeOK /\ CallInv BY DEF SignalInv
<1>1. Enter(g, "add", c, {}, S, FALSE) BY DEF Notify
<1>2. /\ call' \in [G -> Calling]
      /\ \A h \in G \ {g} : call'[h] = call[h]
      /\ call'[g].pc = "add" /\ call'[g].c = c
      /\ call[g].pc = "idle" /\ lock = None /\ lock' = g
      /\ calls' \in 0 .. MaxCalls
  BY <1>0, <1>1, EnterFacts DEF PCsOfCall
<1>3. /\ handlers' = [handlers EXCEPT ![c] = IF @ = None THEN {} ELSE @]
      /\ UNCHANGED <<ref, stopping, native, wake, tty, poll, full,
                     owed, crossed, failed>>
  BY DEF Notify
<1>4. /\ handlers' \in [C -> (SUBSET Signal) \cup {None}]
      /\ handlers'[c] # None /\ \A d \in C \ {c} : handlers'[d] = handlers[d]
      /\ \A d \in C, n \in Signal : Wants(d, n)' <=> Wants(d, n)
  BY <1>0, <1>3, SignalsAssumption DEF SignalsTypeOK, Wants
<1>5. SignalsTypeOK'
  BY <1>0, <1>2, <1>3, <1>4 DEF SignalsTypeOK, Calling, native, tty
<1>6. None \notin G /\ \A h \in G : call[h].pc \notin Holding
  BY <1>0, <1>2, SignalsAssumption DEF CallInv
<1>7. CallInv'
  BY <1>0, <1>2, <1>4, <1>6 DEF CallInv, Holding, Stops, At
<1>8. \A n \in Signal : /\ Wanters(n)' = Wanters(n)
                        /\ ~Opening(n)' /\ ~Closing(n)' /\ ~Woken(n)'
                        /\ ~Opening(n) /\ ~Closing(n) /\ ~Woken(n)
  BY <1>2, <1>4 DEF Wanters, Wanting, Opening, Closing, Woken, At
<1>9. ~failed' => (CountInv /\ EnabledInv)'
  <2>1. Interrupt \in Signal BY DEF Signal
  <2>. QED BY <1>3, <1>8, <2>1 DEF SignalInv, CountInv, EnabledInv, native, tty
<1>10. (ListInv /\ OneStop /\ OwnEntry)'
  <2>1. \A h \in G : /\ Stops(h)' <=> Stops(h)
                     /\ Stops(h) => call'[h] = call[h]
    BY <1>2 DEF Stops
  <2>. QED BY <1>3, <2>1, StopsKept DEF SignalInv
<1>11. OwedInv'
  <2>1. \A d \in C : d \in Waiting => d \in Waiting'
    BY <1>2, <1>4 DEF Waiting, Signal
  <2>. QED BY <1>3, <2>1 DEF SignalInv, OwedInv, Waiting
<1>. QED BY <1>5, <1>7, <1>9, <1>10, <1>11 DEF SignalInv

\* One goroutine holds the mutex.
LEMMA HolderOnly ==
    ASSUME SignalsTypeOK, CallInv, NEW g \in G, call[g].pc \in Holding
    PROVE  /\ lock = g /\ g # None
           /\ \A h \in G \ {g} : call[h].pc \notin Holding
BY SignalsAssumption DEF CallInv

\* What the marking of signal n for channel c changes.
LEMMA MarkFacts ==
    ASSUME SignalsTypeOK, NEW c \in C, handlers[c] # None, NEW n \in Signal,
           handlers' = [handlers EXCEPT ![c] = @ \cup {n}]
    PROVE  /\ handlers' \in [C -> (SUBSET Signal) \cup {None}]
           /\ handlers'[c] # None
           /\ \A d \in C \ {c} : handlers'[d] = handlers[d]
           /\ \A m \in Signal : m # n => Wanters(m)' = Wanters(m)
           /\ Wanters(n)' = Wanters(n) + (IF Wants(c, n) THEN 0 ELSE 1)
           /\ \A d \in C, m \in Signal : Wants(d, m) => Wants(d, m)'
<1>1. handlers \in [C -> (SUBSET Signal) \cup {None}] BY DEF SignalsTypeOK
<1>2. handlers[c] \in SUBSET Signal BY <1>1
<1>3. handlers[c] \cup {n} \in SUBSET Signal BY <1>2
<1>4. handlers[c] \cup {n} # None BY <1>3, SignalsAssumption
<1>5. handlers'[c] = handlers[c] \cup {n} /\ \A d \in C \ {c} : handlers'[d] = handlers[d]
  BY <1>1
<1>6. handlers' \in [C -> (SUBSET Signal) \cup {None}] BY <1>1, <1>3
<1>7. /\ \A m \in Signal : m # n => Wanting(m)' = Wanting(m)
      /\ Wanting(n)' = Wanting(n) \cup {c}
      /\ \A d \in C, m \in Signal : Wants(d, m) => Wants(d, m)'
  BY <1>4, <1>5 DEF Wanting, Wants
<1>8. Wanters(n)' = Wanters(n) + (IF Wants(c, n) THEN 0 ELSE 1)
  <2>1. c \in Wanting(n) <=> Wants(c, n) BY DEF Wanting
  <2>2. CASE Wants(c, n)
    <3>1. Wanting(n)' = Wanting(n) BY <1>7, <2>1, <2>2
    <3>. QED BY <2>2, <3>1, WantingFinite DEF Wanters
  <2>3. CASE ~Wants(c, n)
    <3>1. Cardinality(Wanting(n) \cup {c}) = Cardinality(Wanting(n)) + 1
      BY <2>1, <2>3, WantingFinite, OneMore
    <3>. QED BY <1>7, <2>3, <3>1 DEF Wanters
  <2>. QED BY <2>2, <2>3
<1>9. \A m \in Signal : m # n => Wanters(m)' = Wanters(m) BY <1>7 DEF Wanters
<1>. QED BY <1>4, <1>5, <1>6, <1>7, <1>8, <1>9

\* A call that is no Stop goes on: the Stops are not concerned, and nobody
\* stops to wait for an interrupt.
LEMMA OthersKept ==
    ASSUME SignalInv, NEW g \in G, ~Stops(g), ~Stops(g)',
           \A h \in G \ {g} : call'[h] = call[h],
           UNCHANGED <<stopping, crossed, poll, owed>>,
           \A c \in C : Wants(c, Interrupt) => Wants(c, Interrupt)'
    PROVE  (ListInv /\ OneStop /\ OwnEntry /\ OwedInv)'
<1>1. \A h \in G : /\ Stops(h)' <=> Stops(h)
                   /\ Stops(h) => call'[h] = call[h]
  BY DEF Stops
<1>2. (ListInv /\ OneStop /\ OwnEntry)' BY <1>1, StopsKept DEF SignalInv
<1>3. \A c \in C : c \in Waiting => c \in Waiting' BY <1>1 DEF Waiting, Stops
<1>4. OwedInv' BY <1>3 DEF SignalInv, OwedInv, Waiting
<1>. QED BY <1>2, <1>4

LEMMA AddKeeps == ASSUME SignalInv, NEW g \in G, Add(g) PROVE SignalInv'
<1>0. SignalsTypeOK /\ CallInv BY DEF SignalInv
<1>1. PICK n \in Todo(g) :
        /\ Wants(call[g].c, n) \/ ref[n] # 0
        /\ handlers' = [handlers EXCEPT ![call[g].c] = @ \cup {n}]
        /\ ref' = [ref EXCEPT ![n] = IF Wants(call[g].c, n) THEN @ ELSE @ + 1]
        /\ Did(g, n, "add")
  BY DEF Add
<1>2. /\ call[g].pc = "add"
      /\ UNCHANGED <<stopping, lock, native, wake, tty, poll, full, history>>
  BY DEF Add, At
<1>3. call[g].c \in C /\ handlers[call[g].c] # None /\ n \in Signal
  BY <1>0, <1>2, TodoNext DEF CallInv
<1>4. lock = g /\ g # None /\ \A h \in G \ {g} : call[h].pc \notin Holding
  BY <1>0, <1>2, HolderOnly DEF Holding
<1>. DEFINE c == call[g].c
<1>5. /\ handlers' \in [C -> (SUBSET Signal) \cup {None}]
      /\ handlers'[c] # None
      /\ \A m \in Signal : m # n => Wanters(m)' = Wanters(m)
      /\ Wanters(n)' = Wanters(n) + (IF Wants(c, n) THEN 0 ELSE 1)
      /\ \A d \in C, m \in Signal : Wants(d, m) => Wants(d, m)'
  BY <1>0, <1>1, <1>3, MarkFacts
<1>6. /\ call' \in [G -> Calling]
      /\ \A h \in G \ {g} : call'[h] = call[h]
      /\ call'[g].pc = "add" /\ call'[g].c = call[g].c
  BY <1>0, <1>1, DidFacts DEF PCsOfCall
<1>7. SignalsTypeOK'
  <2>1. ref' \in [Signal -> Int]
    <3>1. ref \in [Signal -> Int] BY <1>0 DEF SignalsTypeOK
    <3>2. (IF Wants(call[g].c, n) THEN ref[n] ELSE ref[n] + 1) \in Int
      BY <1>3, <3>1
    <3>. QED BY <1>1, <1>3, <3>1, <3>2
  <2>. QED BY <1>0, <1>2, <1>5, <1>6, <2>1 DEF SignalsTypeOK, Calling, native,
           tty, history
<1>8. CallInv'
  BY <1>0, <1>2, <1>3, <1>4, <1>5, <1>6 DEF CallInv, Holding, Stops, At
<1>9. \A m : /\ ~Opening(m)' /\ ~Closing(m)' /\ ~Woken(m)'
             /\ ~Opening(m) /\ ~Closing(m) /\ ~Woken(m)
  BY <1>2, <1>4, <1>6 DEF Opening, Closing, Woken, At
<1>10. ~failed' => (CountInv /\ EnabledInv)'
  <2>. SUFFICES ASSUME ~failed PROVE (CountInv /\ EnabledInv)'
    BY <1>2 DEF history
  <2>1. CountInv /\ EnabledInv BY DEF SignalInv
  <2>2. \A m \in Signal : ref[m] = Wanters(m) /\ ref[m] \in Nat
    BY <1>9, <2>1, WantingFinite DEF CountInv
  <2>3. \A m \in Signal : m # n => ref'[m] = ref[m]
    BY <1>0, <1>1 DEF SignalsTypeOK
  <2>4. ref'[n] = IF Wants(c, n) THEN ref[n] ELSE ref[n] + 1
    BY <1>0, <1>1, <1>3 DEF SignalsTypeOK
  <2>5. Wants(c, n) => Wanting(n) # {} BY <1>3 DEF Wanting
  <2>6. ref'[n] = Wanters(n)' BY <1>3, <1>5, <2>2, <2>4
  <2>7. CountInv' BY <1>5, <1>9, <2>2, <2>3, <2>6 DEF CountInv
  <2>8. ref[n] > 0 /\ ref'[n] > 0
    <3>1. CASE Wants(c, n)
      <4>1. Wanters(n) # 0 BY <2>5, <3>1, WantingFinite
      <4>. QED BY <1>3, <2>2, <2>4, <3>1, <4>1
    <3>2. CASE ~Wants(c, n) BY <1>1, <1>3, <2>2, <2>4, <3>2
    <3>. QED BY <3>1, <3>2
  <2>9. \A m \in Signal : ref'[m] > 0 <=> ref[m] > 0 BY <2>3, <2>8
  <2>10. Interrupt \in Signal BY DEF Signal
  <2>11. EnabledInv'
    BY <1>2, <1>9, <2>1, <2>9, <2>10 DEF EnabledInv, native, tty
  <2>. QED BY <2>7, <2>11
<1>11. (ListInv /\ OneStop /\ OwnEntry /\ OwedInv)'
  <2>1. ~Stops(g) /\ ~Stops(g)' BY <1>2, <1>6 DEF Stops
  <2>2. Interrupt \in Signal BY DEF Signal
  <2>. QED BY <1>2, <1>5, <1>6, <2>1, <2>2, OthersKept DEF history
<1>. QED BY <1>7, <1>8, <1>10, <1>11 DEF SignalInv

LEMMA AddFirstKeeps == ASSUME SignalInv, NEW g \in G, AddFirst(g) PROVE SignalInv'
<1>0. SignalsTypeOK /\ CallInv BY DEF SignalInv
<1>. DEFINE c == call[g].c
<1>1. PICK n \in Todo(g) :
        /\ ~Wants(c, n) /\ ref[n] = 0
        /\ handlers' = [handlers EXCEPT ![c] = @ \cup {n}]
        /\ IF n = Interrupt /\ ~console
           THEN LeaveCall(g) /\ failed' = TRUE /\ UNCHANGED mode
           ELSE /\ Goto(g, "enable")
                /\ mode' = IF n = Interrupt THEN 1 ELSE mode
                /\ UNCHANGED <<lock, failed>>
  BY DEF AddFirst
<1>2. /\ call[g].pc = "add"
      /\ UNCHANGED <<ref, stopping, native, wake, pending, console, resized, poll,
                     full, owed, crossed, calls>>
  BY DEF AddFirst, At
<1>3. c \in C /\ handlers[c] # None /\ n \in Signal
  BY <1>0, <1>2, TodoNext DEF CallInv
<1>4. lock = g /\ g # None /\ \A h \in G \ {g} : call[h].pc \notin Holding
  BY <1>0, <1>2, HolderOnly DEF Holding
<1>5. /\ handlers' \in [C -> (SUBSET Signal) \cup {None}]
      /\ handlers'[c] # None
      /\ \A m \in Signal : m # n => Wanters(m)' = Wanters(m)
      /\ Wanters(n)' = Wanters(n) + (IF Wants(c, n) THEN 0 ELSE 1)
      /\ \A d \in C, m \in Signal : Wants(d, m) => Wants(d, m)'
  BY <1>0, <1>1, <1>3, MarkFacts
<1>6. CASE n = Interrupt /\ ~console
  <2>1. call' = [call EXCEPT ![g] = Idle] /\ lock' = None /\ failed' = TRUE /\ mode' = mode
    BY <1>1, <1>6 DEF LeaveCall
  <2>2. /\ call' \in [G -> Calling]
        /\ \A h \in G \ {g} : call'[h] = call[h]
        /\ call'[g].pc = "idle"
    BY <1>0, <2>1, LeaveFacts
  <2>3. SignalsTypeOK'
    BY <1>0, <1>2, <1>5, <2>1, <2>2 DEF SignalsTypeOK, Calling, native
  <2>4. CallInv'
    BY <1>0, <1>4, <2>1, <2>2, SignalsAssumption DEF CallInv, Holding, Stops, At
  <2>5. ~Stops(g) /\ ~Stops(g)' BY <1>2, <2>2 DEF Stops
  <2>6. (ListInv /\ OneStop /\ OwnEntry /\ OwedInv)'
    BY <1>2, <1>5, <2>2, <2>5, OthersKept DEF Signal
  <2>. QED BY <2>1, <2>3, <2>4, <2>6 DEF SignalInv
<1>7. CASE ~(n = Interrupt /\ ~console)
  <2>1. /\ Goto(g, "enable") /\ mode' = (IF n = Interrupt THEN 1 ELSE mode)
        /\ UNCHANGED <<lock, failed>>
    BY <1>1, <1>7
  <2>2. /\ call' \in [G -> Calling]
        /\ \A h \in G \ {g} : call'[h] = call[h]
        /\ call'[g].pc = "enable" /\ call'[g].c = call[g].c
        /\ call'[g].todo = call[g].todo
    BY <1>0, <2>1, GotoFacts DEF PCsOfCall
  <2>3. SignalsTypeOK'
    <3>1. mode' \in 0 .. 2 BY <1>0, <2>1 DEF SignalsTypeOK
    <3>. QED
      BY <1>0, <1>2, <1>5, <2>1, <2>2, <3>1 DEF SignalsTypeOK, Calling, native
  <2>4. CallInv'
    <3>1. call[g].todo # {} BY <1>0, TodoNext
    <3>. QED
      BY <1>0, <1>3, <1>4, <1>5, <2>1, <2>2, <3>1
        DEF CallInv, Holding, Stops, At
  <2>5. /\ \A m : ~Opening(m) /\ ~Closing(m) /\ ~Woken(m)
        /\ \A m : ~Closing(m)' /\ ~Woken(m)'
    BY <1>2, <1>4, <2>1, <2>2 DEF Opening, Closing, Woken, At
  <2>6. \A m : Opening(m)' <=> m = n
    <3>1. Todo(g)' = Todo(g) BY <1>2, <2>2 DEF Todo, At
    <3>2. \A m : m \in Todo(g) <=> m = n BY <1>0, TodoNext
    <3>. QED BY <1>4, <2>1, <2>2, <3>1, <3>2 DEF Opening
  <2>7. ~failed' => (CountInv /\ EnabledInv)'
    <3>. SUFFICES ASSUME ~failed PROVE (CountInv /\ EnabledInv)' BY <2>1
    <3>1. CountInv /\ EnabledInv BY DEF SignalInv
    <3>2. \A m \in Signal : ref[m] = Wanters(m)
      BY <2>5, <3>1, WantingFinite DEF CountInv
    <3>3. Wanters(n)' = 1 BY <1>1, <1>3, <1>5, <3>2
    <3>4. CountInv' BY <1>1, <1>2, <1>5, <2>5, <2>6, <3>2, <3>3 DEF CountInv
    <3>5. EnabledInv'
      <4>1. n \notin enabled BY <1>1, <1>3, <2>5, <3>1 DEF EnabledInv
      <4>2. n = Interrupt => console BY <1>7
      <4>3. /\ enabled' = enabled /\ ignored' = ignored /\ console' = console
            /\ ref' = ref
        BY <1>2 DEF native
      <4>4. \A m \in Signal : m \in enabled' <=> ref'[m] > 0 \/ Woken(m)'
        BY <2>5, <3>1, <4>3 DEF EnabledInv
      <4>5. CASE n = Interrupt
        BY <2>1, <2>6, <3>1, <4>2, <4>3, <4>4, <4>5 DEF EnabledInv
      <4>6. CASE n # Interrupt
        BY <2>1, <2>5, <2>6, <3>1, <4>3, <4>4, <4>6 DEF EnabledInv
      <4>. QED BY <4>5, <4>6
    <3>. QED BY <3>4, <3>5
  <2>8. ~Stops(g) /\ ~Stops(g)' BY <1>2, <2>2 DEF Stops
  <2>9. (ListInv /\ OneStop /\ OwnEntry /\ OwedInv)'
    BY <1>2, <1>5, <2>2, <2>8, OthersKept DEF Signal
  <2>. QED BY <2>3, <2>4, <2>7, <2>9 DEF SignalInv
<1>. QED BY <1>6, <1>7

LEMMA EnableKeeps == ASSUME SignalInv, NEW g \in G, Enable(g) PROVE SignalInv'
<1>0. SignalsTypeOK /\ CallInv BY DEF SignalInv
<1>1. /\ call[g].pc = "enable" /\ Goto(g, "wake")
      /\ enabled' = enabled \cup Todo(g) /\ ignored' = ignored \ Todo(g)
      /\ UNCHANGED <<table, lock, wake, tty, poll, full, history>>
  BY DEF Enable, At
<1>2. /\ call' \in [G -> Calling]
      /\ \A h \in G \ {g} : call'[h] = call[h]
      /\ call'[g].pc = "wake" /\ call'[g].c = call[g].c
      /\ call'[g].todo = call[g].todo
  BY <1>0, <1>1, GotoFacts DEF PCsOfCall
<1>3. lock = g /\ g # None /\ \A h \in G \ {g} : call[h].pc \notin Holding
  BY <1>0, <1>1, HolderOnly DEF Holding
<1>4. Todo(g) \subseteq Signal /\ Todo(g)' = Todo(g)
  <2>1. call[g].pc # "drop" /\ call'[g].pc # "drop" BY <1>1, <1>2
  <2>. QED BY <1>0, <1>2, <2>1, TodoNext DEF Todo, At
<1>5. SignalsTypeOK'
  <2>1. enabled' \subseteq Signal /\ ignored' \subseteq Signal
    BY <1>0, <1>1, <1>4 DEF SignalsTypeOK
  <2>. QED
    BY <1>0, <1>1, <1>2, <2>1 DEF SignalsTypeOK, Calling, table, tty, history
<1>6. CallInv'
  BY <1>0, <1>1, <1>2, <1>3 DEF CallInv, Holding, Stops, At, table
<1>7. \A m : /\ Opening(m)' <=> Opening(m)
             /\ Opening(m) <=> m \in Todo(g)
             /\ Woken(m)' <=> m \in Todo(g)
             /\ ~Woken(m) /\ ~Closing(m) /\ ~Closing(m)'
             /\ Wanters(m)' = Wanters(m)
  BY <1>1, <1>2, <1>3, <1>4 DEF Opening, Closing, Woken, At, Wanters, Wanting,
     Wants, table
<1>8. ~failed' => (CountInv /\ EnabledInv)'
  <2>. SUFFICES ASSUME ~failed PROVE (CountInv /\ EnabledInv)'
    BY <1>1 DEF history
  <2>1. CountInv /\ EnabledInv BY DEF SignalInv
  <2>2. CountInv' BY <1>1, <1>7, <2>1 DEF CountInv, table
  <2>3. ref' = ref /\ mode' = mode /\ console' = console BY <1>1 DEF table, tty
  <2>4. EnabledInv' BY <1>1, <1>7, <2>1, <2>3 DEF EnabledInv
  <2>. QED BY <2>2, <2>4
<1>9. (ListInv /\ OneStop /\ OwnEntry /\ OwedInv)'
  <2>1. ~Stops(g) /\ ~Stops(g)' BY <1>1, <1>2 DEF Stops
  <2>2. \A c \in C : Wants(c, Interrupt)' <=> Wants(c, Interrupt)
    BY <1>1 DEF Wants, table
  <2>. QED BY <1>1, <1>2, <2>1, <2>2, OthersKept DEF table, history
<1>. QED BY <1>5, <1>6, <1>8, <1>9 DEF SignalInv

LEMMA WakeKeeps == ASSUME SignalInv, NEW g \in G, Wake(g) PROVE SignalInv'
<1>0. SignalsTypeOK /\ CallInv BY DEF SignalInv
<1>1. PICK n \in Todo(g) : ref' = [ref EXCEPT ![n] = @ + 1] /\ Did(g, n, "add")
  BY DEF Wake
<1>2. /\ call[g].pc = "wake" /\ wake' = TRUE
      /\ poll' = IF poll.pc = "none" THEN [poll EXCEPT !.pc = "look"] ELSE poll
      /\ UNCHANGED <<handlers, stopping, lock, native, tty, full, history>>
  BY DEF Wake, At
<1>3. /\ call' \in [G -> Calling]
      /\ \A h \in G \ {g} : call'[h] = call[h]
      /\ call'[g].pc = "add" /\ call'[g].c = call[g].c
  BY <1>0, <1>1, DidFacts DEF PCsOfCall
<1>4. lock = g /\ g # None /\ \A h \in G \ {g} : call[h].pc \notin Holding
  BY <1>0, <1>2, HolderOnly DEF Holding
<1>5. n \in Signal /\ \A m : m \in Todo(g) <=> m = n BY <1>0, TodoNext
<1>6. ref \in [Signal -> Int] BY <1>0 DEF SignalsTypeOK
<1>7. ref'[n] = ref[n] + 1 /\ \A m \in Signal : m # n => ref'[m] = ref[m]
  BY <1>1, <1>5, <1>6
<1>8. /\ poll' \in [pc : {"none", "look", "asleep", "begin", "take",
                          "interrupt", "measure", "resized"},
                    enabled : SUBSET Signal, measured : BOOLEAN]
      /\ poll'.pc = "interrupt" => poll.pc = "interrupt"
  BY <1>0, <1>2 DEF SignalsTypeOK
<1>9. SignalsTypeOK'
  <2>1. ref' \in [Signal -> Int] BY <1>1, <1>5, <1>6
  <2>. QED BY <1>0, <1>2, <1>3, <1>8, <2>1 DEF SignalsTypeOK, Calling, native,
           tty, history
<1>10. CallInv'
  BY <1>0, <1>2, <1>3, <1>4 DEF CallInv, Holding, Stops, At
<1>11. \A m : /\ ~Opening(m)' /\ ~Closing(m)' /\ ~Woken(m)'
              /\ Opening(m) <=> m = n
              /\ Woken(m) <=> m = n
              /\ ~Closing(m) /\ Wanters(m)' = Wanters(m)
  BY <1>2, <1>3, <1>4, <1>5
    DEF Opening, Closing, Woken, At, Wanters, Wanting, Wants
<1>12. ~failed' => (CountInv /\ EnabledInv)'
  <2>. SUFFICES ASSUME ~failed PROVE (CountInv /\ EnabledInv)'
    BY <1>2 DEF history
  <2>1. CountInv /\ EnabledInv BY DEF SignalInv
  <2>2. ref[n] = 0 /\ Wanters(n) = 1 BY <1>5, <1>11, <2>1 DEF CountInv
  <2>3. CountInv' BY <1>7, <1>11, <2>1, <2>2 DEF CountInv
  <2>4. \A m \in Signal : ref'[m] > 0 <=> ref[m] > 0 \/ m = n BY <1>7, <2>2
  <2>5. /\ mode' = mode /\ console' = console
        /\ enabled' = enabled /\ ignored' = ignored
    BY <1>2 DEF tty, native
  <2>6. Interrupt \in Signal BY DEF Signal
  <2>7. EnabledInv' BY <1>11, <2>1, <2>4, <2>5, <2>6 DEF EnabledInv
  <2>. QED BY <2>3, <2>7
<1>13. (ListInv /\ OneStop /\ OwnEntry)'
  <2>1. \A h \in G : /\ Stops(h)' <=> Stops(h)
                     /\ Stops(h) => call'[h] = call[h]
    BY <1>2, <1>3 DEF Stops
  <2>. QED BY <1>2, <2>1, StopsKept DEF SignalInv, history
<1>14. OwedInv'
  <2>1. \A d \in C : d \in Waiting => d \in Waiting'
    BY <1>2, <1>3 DEF Waiting, Wants
  <2>. QED BY <1>2, <1>8, <2>1 DEF SignalInv, OwedInv, Waiting, history
<1>. QED BY <1>9, <1>10, <1>12, <1>13, <1>14 DEF SignalInv

\* A goroutine enters or leaves a call at which the table does not change.
LEMMA CancelKeeps ==
    ASSUME SignalInv, NEW g \in G, NEW S \in SUBSET Signal, NEW ignore \in BOOLEAN,
           Cancel(g, S, ignore)
    PROVE  SignalInv'
<1>0. SignalsTypeOK /\ CallInv BY DEF SignalInv
<1>1. /\ Enter(g, "remove", None, {}, S, ignore)
      /\ UNCHANGED <<table, native, wake, tty, poll, full, owed, crossed, failed>>
  BY DEF Cancel
<1>2. /\ call' \in [G -> Calling]
      /\ \A h \in G \ {g} : call'[h] = call[h]
      /\ call'[g].pc = "remove" /\ call'[g].c = None
      /\ call[g].pc = "idle" /\ lock = None /\ lock' = g
      /\ calls' \in 0 .. MaxCalls
  <2>. DEFINE r == [pc |-> "remove", c |-> None, mask |-> {}, todo |-> S,
                    ignore |-> ignore]
  <2>1. r \in Calling BY DEF Calling
  <2>2. r.pc = "remove" /\ r.c = None OBVIOUS
  <2>3. /\ call[g].pc = "idle" /\ lock = None /\ lock' = g
        /\ calls < MaxCalls /\ calls' = calls + 1
        /\ call' = [call EXCEPT ![g] = r]
    BY <1>1 DEF Enter, At
  <2>. HIDE DEF r
  <2>4. call \in [G -> Calling] BY <1>0, CallsTyped
  <2>5. call'[g] = r /\ call' \in [G -> Calling]
        /\ \A h \in G \ {g} : call'[h] = call[h]
    BY <2>1, <2>3, <2>4
  <2>6. calls' \in 0 .. MaxCalls
    BY <1>0, <2>3, SignalsAssumption DEF SignalsTypeOK
  <2>. QED BY <2>2, <2>3, <2>5, <2>6
<1>3. SignalsTypeOK'
  BY <1>0, <1>1, <1>2 DEF SignalsTypeOK, Calling, native, tty, table
<1>4. None \notin G /\ \A h \in G : call[h].pc \notin Holding
  BY <1>0, <1>2, SignalsAssumption DEF CallInv
<1>5. CallInv' BY <1>0, <1>1, <1>2, <1>4 DEF CallInv, Holding, Stops, At, table
<1>6. \A m : /\ ~Opening(m)' /\ ~Closing(m)' /\ ~Woken(m)'
             /\ ~Opening(m) /\ ~Closing(m) /\ ~Woken(m)
             /\ Wanters(m)' = Wanters(m)
  BY <1>1, <1>2 DEF Opening, Closing, Woken, At, Wanters, Wanting, Wants, table
<1>7. ~failed' => (CountInv /\ EnabledInv)'
  BY <1>1, <1>6 DEF SignalInv, CountInv, EnabledInv, native, tty, table
<1>8. (ListInv /\ OneStop /\ OwnEntry /\ OwedInv)'
  <2>1. ~Stops(g) /\ ~Stops(g)' BY <1>2 DEF Stops
  <2>2. \A c \in C : Wants(c, Interrupt)' <=> Wants(c, Interrupt)
    BY <1>1 DEF Wants, table
  <2>. QED BY <1>1, <1>2, <2>1, <2>2, OthersKept DEF table
<1>. QED BY <1>3, <1>5, <1>7, <1>8 DEF SignalInv

LEMMA ReturnKeeps == ASSUME SignalInv, NEW g \in G, Return(g) PROVE SignalInv'
<1>0. SignalsTypeOK /\ CallInv BY DEF SignalInv
<1>1. /\ call[g].pc \in {"add", "remove"}
      /\ call' = [call EXCEPT ![g] = Idle] /\ lock' = None
      /\ UNCHANGED <<table, native, wake, tty, poll, full, history>>
  BY DEF Return, At, LeaveCall
<1>2. /\ call' \in [G -> Calling]
      /\ \A h \in G \ {g} : call'[h] = call[h]
      /\ call'[g].pc = "idle"
  BY <1>0, <1>1, LeaveFacts
<1>3. SignalsTypeOK'
  BY <1>0, <1>1, <1>2 DEF SignalsTypeOK, Calling, native, tty, table, history
<1>4. lock = g /\ g # None /\ \A h \in G \ {g} : call[h].pc \notin Holding
  BY <1>0, <1>1, HolderOnly DEF Holding
<1>5. CallInv'
  BY <1>0, <1>1, <1>2, <1>4, SignalsAssumption
    DEF CallInv, Holding, Stops, At, table
<1>6. \A m : /\ ~Opening(m)' /\ ~Closing(m)' /\ ~Woken(m)'
             /\ ~Opening(m) /\ ~Closing(m) /\ ~Woken(m)
             /\ Wanters(m)' = Wanters(m)
  BY <1>1, <1>4 DEF Opening, Closing, Woken, At, Wanters, Wanting, Wants, table
<1>7. ~failed' => (CountInv /\ EnabledInv)'
  BY <1>1, <1>6 DEF SignalInv, CountInv, EnabledInv, native, tty, table, history
<1>8. (ListInv /\ OneStop /\ OwnEntry /\ OwedInv)'
  <2>1. ~Stops(g) /\ ~Stops(g)' BY <1>1, <1>2 DEF Stops
  <2>2. \A c \in C : Wants(c, Interrupt)' <=> Wants(c, Interrupt)
    BY <1>1 DEF Wants, table
  <2>. QED BY <1>1, <1>2, <2>1, <2>2, OthersKept DEF table, history
<1>. QED BY <1>3, <1>5, <1>7, <1>8 DEF SignalInv

LEMMA OneLess ==
    ASSUME NEW S, IsFiniteSet(S), NEW x \in S
    PROVE  Cardinality(S \ {x}) = Cardinality(S) - 1
BY FS_RemoveElement

LEMMA StopKeeps ==
    ASSUME SignalInv, NEW g \in G, NEW c \in C, Stop(g, c) PROVE SignalInv'
<1>0. SignalsTypeOK /\ CallInv BY DEF SignalInv
<1>1. /\ handlers[c] # None /\ handlers[c] \in SUBSET Signal
      /\ Enter(g, "drop", c, handlers[c], handlers[c], FALSE)
      /\ handlers' = [handlers EXCEPT ![c] = None]
      /\ UNCHANGED <<ref, stopping, native, wake, tty, poll, full, owed, failed>>
  BY <1>0 DEF Stop, SignalsTypeOK
<1>2. /\ call' \in [G -> Calling]
      /\ \A h \in G \ {g} : call'[h] = call[h]
      /\ call'[g].pc = "drop" /\ call'[g].c = c /\ call'[g].mask = handlers[c]
      /\ call'[g].todo = handlers[c]
      /\ call[g].pc = "idle" /\ lock = None /\ lock' = g
      /\ calls' \in 0 .. MaxCalls
  BY <1>0, <1>1, EnterFacts DEF PCsOfCall
<1>3. /\ crossed' \subseteq C /\ crossed \subseteq crossed'
      /\ \A k \in G : call[k].c = c => c \in crossed'
  BY <1>0 DEF Stop, SignalsTypeOK
<1>4. /\ handlers' \in [C -> (SUBSET Signal) \cup {None}]
      /\ handlers'[c] = None /\ \A d \in C \ {c} : handlers'[d] = handlers[d]
  BY <1>0, <1>1 DEF SignalsTypeOK
<1>5. SignalsTypeOK'
  BY <1>0, <1>1, <1>2, <1>3, <1>4 DEF SignalsTypeOK, Calling, native, tty
<1>6. None \notin G /\ \A h \in G : call[h].pc \notin Holding
  BY <1>0, <1>2, SignalsAssumption DEF CallInv
<1>7. CallInv' BY <1>0, <1>2, <1>4, <1>6 DEF CallInv, Holding, Stops, At
<1>8. \A m : /\ ~Opening(m)' /\ ~Woken(m)'
             /\ Closing(m)' <=> Wants(c, m)
             /\ ~Opening(m) /\ ~Closing(m) /\ ~Woken(m)
  BY <1>1, <1>2, <1>6 DEF Opening, Closing, Woken, At, Wants
<1>9. \A m : Wanters(m)' = Wanters(m) - (IF Wants(c, m) THEN 1 ELSE 0)
  <2>. SUFFICES ASSUME NEW m
                PROVE  Wanters(m)' = Wanters(m) - (IF Wants(c, m) THEN 1 ELSE 0)
    OBVIOUS
  <2>1. Wanting(m)' = Wanting(m) \ {c} BY <1>4 DEF Wanting, Wants
  <2>2. c \in Wanting(m) <=> Wants(c, m) BY DEF Wanting
  <2>3. CASE Wants(c, m)
    <3>1. Cardinality(Wanting(m) \ {c}) = Cardinality(Wanting(m)) - 1
      BY <2>2, <2>3, WantingFinite, OneLess
    <3>. QED BY <2>1, <2>3, <3>1 DEF Wanters
  <2>4. CASE ~Wants(c, m)
    <3>1. Wanting(m)' = Wanting(m) BY <2>1, <2>2, <2>4
    <3>. QED BY <2>4, <3>1, WantingFinite DEF Wanters
  <2>. QED BY <2>3, <2>4
<1>10. ~failed' => (CountInv /\ EnabledInv)'
  <2>. SUFFICES ASSUME ~failed PROVE (CountInv /\ EnabledInv)' BY <1>1
  <2>1. CountInv /\ EnabledInv BY DEF SignalInv
  <2>2. CountInv' BY <1>1, <1>8, <1>9, <2>1, WantingFinite DEF CountInv
  <2>3. EnabledInv' BY <1>1, <1>8, <2>1 DEF EnabledInv, native, tty
  <2>. QED BY <2>2, <2>3
<1>11. ListInv'
  <2>1. \A d \in C : Leaving(d)' = Leaving(d) /\ Listed(d)' = Listed(d)
    BY <1>1, <1>2 DEF Leaving, Listed
  <2>. QED BY <2>1 DEF SignalInv, ListInv
<1>12. OneStop' /\ OwnEntry'
  <2>1. OneStop' BY <1>2, <1>3 DEF SignalInv, OneStop, Stops
  <2>2. OwnEntry' BY <1>1, <1>2, <1>3 DEF SignalInv, OwnEntry
  <2>. QED BY <2>1, <2>2
<1>13. OwedInv'
  <2>1. \A d \in C : d \in Waiting => d \in Waiting'
    BY <1>1, <1>2, <1>4 DEF Waiting, Wants
  <2>. QED BY <1>1, <1>3, <2>1 DEF SignalInv, OwedInv, Waiting
<1>. QED BY <1>5, <1>7, <1>10, <1>11, <1>12, <1>13 DEF SignalInv

\* The console does what the poller looks for, when a signal is disabled ...
InMode ==
    /\ enabled \cap ignored = {}
    /\ mode = IF Interrupt \in enabled THEN 1
              ELSE IF Interrupt \in ignored THEN 2 ELSE 0
    /\ Interrupt \in enabled \cup ignored => console

LEMMA DisableMode ==
    ASSUME InMode, NEW n \in Signal, Disable(n), console' = console
    PROVE  InMode' /\ enabled' = enabled \ {n} /\ ignored' = ignored \ {n}
<1>1. enabled' = enabled \ {n} /\ ignored' = ignored \ {n} BY DEF Disable
<1>2. CASE n = Interrupt /\ console
  <2>1. mode' = 0 BY <1>2 DEF Disable
  <2>. QED BY <1>1, <1>2, <2>1 DEF InMode
<1>3. CASE ~(n = Interrupt /\ console)
  <2>1. mode' = mode BY <1>3 DEF Disable
  <2>. QED BY <1>1, <1>3, <2>1 DEF InMode
<1>. QED BY <1>2, <1>3

\* ... or ignored.
LEMMA IgnoreMode ==
    ASSUME InMode, NEW n \in Signal, IgnoreSignal(n), console' = console,
           n = Interrupt => console
    PROVE  InMode' /\ enabled' = enabled \ {n} /\ ignored' = ignored \cup {n}
<1>1. enabled' = enabled \ {n} /\ ignored' = ignored \cup {n}
  BY DEF IgnoreSignal
<1>2. CASE n = Interrupt
  <2>1. mode' = 2 BY <1>2 DEF IgnoreSignal
  <2>. QED BY <1>1, <1>2, <2>1 DEF InMode
<1>3. CASE n # Interrupt
  <2>1. mode' = mode BY <1>3 DEF IgnoreSignal
  <2>. QED BY <1>1, <1>3, <2>1 DEF InMode
<1>. QED BY <1>2, <1>3

LEMMA DropKeeps == ASSUME SignalInv, NEW g \in G, Drop(g) PROVE SignalInv'
<1>0. SignalsTypeOK /\ CallInv BY DEF SignalInv
<1>1. PICK n \in Todo(g) :
        /\ ref' = [ref EXCEPT ![n] = @ - 1]
        /\ IF ref[n] = 1 THEN Disable(n) ELSE UNCHANGED <<native, mode, pending>>
        /\ Did(g, n, "drop")
  BY DEF Drop
<1>2. /\ call[g].pc = "drop"
      /\ UNCHANGED <<handlers, stopping, lock, wake, console, resized, poll, full,
                     history>>
  BY DEF Drop, At
<1>3. /\ call' \in [G -> Calling]
      /\ \A h \in G \ {g} : call'[h] = call[h]
      /\ call'[g].pc = "drop" /\ call'[g].c = call[g].c
      /\ call'[g].mask = call[g].mask /\ call'[g].todo = call[g].todo \ {n}
  BY <1>0, <1>1, DidFacts DEF PCsOfCall
<1>4. lock = g /\ g # None /\ \A h \in G \ {g} : call[h].pc \notin Holding
  BY <1>0, <1>2, HolderOnly DEF Holding
<1>5. n \in Signal /\ n \in call[g].todo BY <1>0, TodoNext
<1>6. ref \in [Signal -> Int] BY <1>0 DEF SignalsTypeOK
<1>7. ref'[n] = ref[n] - 1 /\ \A m \in Signal : m # n => ref'[m] = ref[m]
  BY <1>1, <1>5, <1>6
<1>8. SignalsTypeOK'
  <2>1. ref' \in [Signal -> Int] BY <1>1, <1>5, <1>6
  <2>2. enabled' \subseteq Signal /\ ignored' \subseteq Signal
    BY <1>0, <1>1 DEF SignalsTypeOK, Disable, native
  <2>3. mode' \in 0 .. 2 BY <1>0, <1>1 DEF SignalsTypeOK, Disable
  <2>4. pending' \in BOOLEAN
    <3>1. pending' = FALSE \/ pending' = pending BY <1>1 DEF Disable
    <3>. QED BY <1>0, <3>1 DEF SignalsTypeOK
  <2>. QED
    BY <1>0, <1>2, <1>3, <2>1, <2>2, <2>3, <2>4 DEF SignalsTypeOK, Calling,
           history
<1>9. CallInv' BY <1>0, <1>2, <1>3, <1>4 DEF CallInv, Holding, Stops, At
<1>10. \A m : /\ ~Opening(m)' /\ ~Woken(m)' /\ ~Opening(m) /\ ~Woken(m)
              /\ Closing(m) <=> m \in call[g].todo
              /\ Closing(m)' <=> m \in call[g].todo /\ m # n
              /\ Wanters(m)' = Wanters(m)
  BY <1>2, <1>3, <1>4 DEF Opening, Closing, Woken, At, Wanters, Wanting, Wants
<1>11. ~failed' => (CountInv /\ EnabledInv)'
  <2>. SUFFICES ASSUME ~failed PROVE (CountInv /\ EnabledInv)'
    BY <1>2 DEF history
  <2>1. CountInv /\ EnabledInv BY DEF SignalInv
  <2>2. ref[n] = Wanters(n) + 1 /\ Wanters(n) \in Nat
    BY <1>5, <1>10, <2>1, WantingFinite DEF CountInv
  <2>3. CountInv' BY <1>7, <1>10, <2>1, <2>2 DEF CountInv
  <2>4. InMode BY <1>10, <2>1 DEF EnabledInv, InMode
  <2>5. InMode' /\ enabled' = IF ref[n] = 1 THEN enabled \ {n} ELSE enabled
    <3>1. CASE ref[n] = 1
      BY <1>1, <1>2, <1>5, <2>4, <3>1, DisableMode
    <3>2. CASE ref[n] # 1
      BY <1>1, <1>2, <2>4, <3>2 DEF InMode, native
    <3>. QED BY <3>1, <3>2
  <2>6. \A m \in Signal : m \in enabled <=> ref[m] > 0
    BY <1>10, <2>1 DEF EnabledInv
  <2>7. \A m \in Signal : m \in enabled' <=> ref'[m] > 0
    <3>. SUFFICES ASSUME NEW m \in Signal PROVE m \in enabled' <=> ref'[m] > 0
      OBVIOUS
    <3>1. CASE m = n BY <1>5, <1>7, <2>2, <2>5, <2>6, <3>1
    <3>2. CASE m # n BY <1>7, <2>5, <2>6, <3>2
    <3>. QED BY <3>1, <3>2
  <2>8. EnabledInv' BY <1>10, <2>5, <2>7 DEF EnabledInv, InMode
  <2>. QED BY <2>3, <2>8
<1>12. (ListInv /\ OneStop /\ OwnEntry)'
  <2>1. \A h \in G : /\ Stops(h)' <=> Stops(h)
                     /\ Stops(h) => /\ call'[h].pc = call[h].pc
                                    /\ call'[h].c = call[h].c
                                    /\ call'[h].mask = call[h].mask
    BY <1>2, <1>3 DEF Stops
  <2>. QED BY <1>2, <2>1, StopsKept DEF SignalInv, history
<1>13. OwedInv'
  <2>1. \A d \in C : d \in Waiting => d \in Waiting'
    BY <1>2, <1>3 DEF Waiting, Wants
  <2>. QED BY <1>2, <2>1 DEF SignalInv, OwedInv, Waiting, history
<1>. QED BY <1>8, <1>9, <1>11, <1>12, <1>13 DEF SignalInv

-----------------------------------------------------------------------------
(***************************************************************************)
(* The list of the channels being stopped                                  *)
(***************************************************************************)
Entry == [c : C, mask : SUBSET Signal]

LEMMA ListFinite ==
    ASSUME SignalsTypeOK
    PROVE  /\ \A c : /\ IsFiniteSet(Listed(c)) /\ IsFiniteSet(Leaving(c))
                     /\ Cardinality(Listed(c)) \in Nat
                     /\ Cardinality(Leaving(c)) \in Nat
           /\ stopping \in Seq(Entry) /\ DOMAIN stopping = 1 .. Len(stopping)
           /\ Len(stopping) \in Nat
<1>1. /\ stopping \in Seq(Entry) /\ DOMAIN stopping = 1 .. Len(stopping)
      /\ Len(stopping) \in Nat
  BY LenProperties DEF SignalsTypeOK, Entry
<1>2. ASSUME NEW c
      PROVE  /\ IsFiniteSet(Listed(c)) /\ IsFiniteSet(Leaving(c))
             /\ Cardinality(Listed(c)) \in Nat /\ Cardinality(Leaving(c)) \in Nat
  <2>1. Listed(c) \in SUBSET (1 .. Len(stopping)) BY <1>1 DEF Listed
  <2>2. IsFiniteSet(1 .. Len(stopping)) BY <1>1, FS_Interval
  <2>3. Leaving(c) \in SUBSET G /\ IsFiniteSet(G)
    BY SignalsAssumption DEF Leaving
  <2>4. IsFiniteSet(Listed(c)) /\ IsFiniteSet(Leaving(c))
    BY <2>1, <2>2, <2>3, FS_Subset
  <2>. QED BY <2>4, FS_CardinalityType
<1>. QED BY <1>1, <1>2

EntriesOf(q, d) == {j \in DOMAIN q : q[j].c = d}

\* One entry is gone: those of its channel are one less, the others as many.
LEMMA EntryRemoved ==
    ASSUME NEW q \in Seq(Entry), NEW i \in DOMAIN q, NEW d,
           IsFiniteSet(EntriesOf(q, d))
    PROVE  Cardinality(EntriesOf(RemoveAt(q, i), d))
             = Cardinality(EntriesOf(q, d) \ {i})
<1>. DEFINE r == RemoveAt(q, i)
            old == EntriesOf(q, d) \ {i}
            new == EntriesOf(r, d)
            was(j) == IF j < i THEN j ELSE j + 1
            f == [j \in new |-> was(j)]
<1>1. /\ DOMAIN q = 1 .. Len(q) /\ Len(q) \in Nat
      /\ DOMAIN r = 1 .. (Len(q) - 1)
      /\ \A j \in 1 .. (Len(q) - 1) : r[j] = IF j < i THEN q[j] ELSE q[j + 1]
  BY RemoveAtShape, LenProperties
<1>. HIDE DEF r
<1>2. \A j \in new : was(j) \in old BY <1>1 DEF EntriesOf
<1>3. \A j, k \in new : was(j) = was(k) => j = k BY <1>1 DEF EntriesOf
<1>4. \A k \in old : \E j \in new : was(j) = k
  <2>. SUFFICES ASSUME NEW k \in old PROVE \E j \in new : was(j) = k OBVIOUS
  <2>1. CASE k < i
    <3>1. k \in new /\ was(k) = k BY <1>1, <2>1 DEF EntriesOf
    <3>. QED BY <3>1
  <2>2. CASE ~(k < i)
    <3>1. k - 1 \in 1 .. (Len(q) - 1) /\ ~(k - 1 < i) /\ k - 1 + 1 = k
      BY <1>1, <2>2 DEF EntriesOf
    <3>2. k - 1 \in new /\ was(k - 1) = k BY <1>1, <3>1 DEF EntriesOf
    <3>. QED BY <3>2
  <2>. QED BY <2>1, <2>2
<1>5. IsFiniteSet(old) BY FS_RemoveElement
<1>6. f \in [new -> old] BY <1>2
<1>7. \A j \in new : f[j] = was(j) OBVIOUS
<1>. HIDE DEF f, was, new, old
<1>8. f \in Injection(new, old) BY <1>3, <1>6, <1>7 DEF Injection, IsInjective
<1>9. f \in Surjection(new, old) BY <1>4, <1>6, <1>7 DEF Surjection
<1>10. Cardinality(new) = Cardinality(old) BY <1>5, <1>8, <1>9, FS_Injection
<1>. QED BY <1>10 DEF new, old, r

\* A step of one goroutine that does not hold the mutex, before or after it.
LEMMA OtherHolder ==
    ASSUME SignalInv, NEW g \in G, lock' # g, lock = lock',
           \A h \in G \ {g} : call'[h] = call[h],
           UNCHANGED <<handlers, ref, native, mode, console, failed>>
    PROVE  ~failed' => (CountInv /\ EnabledInv)'
<1>1. lock \in G \cup {None} BY DEF SignalInv, SignalsTypeOK
<1>2. \A m : /\ Opening(m)' <=> Opening(m)
             /\ Closing(m)' <=> Closing(m)
             /\ Woken(m)' <=> Woken(m)
  <2>1. CASE lock = None BY <2>1 DEF Opening, Closing, Woken
  <2>2. CASE lock \in G \ {g}
    <3>1. call'[lock'] = call[lock] BY <2>2
    <3>. QED BY <3>1 DEF Opening, Closing, Woken, At, Todo
  <2>. QED BY <1>1, <2>1, <2>2
<1>3. \A m : Wanters(m)' = Wanters(m) BY DEF Wanters, Wanting, Wants
<1>. SUFFICES ASSUME ~failed PROVE (CountInv /\ EnabledInv)' OBVIOUS
<1>4. CountInv /\ EnabledInv BY DEF SignalInv
<1>5. CountInv' BY <1>2, <1>3, <1>4 DEF CountInv
<1>6. EnabledInv' BY <1>2, <1>4 DEF EnabledInv, native
<1>. QED BY <1>5, <1>6

LEMMA ListKeeps == ASSUME SignalInv, NEW g \in G, List(g) PROVE SignalInv'
<1>0. SignalsTypeOK /\ CallInv BY DEF SignalInv
<1>1. /\ call[g].pc = "drop" /\ call[g].todo = {}
      /\ stopping' = Append(stopping, [c |-> call[g].c, mask |-> call[g].mask])
      /\ lock' = None /\ Goto(g, "barrier")
      /\ UNCHANGED <<handlers, ref, native, wake, tty, poll, full, history>>
  BY DEF List, At
<1>2. /\ call' \in [G -> Calling]
      /\ \A h \in G \ {g} : call'[h] = call[h]
      /\ call'[g].pc = "barrier" /\ call'[g].c = call[g].c
      /\ call'[g].mask = call[g].mask
  BY <1>0, <1>1, GotoFacts DEF PCsOfCall
<1>3. lock = g /\ g # None /\ \A h \in G \ {g} : call[h].pc \notin Holding
  BY <1>0, <1>1, HolderOnly DEF Holding
<1>. DEFINE c == call[g].c
            e == [c |-> c, mask |-> call[g].mask]
            n == Len(stopping) + 1
<1>4. c \in C /\ e \in Entry /\ e.c = c /\ e.mask = call[g].mask
  <2>1. c \in C BY <1>0, <1>1 DEF CallInv, Stops
  <2>2. call[g].mask \in SUBSET Signal BY <1>0, CallsTyped
  <2>. QED BY <2>1, <2>2 DEF Entry
<1>5. /\ stopping \in Seq(Entry) /\ DOMAIN stopping = 1 .. Len(stopping)
      /\ Len(stopping) \in Nat
  BY <1>0, ListFinite
<1>. HIDE DEF e
<1>6. /\ stopping' \in Seq(Entry) /\ DOMAIN stopping' = 1 .. n
      /\ \A j \in 1 .. Len(stopping) : stopping'[j] = stopping[j]
      /\ stopping'[n] = e
  <2>1. stopping' = Append(stopping, e) BY <1>1 DEF e
  <2>2. /\ stopping' \in Seq(Entry) /\ Len(stopping') = Len(stopping) + 1
        /\ \A j \in 1 .. Len(stopping) : stopping'[j] = stopping[j]
        /\ stopping'[Len(stopping) + 1] = e
    BY <1>4, <1>5, <2>1, AppendProperties
  <2>. QED BY <2>2, LenProperties
<1>7. SignalsTypeOK'
  BY <1>0, <1>1, <1>2, <1>6
    DEF SignalsTypeOK, Calling, Entry, native, tty, history
<1>8. CallInv'
  BY <1>0, <1>1, <1>2, <1>3, <1>4, SignalsAssumption
    DEF CallInv, Holding, Stops, At
<1>9. \A m : /\ ~Opening(m)' /\ ~Woken(m)' /\ ~Closing(m)'
             /\ ~Opening(m) /\ ~Woken(m) /\ ~Closing(m)
             /\ Wanters(m)' = Wanters(m)
  BY <1>1, <1>2, <1>3 DEF Opening, Closing, Woken, At, Wanters, Wanting, Wants
<1>10. ~failed' => (CountInv /\ EnabledInv)'
  BY <1>1, <1>9 DEF SignalInv, CountInv, EnabledInv, native, tty, history
<1>11. ListInv'
  <2>1. \A d \in C \ {c} : Listed(d)' = Listed(d) /\ Leaving(d)' = Leaving(d)
    <3>. SUFFICES ASSUME NEW d \in C \ {c}
                  PROVE  Listed(d)' = Listed(d) /\ Leaving(d)' = Leaving(d)
      OBVIOUS
    <3>1. Leaving(d)' = Leaving(d) BY <1>1, <1>2 DEF Leaving
    <3>2. Listed(d)' = Listed(d) BY <1>4, <1>5, <1>6 DEF Listed
    <3>. QED BY <3>1, <3>2
  <2>2. Listed(c)' = Listed(c) \cup {n} /\ n \notin Listed(c)
    <3>1. {i \in DOMAIN stopping' : stopping'[i].c = c}
            = {i \in DOMAIN stopping : stopping[i].c = c} \cup {n}
      BY <1>4, <1>5, <1>6
    <3>. QED BY <1>2, <1>5, <3>1 DEF Listed
  <2>3. Leaving(c)' = Leaving(c) \cup {g} /\ g \notin Leaving(c)
    BY <1>1, <1>2 DEF Leaving
  <2>4. Cardinality(Listed(c)) = Cardinality(Leaving(c))
    BY <1>4 DEF SignalInv, ListInv
  <2>5. Cardinality(Listed(c) \cup {n}) = Cardinality(Leaving(c) \cup {g})
    <3>1. Cardinality(Listed(c) \cup {n}) = Cardinality(Listed(c)) + 1
      BY <1>0, <2>2, ListFinite, OneMore
    <3>2. Cardinality(Leaving(c) \cup {g}) = Cardinality(Leaving(c)) + 1
      BY <1>0, <2>3, ListFinite, OneMore
    <3>. QED BY <2>4, <3>1, <3>2
  <2>6. ASSUME NEW d \in C PROVE Cardinality(Listed(d)') = Cardinality(Leaving(d)')
    <3>1. CASE d = c BY <2>2, <2>3, <2>5, <3>1, <1>2
    <3>2. CASE d # c BY <2>1, <3>2 DEF SignalInv, ListInv
    <3>. QED BY <3>1, <3>2
  <2>. QED BY <2>6 DEF ListInv
<1>12. OneStop' BY <1>1, <1>2 DEF SignalInv, OneStop, Stops, history
<1>13. OwnEntry'
  <2>. SUFFICES ASSUME NEW h \in G, call'[h].pc \in {"barrier", "forget"},
                       call'[h].c \notin crossed
                PROVE  \E i \in DOMAIN stopping' : stopping'[i].c = call'[h].c
                                     /\ stopping'[i].mask = call'[h].mask
    BY <1>1 DEF OwnEntry, history
  <2>1. CASE h = g BY <1>2, <1>4, <1>5, <1>6, <2>1
  <2>2. CASE h # g
    <3>1. PICK i \in DOMAIN stopping : stopping[i].c = call[h].c
                                     /\ stopping[i].mask = call[h].mask
      BY <1>2, <2>2 DEF SignalInv, OwnEntry
    <3>. QED BY <1>2, <1>5, <1>6, <2>2, <3>1
  <2>. QED BY <2>1, <2>2
<1>14. OwedInv'
  <2>1. \A d \in C : d \in Waiting => d \in Waiting'
    BY <1>1, <1>2 DEF Waiting, Wants
  <2>. QED BY <1>1, <2>1 DEF SignalInv, OwedInv, Waiting, history
<1>. QED BY <1>7, <1>8, <1>10, <1>11, <1>12, <1>13, <1>14 DEF SignalInv

LEMMA BarrierKeeps == ASSUME SignalInv, NEW g \in G, Barrier(g) PROVE SignalInv'
<1>0. SignalsTypeOK /\ CallInv BY DEF SignalInv
<1>1. /\ call[g].pc = "barrier" /\ ~Dispatching /\ Goto(g, "forget")
      /\ UNCHANGED <<table, lock, native, wake, tty, poll, full, history>>
  BY DEF Barrier, At
<1>2. /\ call' \in [G -> Calling]
      /\ \A h \in G \ {g} : call'[h] = call[h]
      /\ call'[g].pc = "forget" /\ call'[g].c = call[g].c
      /\ call'[g].mask = call[g].mask
  BY <1>0, <1>1, GotoFacts DEF PCsOfCall
<1>3. SignalsTypeOK'
  BY <1>0, <1>1, <1>2 DEF SignalsTypeOK, Calling, table, native, tty, history
<1>4. CallInv' BY <1>0, <1>1, <1>2 DEF CallInv, Holding, Stops, At, table
<1>5. lock # g BY <1>0, <1>1 DEF CallInv, Holding
<1>6. ~failed' => (CountInv /\ EnabledInv)'
  BY <1>1, <1>2, <1>5, OtherHolder DEF table, tty, history
<1>7. ListInv'
  <2>1. \A c \in C : Leaving(c)' = Leaving(c) /\ Listed(c)' = Listed(c)
    BY <1>1, <1>2 DEF Leaving, Listed, table
  <2>. QED BY <2>1 DEF SignalInv, ListInv
<1>8. OneStop' BY <1>1, <1>2 DEF SignalInv, OneStop, Stops, history
<1>9. OwnEntry' BY <1>1, <1>2 DEF SignalInv, OwnEntry, table, history
<1>10. OwedInv' BY <1>1 DEF OwedInv, Dispatching
<1>. QED BY <1>3, <1>4, <1>6, <1>7, <1>8, <1>9, <1>10 DEF SignalInv

LEMMA ForgetKeeps == ASSUME SignalInv, NEW g \in G, Forget(g) PROVE SignalInv'
<1>0. SignalsTypeOK /\ CallInv BY DEF SignalInv
<1>. DEFINE c == call[g].c
            mine == {i \in DOMAIN stopping : stopping[i].c = c}
<1>1. /\ call[g].pc = "forget" /\ lock = None
      /\ call' = [call EXCEPT ![g] = Idle]
      /\ UNCHANGED <<handlers, ref, lock, native, wake, tty, poll, full,
                     owed, crossed, failed, calls>>
      /\ stopping' = IF mine = {} THEN stopping
                     ELSE RemoveAt(stopping, CHOOSE i \in mine :
                                                \A j \in mine : i <= j)
  BY DEF Forget, At
<1>2. /\ call' \in [G -> Calling]
      /\ \A h \in G \ {g} : call'[h] = call[h]
      /\ call'[g].pc = "idle" /\ call'[g].c = None
  BY <1>0, <1>1, LeaveFacts
<1>3. c \in C BY <1>0, <1>1 DEF CallInv, Stops
<1>4. /\ stopping \in Seq(Entry) /\ DOMAIN stopping = 1 .. Len(stopping)
      /\ Len(stopping) \in Nat
  BY <1>0, ListFinite
<1>5. mine = Listed(c) BY DEF Listed
<1>6. g \in Leaving(c) BY <1>1 DEF Leaving
<1>7. mine # {}
  <2>1. Cardinality(Leaving(c)) # 0 BY <1>0, <1>6, ListFinite, FS_EmptySet
  <2>2. Cardinality(mine) # 0 BY <1>3, <1>5, <2>1 DEF SignalInv, ListInv
  <2>. QED BY <2>2, FS_EmptySet
<1>8. PICK i \in mine : stopping' = RemoveAt(stopping, i)
  <2>1. mine \in SUBSET Nat BY <1>4
  <2>2. \E i \in mine : \A j \in mine : i <= j BY <1>7, <2>1, LeastNatural
  <2>3. (CHOOSE i \in mine : \A j \in mine : i <= j) \in mine BY <2>2
  <2>. QED BY <1>1, <1>7, <2>3
<1>9. i \in DOMAIN stopping /\ stopping[i].c = c OBVIOUS
<1>10. /\ stopping' \in Seq(Entry) /\ DOMAIN stopping' = 1 .. (Len(stopping) - 1)
       /\ \A j \in 1 .. (Len(stopping) - 1) :
             stopping'[j] = IF j < i THEN stopping[j] ELSE stopping[j + 1]
  BY <1>4, <1>8, <1>9, RemoveAtShape
<1>11. \A d : Cardinality(Listed(d)') = Cardinality(Listed(d) \ {i})
  <2>. SUFFICES ASSUME NEW d
                PROVE  Cardinality(Listed(d)') = Cardinality(Listed(d) \ {i})
    OBVIOUS
  <2>1. IsFiniteSet(EntriesOf(stopping, d))
    BY <1>0, ListFinite DEF Listed, EntriesOf
  <2>2. Cardinality(EntriesOf(RemoveAt(stopping, i), d))
          = Cardinality(EntriesOf(stopping, d) \ {i})
    BY <1>4, <1>9, <2>1, EntryRemoved
  <2>. QED BY <1>8, <2>2 DEF Listed, EntriesOf
<1>. HIDE DEF mine
<1>12. SignalsTypeOK'
  BY <1>0, <1>1, <1>2, <1>10 DEF SignalsTypeOK, Calling, Entry, native, tty
<1>13. CallInv'
  BY <1>0, <1>1, <1>2, SignalsAssumption DEF CallInv, Holding, Stops, At
<1>14. lock' # g BY <1>1, SignalsAssumption
<1>15. ~failed' => (CountInv /\ EnabledInv)'
  BY <1>1, <1>2, <1>14, OtherHolder DEF tty
<1>16. ListInv'
  <2>. SUFFICES ASSUME NEW d \in C
                PROVE  Cardinality(Listed(d)') = Cardinality(Leaving(d)')
    BY DEF ListInv
  <2>1. Cardinality(Listed(d)) = Cardinality(Leaving(d))
    BY DEF SignalInv, ListInv
  <2>2. CASE d = c
    <3>1. i \in Listed(c) BY <1>9 DEF Listed
    <3>2. Cardinality(Listed(c) \ {i}) = Cardinality(Listed(c)) - 1
      BY <1>0, <3>1, ListFinite, OneLess
    <3>3. Leaving(d)' = Leaving(d) \ {g}
      BY <1>1, <1>2, <1>3, SignalsAssumption DEF Leaving
    <3>4. Cardinality(Leaving(c) \ {g}) = Cardinality(Leaving(c)) - 1
      BY <1>0, <1>6, ListFinite, OneLess
    <3>. QED BY <1>11, <2>1, <2>2, <3>2, <3>3, <3>4
  <2>3. CASE d # c
    <3>1. Listed(d) \ {i} = Listed(d) BY <1>9, <2>3 DEF Listed
    <3>2. Leaving(d)' = Leaving(d)
      BY <1>1, <1>2, <2>3, SignalsAssumption DEF Leaving
    <3>. QED BY <1>11, <2>1, <3>1, <3>2
  <2>. QED BY <2>2, <2>3
<1>17. OneStop' BY <1>1, <1>2 DEF SignalInv, OneStop, Stops
<1>18. OwnEntry'
  <2>. SUFFICES ASSUME NEW h \in G, call'[h].pc \in {"barrier", "forget"},
                       call'[h].c \notin crossed
                PROVE  \E k \in DOMAIN stopping' : stopping'[k].c = call'[h].c
                                     /\ stopping'[k].mask = call'[h].mask
    BY <1>1 DEF OwnEntry
  <2>1. h # g /\ call'[h] = call[h] BY <1>2
  <2>2. PICK k \in DOMAIN stopping : stopping[k].c = call[h].c
                                  /\ stopping[k].mask = call[h].mask
    BY <2>1 DEF SignalInv, OwnEntry
  <2>3. call[h].c # c BY <1>1, <2>1 DEF SignalInv, OneStop, Stops
  <2>4. k # i BY <1>9, <2>2, <2>3
  <2>5. CASE k < i
    <3>1. k \in DOMAIN stopping' /\ stopping'[k] = stopping[k]
      BY <1>4, <1>9, <1>10, <2>5
    <3>. QED BY <2>1, <2>2, <3>1
  <2>6. CASE k > i
    <3>1. /\ k - 1 \in 1 .. (Len(stopping) - 1) /\ ~(k - 1 < i)
          /\ k - 1 + 1 = k
      BY <1>4, <1>9, <2>6
    <3>2. k - 1 \in DOMAIN stopping' /\ stopping'[k - 1] = stopping[k]
      BY <1>10, <3>1
    <3>. QED BY <2>1, <2>2, <3>2
  <2>7. k \in Nat /\ i \in Nat BY <1>4, <1>9
  <2>. QED BY <2>4, <2>5, <2>6, <2>7
<1>19. OwedInv'
  <2>1. \A d \in C : d \in Waiting => d \in Waiting'
    BY <1>1, <1>2 DEF Waiting, Wants
  <2>. QED BY <1>1, <2>1 DEF SignalInv, OwedInv, Waiting
<1>. QED BY <1>12, <1>13, <1>15, <1>16, <1>17, <1>18, <1>19 DEF SignalInv

-----------------------------------------------------------------------------
(***************************************************************************)
(* Reset and Ignore                                                        *)
(***************************************************************************)
LEMMA CancelOneKeeps == ASSUME SignalInv, NEW g \in G, CancelOne(g) PROVE SignalInv'
<1>0. SignalsTypeOK /\ CallInv BY DEF SignalInv
<1>1. PICK n \in Todo(g) :
        /\ handlers' = [c \in C |-> IF c \in Wanting(n)
                                    THEN Without(handlers[c], n)
                                    ELSE handlers[c]]
        /\ ref' = [ref EXCEPT ![n] = @ - Wanters(n)]
        /\ owed' = IF n = Interrupt THEN owed \ Wanting(n) ELSE owed
        /\ IF call[g].ignore /\ n = Interrupt /\ ~console
           THEN /\ LeaveCall(g) /\ failed' = TRUE
                /\ UNCHANGED <<native, mode, pending>>
           ELSE /\ IF call[g].ignore THEN IgnoreSignal(n) ELSE Disable(n)
                /\ Did(g, n, "remove")
                /\ UNCHANGED <<lock, failed>>
  BY DEF CancelOne, Wanting, Wanters
<1>2. /\ call[g].pc = "remove"
      /\ UNCHANGED <<stopping, wake, console, resized, poll, full, crossed, calls>>
  BY DEF CancelOne, At
<1>3. lock = g /\ g # None /\ \A h \in G \ {g} : call[h].pc \notin Holding
  BY <1>0, <1>2, HolderOnly DEF Holding
<1>4. n \in Signal BY <1>0, TodoNext
<1>5. handlers \in [C -> (SUBSET Signal) \cup {None}] /\ ref \in [Signal -> Int]
  BY <1>0 DEF SignalsTypeOK
<1>6. /\ handlers' \in [C -> (SUBSET Signal) \cup {None}]
      /\ \A c \in C : ~Wants(c, n)'
      /\ \A c \in C : \A m : m # n => (Wants(c, m)' <=> Wants(c, m))
  <2>. SUFFICES ASSUME NEW c \in C
                PROVE  /\ handlers'[c] \in (SUBSET Signal) \cup {None}
                       /\ ~Wants(c, n)'
                       /\ \A m : m # n => (Wants(c, m)' <=> Wants(c, m))
    BY <1>1
  <2>1. CASE c \in Wanting(n)
    <3>1. handlers'[c] = IF handlers[c] = {n} THEN None ELSE handlers[c] \ {n}
      BY <1>1, <2>1 DEF Without
    <3>2. handlers[c] # None /\ handlers[c] \in SUBSET Signal
      BY <1>5, <2>1 DEF Wanting, Wants
    <3>3. handlers[c] \ {n} \in SUBSET Signal BY <3>2
    <3>4. handlers[c] \ {n} # None BY <3>3, SignalsAssumption
    <3>. QED BY <3>1, <3>2, <3>3, <3>4 DEF Wants
  <2>2. CASE c \notin Wanting(n)
    <3>1. handlers'[c] = handlers[c] BY <1>1, <2>2
    <3>. QED BY <1>5, <2>2, <3>1 DEF Wanting, Wants
  <2>. QED BY <2>1, <2>2
<1>7. Wanters(n)' = 0 /\ \A m : m # n => Wanters(m)' = Wanters(m)
  <2>1. Wanting(n)' = {} BY <1>6 DEF Wanting
  <2>2. Wanters(n)' = 0 BY <2>1, FS_EmptySet DEF Wanters
  <2>3. \A m : m # n => Wanting(m)' = Wanting(m) BY <1>6 DEF Wanting
  <2>. QED BY <2>2, <2>3 DEF Wanters
<1>8. Wanters(n) \in Nat BY WantingFinite
<1>9. ref' \in [Signal -> Int] BY <1>1, <1>4, <1>5, <1>8
<1>10. ref'[n] = ref[n] - Wanters(n) /\ \A m \in Signal : m # n => ref'[m] = ref[m]
  BY <1>1, <1>4, <1>5
<1>11. owed' \subseteq owed BY <1>1
<1>12. /\ call' \in [G -> Calling]
       /\ \A h \in G \ {g} : call'[h] = call[h]
       /\ IF call[g].ignore /\ n = Interrupt /\ ~console
          THEN call'[g].pc = "idle" /\ lock' = None /\ failed' = TRUE
          ELSE call'[g].pc = "remove" /\ lock' = lock /\ failed' = failed
  <2>1. CASE call[g].ignore /\ n = Interrupt /\ ~console
    <3>1. call' = [call EXCEPT ![g] = Idle] /\ lock' = None /\ failed' = TRUE
      BY <1>1, <2>1 DEF LeaveCall
    <3>. QED BY <1>0, <2>1, <3>1, LeaveFacts
  <2>2. CASE ~(call[g].ignore /\ n = Interrupt /\ ~console)
    <3>1. Did(g, n, "remove") /\ lock' = lock /\ failed' = failed BY <1>1, <2>2
    <3>. QED BY <1>0, <2>2, <3>1, DidFacts DEF PCsOfCall
  <2>. QED BY <2>1, <2>2
<1>13. SignalsTypeOK'
  <2>1. enabled' \subseteq Signal /\ ignored' \subseteq Signal
    BY <1>0, <1>1, <1>4 DEF SignalsTypeOK, Disable, IgnoreSignal, native
  <2>2. mode' \in 0 .. 2 BY <1>0, <1>1 DEF SignalsTypeOK, Disable, IgnoreSignal
  <2>3. pending' \in BOOLEAN
    <3>1. pending' = FALSE \/ pending' = pending
      BY <1>1 DEF Disable, IgnoreSignal
    <3>. QED BY <1>0, <3>1 DEF SignalsTypeOK
  <2>4. failed' \in BOOLEAN
    <3>1. failed' = TRUE \/ failed' = failed BY <1>1
    <3>. QED BY <1>0, <3>1 DEF SignalsTypeOK
  <2>5. lock' \in G \cup {None} BY <1>3, <1>12
  <2>. QED BY <1>0, <1>2, <1>6, <1>9, <1>11, <1>12, <2>1, <2>2, <2>3, <2>4, <2>5
           DEF SignalsTypeOK, Calling
<1>14. CallInv'
  <2>1. ~Stops(g)' /\ call'[g].pc \notin {"add", "enable", "wake", "drop"}
        /\ (lock' = g <=> call'[g].pc \in Holding)
    BY <1>3, <1>12 DEF Stops, Holding
  <2>2. \A h \in G \ {g} : lock' # h BY <1>3, <1>12, SignalsAssumption
  <2>. QED BY <1>0, <1>3, <1>12, <2>1, <2>2 DEF CallInv, Holding, Stops, At
<1>15. \A m : /\ ~Opening(m)' /\ ~Woken(m)' /\ ~Closing(m)'
              /\ ~Opening(m) /\ ~Woken(m) /\ ~Closing(m)
  BY <1>2, <1>3, <1>12 DEF Opening, Closing, Woken, At
<1>16. ~failed' => (CountInv /\ EnabledInv)'
  <2>. SUFFICES ASSUME ~failed' PROVE (CountInv /\ EnabledInv)' OBVIOUS
  <2>1. /\ ~failed /\ ~(call[g].ignore /\ n = Interrupt /\ ~console)
        /\ IF call[g].ignore THEN IgnoreSignal(n) ELSE Disable(n)
    BY <1>1
  <2>2. CountInv /\ EnabledInv BY <2>1 DEF SignalInv
  <2>3. \A m \in Signal : ref[m] = Wanters(m) BY <1>15, <2>2 DEF CountInv
  <2>4. ref'[n] = 0 BY <1>4, <1>8, <1>10, <2>3
  <2>5. CountInv' BY <1>7, <1>10, <1>15, <2>3, <2>4 DEF CountInv
  <2>6. InMode BY <1>15, <2>2 DEF EnabledInv, InMode
  <2>7. InMode' /\ enabled' = enabled \ {n}
    <3>1. CASE call[g].ignore BY <1>2, <1>4, <2>1, <2>6, <3>1, IgnoreMode
    <3>2. CASE ~call[g].ignore BY <1>2, <1>4, <2>1, <2>6, <3>2, DisableMode
    <3>. QED BY <3>1, <3>2
  <2>8. \A m \in Signal : m \in enabled <=> ref[m] > 0
    BY <1>15, <2>2 DEF EnabledInv
  <2>9. \A m \in Signal : m \in enabled' <=> ref'[m] > 0
    BY <1>10, <2>4, <2>7, <2>8
  <2>10. EnabledInv' BY <1>15, <2>7, <2>9 DEF EnabledInv, InMode
  <2>. QED BY <2>5, <2>10
<1>17. ~Stops(g) /\ ~Stops(g)' BY <1>2, <1>12 DEF Stops
<1>18. (ListInv /\ OneStop /\ OwnEntry)'
  <2>1. \A h \in G : /\ Stops(h)' <=> Stops(h)
                     /\ Stops(h) => call'[h] = call[h]
    BY <1>12, <1>17 DEF Stops
  <2>. QED BY <1>2, <2>1, StopsKept DEF SignalInv
<1>19. OwedInv'
  <2>. SUFFICES ASSUME poll.pc = "interrupt", NEW d \in owed', d \notin crossed
                PROVE  d \in Waiting'
    BY <1>2 DEF OwedInv
  <2>1. d \in C /\ d \in Waiting
    BY <1>0, <1>11 DEF SignalInv, OwedInv, SignalsTypeOK
  <2>2. CASE Wants(d, Interrupt)
    <3>1. n # Interrupt BY <1>1, <2>1, <2>2 DEF Wanting
    <3>2. Wants(d, Interrupt)' BY <1>6, <2>1, <2>2, <3>1
    <3>. QED BY <2>1, <3>2 DEF Waiting
  <2>3. CASE ~Wants(d, Interrupt)
    <3>1. PICK h \in G : /\ call[h].pc \in {"drop", "barrier"}
                         /\ call[h].c = d /\ Interrupt \in call[h].mask
      BY <2>1, <2>3 DEF Waiting
    <3>2. call'[h] = call[h] BY <1>2, <1>12, <3>1
    <3>. QED BY <2>1, <3>1, <3>2 DEF Waiting
  <2>. QED BY <2>2, <2>3
<1>. QED BY <1>13, <1>14, <1>16, <1>18, <1>19 DEF SignalInv

-----------------------------------------------------------------------------
(***************************************************************************)
(* The poller and the console                                              *)
(***************************************************************************)
PollShape == [pc : {"none", "look", "asleep", "begin", "take",
                    "interrupt", "measure", "resized"},
              enabled : SUBSET Signal, measured : BOOLEAN]

\* A step that touches neither the calls nor what they count ...
LEMMA CallsRest ==
    ASSUME SignalInv, console => console',
           UNCHANGED <<table, lock, native, mode, call, crossed, failed, calls>>
    PROVE  /\ (CallInv /\ ListInv /\ OneStop /\ OwnEntry)'
           /\ ~failed' => (CountInv /\ EnabledInv)'
           /\ Waiting' = Waiting
<1>1. UNCHANGED <<handlers, ref, stopping, lock, enabled, ignored, mode, call,
                  crossed, failed, calls>>
  BY DEF table, native
<1>2. CallInv' BY <1>1 DEF SignalInv, CallInv, Stops, At
<1>3. ListInv' /\ OneStop' /\ OwnEntry'
  BY <1>1 DEF SignalInv, ListInv, Listed, Leaving, OneStop, OwnEntry, Stops
<1>4. /\ \A n : (Opening(n)' <=> Opening(n)) /\ (Closing(n)' <=> Closing(n))
                /\ (Woken(n)' <=> Woken(n))
      /\ \A n : Wanters(n)' = Wanters(n)
  BY <1>1 DEF Opening, Closing, Woken, Todo, At, Wanters, Wanting, Wants
<1>5. CountInv => CountInv' BY <1>1, <1>4 DEF CountInv
<1>6. EnabledInv => EnabledInv' BY <1>1, <1>4 DEF EnabledInv
<1>7. Waiting' = Waiting BY <1>1 DEF Waiting, Wants
<1>. QED BY <1>1, <1>2, <1>3, <1>5, <1>6, <1>7 DEF SignalInv

\* ... keeps their part of the types.
LEMMA TypesRest ==
    ASSUME SignalsTypeOK,
           UNCHANGED <<table, lock, native, mode, call, crossed, failed, calls>>,
           wake' \in BOOLEAN, pending' \in BOOLEAN, console' \in BOOLEAN,
           resized' \in BOOLEAN, poll' \in PollShape, full' \subseteq C,
           owed' \subseteq C
    PROVE  SignalsTypeOK'
<1>1. UNCHANGED <<handlers, ref, stopping, lock, enabled, ignored, mode, call,
                  crossed, failed, calls>>
  BY DEF table, native
<1>. QED BY <1>1 DEF SignalsTypeOK, PollShape

\* The poller's steps, in which it takes what was captured once.
LEMMA PollTyped ==
    ASSUME SignalInv, Poll
    PROVE  /\ poll' \in PollShape /\ wake' \in BOOLEAN /\ pending' \in BOOLEAN
           /\ resized' \in BOOLEAN /\ full' \subseteq C
           /\ UNCHANGED <<table, lock, native, mode, console, call, crossed,
                          failed, calls>>
           /\ \/ owed' = Waiting
              \/ owed' = owed /\ poll'.pc # "interrupt"
              \/ owed' = {}
<1>0. /\ poll \in PollShape /\ enabled \subseteq Signal /\ full \subseteq C
      /\ stopping \in Seq([c : C, mask : SUBSET Signal])
  BY DEF SignalInv, SignalsTypeOK, PollShape
<1>a. wake \in BOOLEAN BY DEF SignalInv, SignalsTypeOK
<1>b. pending \in BOOLEAN BY DEF SignalInv, SignalsTypeOK
<1>c. resized \in BOOLEAN BY DEF SignalInv, SignalsTypeOK
<1>1. ASSUME NEW n, Send(n) PROVE full' \subseteq C
  <2>1. \A t \in ToSet(stopping) : t.c \in C
    <3>1. ASSUME NEW i \in DOMAIN stopping PROVE stopping[i].c \in C
      <4>1. stopping \in Seq(Entry) BY <1>0 DEF Entry
      <4>2. stopping[i] \in Entry BY <4>1
      <4>. QED BY <4>2 DEF Entry
    <3>. QED BY <3>1 DEF ToSet
  <2>. QED BY <1>0, <1>1, <2>1 DEF Send
<1>2. poll.measured \in BOOLEAN /\ poll.enabled \in SUBSET Signal
  BY <1>0 DEF PollShape
<1>3. ASSUME NEW s \in BOOLEAN, EndRound(s)
      PROVE  poll' \in PollShape /\ poll'.pc = "look"
  <2>1. poll' = [poll EXCEPT !.pc = "look", !.enabled = {}, !.measured = s]
    BY <1>3 DEF EndRound
  <2>. QED BY <1>0, <2>1 DEF PollShape
<1>4. CASE Look
  BY <1>0, <1>a, <1>b, <1>c, <1>4 DEF Look, table, native, tty, history, PollShape
<1>5. CASE Awake
  BY <1>0, <1>b, <1>c, <1>5 DEF Awake, table, native, tty, history, PollShape
<1>6. CASE Begin
  BY <1>0, <1>a, <1>b, <1>c, <1>6 DEF Begin, table, native, tty, history, PollShape
<1>7. CASE Take
  <2>1. /\ UNCHANGED <<table, lock, native, wake, mode, console, resized, call, full,
                       crossed, failed, calls>>
        /\ poll.pc = "take"
    BY <1>7 DEF Take
  <2>2. CASE ~console
    BY <1>0, <1>2, <1>3, <1>7, <1>a, <1>b, <1>c, <2>1, <2>2 DEF Take
  <2>3. CASE console /\ Interrupt \in poll.enabled /\ pending
    <3>1. /\ pending' = FALSE /\ owed' = Waiting
          /\ poll' = [poll EXCEPT !.pc = "interrupt"]
      BY <1>7, <2>3 DEF Take
    <3>2. poll' \in PollShape BY <1>0, <3>1 DEF PollShape
    <3>. QED BY <1>0, <1>a, <1>c, <2>1, <3>1, <3>2
  <2>4. CASE console /\ ~(Interrupt \in poll.enabled /\ pending)
    <3>1. /\ pending' = pending /\ owed' = owed
          /\ poll' = [poll EXCEPT !.pc = "measure"]
      BY <1>7, <2>4 DEF Take
    <3>2. poll' \in PollShape /\ poll'.pc = "measure"
      BY <1>0, <3>1 DEF PollShape
    <3>. QED BY <1>0, <1>a, <1>b, <1>c, <2>1, <3>1, <3>2
  <2>. QED BY <2>2, <2>3, <2>4
<1>8. CASE ProcessInterrupt
  <2>1. /\ poll' = [poll EXCEPT !.pc = "measure"] /\ owed' = {}
        /\ UNCHANGED <<table, lock, native, wake, tty, call, crossed, failed, calls>>
        /\ Send(Interrupt)
    BY <1>8 DEF ProcessInterrupt
  <2>2. poll' \in PollShape BY <1>0, <2>1 DEF PollShape
  <2>. QED BY <1>1, <1>a, <1>b, <1>c, <2>1, <2>2 DEF tty
<1>9. CASE Measure
  <2>1. UNCHANGED <<table, lock, native, wake, mode, pending, console, call, full,
                    history>>
    BY <1>9 DEF Measure
  <2>2. resized' \in BOOLEAN BY <1>9 DEF Measure
  <2>3. \/ EndRound(poll.measured) \/ EndRound(TRUE)
        \/ poll' = [poll EXCEPT !.pc = "resized"]
    BY <1>9 DEF Measure
  <2>4. poll' \in PollShape /\ poll'.pc # "interrupt"
    <3>1. CASE EndRound(poll.measured) BY <1>2, <1>3, <3>1
    <3>2. CASE EndRound(TRUE) BY <1>3, <3>2
    <3>3. CASE poll' = [poll EXCEPT !.pc = "resized"] BY <1>0, <3>3 DEF PollShape
    <3>. QED BY <2>3, <3>1, <3>2, <3>3
  <2>. QED BY <1>0, <1>a, <1>b, <2>1, <2>2, <2>4 DEF history
<1>10. CASE ProcessResized
  <2>1. /\ EndRound(poll.measured) /\ Send(Winch)
        /\ UNCHANGED <<table, lock, native, wake, tty, call, history>>
    BY <1>10 DEF ProcessResized
  <2>2. poll' \in PollShape /\ poll'.pc # "interrupt" BY <1>2, <1>3, <2>1
  <2>. QED BY <1>1, <1>a, <1>b, <1>c, <2>1, <2>2 DEF tty, history
<1>. QED BY <1>4, <1>5, <1>6, <1>7, <1>8, <1>9, <1>10 DEF Poll

LEMMA PollKeeps == ASSUME SignalInv, Poll PROVE SignalInv'
<1>1. /\ poll' \in PollShape /\ wake' \in BOOLEAN /\ pending' \in BOOLEAN
      /\ resized' \in BOOLEAN /\ full' \subseteq C
      /\ UNCHANGED <<table, lock, native, mode, console, call, crossed,
                     failed, calls>>
      /\ \/ owed' = Waiting
         \/ owed' = owed /\ poll'.pc # "interrupt"
         \/ owed' = {}
  BY PollTyped
<1>2. /\ (CallInv /\ ListInv /\ OneStop /\ OwnEntry)'
      /\ ~failed' => (CountInv /\ EnabledInv)'
      /\ Waiting' = Waiting
  BY <1>1, CallsRest
<1>3. owed' \subseteq C BY <1>1 DEF SignalInv, SignalsTypeOK, Waiting
<1>4. SignalsTypeOK'
  <2>1. console' \in BOOLEAN BY <1>1 DEF SignalInv, SignalsTypeOK
  <2>. QED BY <1>1, <1>3, <2>1, TypesRest DEF SignalInv
<1>5. OwedInv' BY <1>1, <1>2 DEF OwedInv
<1>. QED BY <1>2, <1>4, <1>5 DEF SignalInv

LEMMA WorldKeeps ==
    ASSUME SignalInv, Press \/ Resize \/ OpenConsole \/ \E c \in C : Receive(c)
    PROVE  SignalInv'
<1>1. /\ console => console'
      /\ UNCHANGED <<table, lock, native, mode, call, crossed, failed, calls>>
      /\ UNCHANGED <<wake, poll, owed>>
  BY DEF Press, Resize, OpenConsole, Receive, tty, history
<1>2. /\ (CallInv /\ ListInv /\ OneStop /\ OwnEntry)'
      /\ ~failed' => (CountInv /\ EnabledInv)'
      /\ Waiting' = Waiting
  BY <1>1, CallsRest
<1>3. SignalsTypeOK'
  <2>1. pending' \in BOOLEAN
    <3>1. pending' = TRUE \/ pending' = pending
      BY DEF Press, Resize, OpenConsole, Receive, tty
    <3>. QED BY <3>1 DEF SignalInv, SignalsTypeOK
  <2>2. console' \in BOOLEAN
    <3>1. console' = TRUE \/ console' = console
      BY DEF Press, Resize, OpenConsole, Receive, tty
    <3>. QED BY <3>1 DEF SignalInv, SignalsTypeOK
  <2>3. resized' \in BOOLEAN /\ full' \subseteq C
    BY DEF SignalInv, SignalsTypeOK, Press, Resize, OpenConsole, Receive, tty
  <2>4. poll' \in PollShape /\ owed' \subseteq C
    BY <1>1 DEF SignalInv, SignalsTypeOK, PollShape
  <2>5. wake' \in BOOLEAN BY <1>1 DEF SignalInv, SignalsTypeOK
  <2>. QED BY <1>1, <2>1, <2>2, <2>3, <2>4, <2>5, TypesRest DEF SignalInv
<1>4. OwedInv' BY <1>1, <1>2 DEF SignalInv, OwedInv
<1>. QED BY <1>2, <1>3, <1>4 DEF SignalInv

-----------------------------------------------------------------------------
(***************************************************************************)
(* Theorems                                                                *)
(***************************************************************************)
LEMMA SignalsStep == SignalInv /\ [SignalsNext]_signalVars => SignalInv'
<1>. SUFFICES ASSUME SignalInv, [SignalsNext]_signalVars PROVE SignalInv' OBVIOUS
<1>1. CASE UNCHANGED signalVars
  <2>1. /\ console => console'
        /\ UNCHANGED <<wake, poll, owed, full, pending>>
        /\ UNCHANGED <<table, lock, native, mode, console, resized, call, crossed,
                       failed, calls>>
    BY <1>1 DEF signalVars, tty, history
  <2>2. /\ (CallInv /\ ListInv /\ OneStop /\ OwnEntry)'
        /\ ~failed' => (CountInv /\ EnabledInv)'
        /\ Waiting' = Waiting
    BY <2>1, CallsRest
  <2>3. wake' \in BOOLEAN BY <2>1 DEF SignalInv, SignalsTypeOK
  <2>4. pending' \in BOOLEAN BY <2>1 DEF SignalInv, SignalsTypeOK
  <2>5. console' \in BOOLEAN BY <2>1 DEF SignalInv, SignalsTypeOK
  <2>6. /\ resized' \in BOOLEAN /\ full' \subseteq C /\ owed' \subseteq C
        /\ poll' \in PollShape
    BY <2>1 DEF SignalInv, SignalsTypeOK, PollShape
  <2>7. SignalsTypeOK' BY <2>1, <2>3, <2>4, <2>5, <2>6, TypesRest DEF SignalInv
  <2>8. OwedInv' BY <2>1, <2>2 DEF SignalInv, OwedInv
  <2>. QED BY <2>2, <2>7, <2>8 DEF SignalInv
<1>2. ASSUME NEW g \in G, Calls(g) PROVE SignalInv'
  <2>1. CASE \E c \in C, S \in SUBSET Signal \ {{}} : Notify(g, c, S)
    BY <2>1, NotifyKeeps
  <2>2. CASE \E c \in C : Stop(g, c) BY <2>2, StopKeeps
  <2>3. CASE \E S \in SUBSET Signal \ {{}}, ignore \in BOOLEAN : Cancel(g, S, ignore)
    BY <2>3, CancelKeeps
  <2>. QED BY <1>2, <2>1, <2>2, <2>3 DEF Calls
<1>3. ASSUME NEW g \in G, CallStep(g) PROVE SignalInv'
  BY <1>3, AddKeeps, AddFirstKeeps, EnableKeeps, WakeKeeps, DropKeeps, ListKeeps,
     BarrierKeeps, ForgetKeeps, CancelOneKeeps, ReturnKeeps DEF CallStep
<1>. QED BY <1>1, <1>2, <1>3, PollKeeps, WorldKeeps DEF SignalsNext

\* The invariant, for every number of goroutines, channels and calls.
THEOREM SignalsInvariant == SignalsSpec => []SignalInv
<1>1. SignalInv /\ [SignalsNext]_signalVars => SignalInv' BY SignalsStep
<1>. QED BY <1>1, SignalsStart, PTL DEF SignalsSpec

\* The tables of package os/signal have their types in every reachable state.
THEOREM SignalsTypes == SignalsSpec => []SignalsTypeOK
<1>1. SignalInv => SignalsTypeOK BY DEF SignalInv
<1>. QED BY <1>1, SignalsInvariant, PTL

\* Between calls the table, the counters, what the poller looks for and the
\* console's mode agree, as long as no call panicked.
THEOREM SignalsInStep == SignalsSpec => []InStep
<1>1. SignalInv => InStep
  <2>. SUFFICES ASSUME SignalInv, lock = None, ~failed
                PROVE  /\ \A n \in Signal :
                              ref[n] = Cardinality({c \in C : Wants(c, n)})
                       /\ enabled = {n \in Signal : ref[n] > 0}
                       /\ enabled \cap ignored = {}
                       /\ mode = CASE Interrupt \in enabled -> 1
                                   [] Interrupt \in ignored -> 2
                                   [] OTHER -> 0
    BY DEF InStep
  <2>1. CountInv /\ EnabledInv /\ enabled \subseteq Signal
    BY DEF SignalInv, SignalsTypeOK
  <2>2. \A n : ~Opening(n) /\ ~Closing(n) /\ ~Woken(n)
    BY DEF Opening, Closing, Woken
  <2>3. \A n \in Signal : ref[n] = Wanters(n) BY <2>1, <2>2 DEF CountInv
  <2>4. enabled = {n \in Signal : ref[n] > 0} BY <2>1, <2>2 DEF EnabledInv
  <2>5. enabled \cap ignored = {} BY <2>1 DEF EnabledInv
  <2>6. mode = IF Interrupt \in enabled THEN 1
               ELSE IF Interrupt \in ignored THEN 2 ELSE 0
    BY <2>1, <2>2 DEF EnabledInv
  <2>. QED BY <2>3, <2>4, <2>5, <2>6 DEF Wanters, Wanting
<1>. QED BY <1>1, SignalsInvariant, PTL

\* An interrupt that the poller has taken reaches every channel it was taken
\* for, those in the middle of Stop included: process finds each of them in the
\* table or on the list of channels being stopped.
THEOREM SignalsDelivered == SignalsSpec => TakenDelivered
<1>1. ASSUME SignalInv, [SignalsNext]_signalVars,
             poll.pc = "interrupt", poll'.pc # "interrupt",
             NEW c \in owed \ crossed
      PROVE  c \in full'
  <2>0. SignalsTypeOK /\ CallInv BY <1>1 DEF SignalInv
  <2>1. ProcessInterrupt
    <3>1. ~UNCHANGED poll BY <1>1
    <3>2. ~Press /\ ~Resize /\ ~OpenConsole /\ ~(\E d \in C : Receive(d))
      BY <3>1 DEF Press, Resize, OpenConsole, Receive
    <3>3. ASSUME NEW g \in G PROVE ~Calls(g)
      BY <3>1 DEF Calls, Notify, Stop, Cancel
    <3>4. ASSUME NEW g \in G PROVE ~CallStep(g)
      <4>1. poll \in PollShape BY <2>0 DEF SignalsTypeOK, PollShape
      <4>2. ~Wake(g) BY <1>1, <3>1 DEF Wake
      <4>. QED BY <3>1, <4>2 DEF CallStep, Add, AddFirst, Enable, Drop, List,
                                 Barrier, Forget, CancelOne, Return
    <3>5. ~UNCHANGED signalVars BY <3>1 DEF signalVars
    <3>6. Poll BY <1>1, <3>2, <3>3, <3>4, <3>5 DEF SignalsNext
    <3>. QED
      BY <1>1, <3>6 DEF Poll, Look, Awake, Begin, Take, Measure, ProcessResized
  <2>2. /\ lock = None
        /\ full' = full \cup {d \in C : Wants(d, Interrupt)}
                        \cup {s.c : s \in {t \in ToSet(stopping) :
                                                Interrupt \in t.mask}}
    BY <2>1 DEF ProcessInterrupt, Send
  <2>3. c \in Waiting BY <1>1 DEF SignalInv, OwedInv
  <2>4. CASE Wants(c, Interrupt) BY <2>2, <2>3, <2>4 DEF Waiting
  <2>5. CASE ~Wants(c, Interrupt)
    <3>1. PICK g \in G : /\ call[g].pc \in {"drop", "barrier"}
                         /\ call[g].c = c /\ Interrupt \in call[g].mask
      BY <2>3, <2>5 DEF Waiting
    <3>2. call[g].pc = "barrier"
      BY <2>0, <2>2, <3>1, SignalsAssumption DEF CallInv, Holding
    <3>3. PICK i \in DOMAIN stopping : /\ stopping[i].c = c
                                       /\ Interrupt \in stopping[i].mask
      BY <1>1, <3>1, <3>2 DEF SignalInv, OwnEntry
    <3>4. stopping[i] \in ToSet(stopping) BY DEF ToSet
    <3>. QED BY <2>2, <3>3, <3>4
  <2>. QED BY <2>4, <2>5
<1>2. SignalInv /\ [SignalsNext]_signalVars
        => (poll.pc = "interrupt" /\ poll'.pc # "interrupt"
            => \A c \in owed \ crossed : c \in full')
  BY <1>1
<1>. QED BY <1>2, SignalsInvariant, PTL DEF SignalsSpec, TakenDelivered

\* Stop is final: when the last Stop of a channel has returned the list holds
\* no trace of it, and the poller sends it nothing.
THEOREM SignalsStopSilent == SignalsSpec => StopSilent
<1>1. ASSUME SignalInv, [SignalsNext]_signalVars, NEW c \in C, Stopped(c)
      PROVE  c \notin full' \ full
  <2>. SUFFICES ASSUME c \in full', c \notin full PROVE FALSE OBVIOUS
  <2>1. PICK n : Send(n)
    <3>1. full' # full OBVIOUS
    <3>2. ~Press /\ ~Resize /\ ~OpenConsole /\ ~(\E d \in C : Receive(d))
      BY DEF Press, Resize, OpenConsole, Receive
    <3>3. ASSUME NEW g \in G PROVE ~Calls(g)
      BY <3>1 DEF Calls, Notify, Stop, Cancel
    <3>4. ASSUME NEW g \in G PROVE ~CallStep(g)
      BY <3>1 DEF CallStep, Add, AddFirst, Enable, Wake, Drop, List,
                  Barrier, Forget, CancelOne, Return
    <3>5. ~UNCHANGED signalVars BY <3>1 DEF signalVars
    <3>6. Poll BY <1>1, <3>2, <3>3, <3>4, <3>5 DEF SignalsNext
    <3>7. ~Look /\ ~Awake /\ ~Begin /\ ~Take /\ ~Measure
      BY <3>1 DEF Look, Awake, Begin, Take, Measure
    <3>. QED BY <3>6, <3>7 DEF Poll, ProcessInterrupt, ProcessResized
  <2>2. ~Wants(c, n) BY <1>1 DEF Stopped, Wants
  <2>3. PICK t \in ToSet(stopping) : t.c = c BY <2>1, <2>2 DEF Send
  <2>4. Listed(c) # {} BY <2>3 DEF ToSet, Listed
  <2>5. Leaving(c) = {} BY <1>1 DEF Stopped, Leaving
  <2>6. Cardinality(Listed(c)) = 0
    BY <1>1, <2>5, FS_EmptySet DEF SignalInv, ListInv
  <2>7. IsFiniteSet(Listed(c)) BY <1>1, ListFinite DEF SignalInv
  <2>. QED BY <2>4, <2>6, <2>7, FS_EmptySet
<1>2. SignalInv /\ [SignalsNext]_signalVars
        => \A c \in C : Stopped(c) => c \notin full' \ full
  BY <1>1
<1>. QED BY <1>2, SignalsInvariant, PTL DEF SignalsSpec, StopSilent
===============================================================================
