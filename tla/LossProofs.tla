------------------------------ MODULE LossProofs ------------------------------
(***************************************************************************)
(* Which goroutines Sched may lose.  With one thread and any number of     *)
(* goroutines none: NoLostGoroutine and NoFalseDeadlock.  With any number  *)
(* of threads only at the places that LostOnlyThere names.                 *)
(***************************************************************************)
EXTENDS SchedProofs

-----------------------------------------------------------------------------
(***************************************************************************)
(* Layer 5: a program with one thread.                                     *)
(***************************************************************************)

\* What a step of the one thread starts from.
Lone == M = {M0} /\ IndInv /\ IndInv' /\ LoneInv

\* The invariants, for the one thread there is.
LEMMA LoneFacts ==
    ASSUME Lone
    PROVE  /\ BaseTypeOK /\ BaseTypeOK' /\ SingleOwner /\ SingleOwner'
           /\ LoneRegs /\ ByStatus /\ ScanSees
           /\ FilledAt(M0) /\ SeenAt(M0)
           /\ ret[M0] # "app" => pc[M0] \in CallPCs
           /\ \A h : /\ CanBeWoken(h) <=> \/ h \in waitq \/ h \in sleepers
                                          \/ Waking(M0, h)
                     /\ CanBeWoken(h)' <=> \/ h \in waitq' \/ h \in sleepers'
                                           \/ Waking(M0, h)'
                     /\ Held(h) <=> \E r \in Registers : reg[M0][r] = h
           /\ \A h \in G : CanBeWoken(h) =>
                \/ parking[h] = 1 /\ pc[M0] = "park" /\ reg[M0]["curg"] = h
                \/ parking[h] = 2 /\ reg[M0]["park_g"] = h
                \/ parking[h] = 0 /\ Loose(h)
<1>1. M0 \in M /\ IndInv /\ IndInv' /\ M = {M0} /\ LoneInv BY Consts DEF Lone
<1>2. Inv1 /\ Inv2 /\ Inv4 BY <1>1 DEF IndInv
<1>3. BaseTypeOK' /\ SingleOwner' BY <1>1 DEF IndInv, Inv1, Inv2
<1>4. BaseTypeOK /\ FilledAt(M0) BY <1>1, <1>2 DEF Inv1, Filled
<1>5. ret[M0] # "app" => pc[M0] \in CallPCs BY <1>1, <1>2 DEF Inv4, RetPending
<1>6. \A h \in G : CanBeWoken(h) => Parked(h) BY <1>2, SplitInv2
<1>7. SingleOwner /\ SeenAt(M0) BY <1>1, <1>2, SplitInv2
<1>8. \A h : /\ CanBeWoken(h) <=> \/ h \in waitq \/ h \in sleepers
                                  \/ Waking(M0, h)
             /\ CanBeWoken(h)' <=> \/ h \in waitq' \/ h \in sleepers'
                                   \/ Waking(M0, h)'
             /\ Held(h) <=> \E r \in Registers : reg[M0][r] = h
  BY <1>1 DEF CanBeWoken, Held
<1>9. \A h \in G : Parked(h) =>
                \/ parking[h] = 1 /\ pc[M0] = "park" /\ reg[M0]["curg"] = h
                \/ parking[h] = 2 /\ reg[M0]["park_g"] = h
                \/ parking[h] = 0 /\ Loose(h)
  BY <1>1 DEF Parked
<1>. QED BY <1>1, <1>3, <1>4, <1>5, <1>6, <1>7, <1>8, <1>9 DEF LoneInv

\* The registers that one action leaves alone, by name.
LEMMA PutNames ==
    ASSUME NEW m, NEW r \in Registers, NEW g, PutRegs(m, r, g)
    PROVE  /\ reg'[m][r] = g
           /\ "curg" # r => reg'[m]["curg"] = reg[m]["curg"]
           /\ "nextg" # r => reg'[m]["nextg"] = reg[m]["nextg"]
           /\ "deadg" # r => reg'[m]["deadg"] = reg[m]["deadg"]
           /\ "enqg" # r => reg'[m]["enqg"] = reg[m]["enqg"]
           /\ "park_g" # r => reg'[m]["park_g"] = reg[m]["park_g"]
           /\ "next" # r => reg'[m]["next"] = reg[m]["next"]
           /\ "enq" # r => reg'[m]["enq"] = reg[m]["enq"]
           /\ "start" # r => reg'[m]["start"] = reg[m]["start"]
BY RegNames DEF PutRegs

LEMMA ShiftNames ==
    ASSUME NEW m, NEW a \in Registers, NEW b \in Registers, ShiftRegs(m, a, b)
    PROVE  /\ reg'[m][b] = reg[m][a] /\ reg'[m][a] = None
           /\ "curg" # a /\ "curg" # b => reg'[m]["curg"] = reg[m]["curg"]
           /\ "nextg" # a /\ "nextg" # b => reg'[m]["nextg"] = reg[m]["nextg"]
           /\ "deadg" # a /\ "deadg" # b => reg'[m]["deadg"] = reg[m]["deadg"]
           /\ "enqg" # a /\ "enqg" # b => reg'[m]["enqg"] = reg[m]["enqg"]
           /\ "park_g" # a /\ "park_g" # b =>
                 reg'[m]["park_g"] = reg[m]["park_g"]
           /\ "next" # a /\ "next" # b => reg'[m]["next"] = reg[m]["next"]
           /\ "enq" # a /\ "enq" # b => reg'[m]["enq"] = reg[m]["enq"]
           /\ "start" # a /\ "start" # b => reg'[m]["start"] = reg[m]["start"]
BY RegNames DEF ShiftRegs

\* One goroutine keeps its status and its place.
SameAt(h) ==
    /\ status'[h] = status[h]
    /\ CanBeWoken(h)' <=> CanBeWoken(h)
    /\ Runs(h)' <=> Runs(h)
    /\ RunsSoon(h)' <=> RunsSoon(h)
    /\ Parks(h)' => Parks(h)

\* What is left to show of a step of the one thread.
LEMMA LoneKeep ==
    ASSUME LoneInv, LoneRegs', ScanSees', proc' # "deadlock",
           \A h \in G : SameAt(h) \/ PlacedAt(h)'
    PROVE  LoneInv'
<1>1. \A h \in G : SameAt(h) => PlacedAt(h)'
  BY DEF LoneInv, ByStatus, PlacedAt, SameAt
<1>. QED BY <1>1 DEF LoneInv, ByStatus, NoFalseDeadlock

LEMMA ListKeep ==
    ASSUME ScanSees, UNCHANGED allg, pc'[M0] # "read",
           \A h \in G : Live(h)' => Live(h)
    PROVE  ScanSees'
BY DEF ScanSees, OnList

\* Everybody stays in place when only the thread goes from one point to another.
LEMMA OnlyGoes ==
    ASSUME Lone, UNCHANGED <<reg, tgt, status, waitq, sleepers, runq>>,
           pc[M0] # "park", pc'[M0] # "park",
           pc[M0] \in ReadyPCs <=> pc'[M0] \in ReadyPCs
    PROVE  \A h \in G : SameAt(h)
BY LoneFacts DEF SameAt, Runs, RunsSoon, Parks, Queued, Waking

\* A jump, and a return.
LEMMA Goes ==
    ASSUME Lone, NEW p
    PROVE  /\ Goto(M0, p) => pc'[M0] = p
           /\ Return(M0) => pc'[M0] = ret[M0] /\ ret'[M0] = "app"
           /\ \A q : CallEnqueue(M0, q, p) => pc'[M0] = "enq" /\ ret'[M0] = p
           /\ \A g : CallReady(M0, g, p) =>
                 pc'[M0] = "ready" /\ ret'[M0] = p /\ tgt'[M0] = g
<1>1. /\ M0 \in DOMAIN pc /\ M0 \in DOMAIN ret /\ M0 \in DOMAIN tgt
      /\ \A x : /\ [pc EXCEPT ![M0] = x][M0] = x
               /\ [ret EXCEPT ![M0] = x][M0] = x
               /\ [tgt EXCEPT ![M0] = x][M0] = x
  BY LoneFacts, Consts DEF BaseTypeOK
<1>. QED BY <1>1 DEF Goto, Return, CallEnqueue, CallReady

-----------------------------------------------------------------------------
\* runtime_ready and runtime_runq_enqueue

LEMMA LoneReadyLoad == ASSUME Lone, ReadyLoad(M0) PROVE LoneInv'
<1>a. PICK g \in G : pc[M0] = "ready" /\ tgt[M0] = g
  BY LoneFacts, Consts DEF ReadyLoad, At, FilledAt, ReadyPCs, BaseTypeOK
<1>0. /\ pc[M0] = "ready" /\ Waking(M0, g) /\ proc' = "running" /\ tgt[M0] = g
      /\ UNCHANGED <<reg, cand, gs, lists, waits, scan>>
  BY <1>a DEF ReadyLoad, At, ReadyPCs, Waking
<1>1. CanBeWoken(g) BY <1>0, LoneFacts
<1>2. status[g] = "waiting" BY <1>0, <1>1, LoneFacts DEF ByStatus, PlacedAt
<1>3. reg[M0]["park_g"] # g
  BY <1>0, LoneFacts, Consts DEF FilledAt, EnqPCs
<1>4. parking[g] = 0 BY <1>0, <1>1, <1>3, LoneFacts
<1>5. /\ seen' = [seen EXCEPT ![M0] = 0] /\ Goto(M0, "cas2")
      /\ UNCHANGED <<tgt, ret>>
  BY <1>0, <1>2, <1>4 DEF ReadyLoad
<1>6. pc'[M0] = "cas2" /\ seen'[M0] = 0
  BY <1>5, Goes, LoneFacts, Consts DEF BaseTypeOK
<1>7. LoneRegs'
  BY <1>0, <1>5, <1>6, LoneFacts
     DEF LoneRegs, LonePCs, UserPCs, CallPCs, EnqPCs, ReadyPCs, gs
<1>8. \A h \in G : SameAt(h)
  BY <1>0, <1>5, <1>6, OnlyGoes DEF gs, lists, waits, ReadyPCs
<1>9. ScanSees'
  BY <1>0, <1>6, LoneFacts, ListKeep DEF gs, lists, Live
<1>. QED BY <1>0, <1>7, <1>8, <1>9, LoneKeep DEF Lone

LEMMA LoneReadyPend == ASSUME Lone, ReadyPend(M0) PROVE LoneInv'
<1>0. /\ pc[M0] = "cas2" /\ seen[M0] = 0 /\ proc' = "running"
      /\ UNCHANGED <<reg, cand, status, lockedm, lists, waits, scan>>
  BY LoneFacts DEF ReadyPend, At, LoneRegs
<1>1. /\ Goto(M0, "store") /\ UNCHANGED <<tgt, ret>>
  BY <1>0 DEF ReadyPend
<1>2. pc'[M0] = "store" BY <1>1, Goes
<1>3. LoneRegs'
  BY <1>0, <1>1, <1>2, LoneFacts
     DEF LoneRegs, LonePCs, UserPCs, CallPCs, EnqPCs, ReadyPCs
<1>4. \A h \in G : SameAt(h)
  BY <1>0, <1>1, <1>2, OnlyGoes DEF lists, waits, ReadyPCs
<1>5. ScanSees' BY <1>0, <1>2, LoneFacts, ListKeep DEF lists, Live
<1>. QED BY <1>0, <1>3, <1>4, <1>5, LoneKeep DEF Lone

LEMMA LoneReadyParked == ASSUME Lone, ReadyParked(M0) PROVE LoneInv'
<1>a. PICK g \in G : pc[M0] = "store" /\ tgt[M0] = g
  BY LoneFacts, Consts DEF ReadyParked, At, FilledAt, ReadyPCs, BaseTypeOK
<1>0. /\ pc[M0] = "store" /\ Waking(M0, g) /\ proc' = "running" /\ tgt[M0] = g
      /\ tgt' = [tgt EXCEPT ![M0] = None]
      /\ UNCHANGED <<seen, cand, lockedm, lists, waits, scan>>
  BY <1>a DEF ReadyParked, At, ReadyPCs, Waking
<1>1. CanBeWoken(g) BY <1>0, LoneFacts
<1>2. status[g] = "waiting" BY <1>0, <1>1, LoneFacts DEF ByStatus, PlacedAt
<1>3. parking[g] = 0 BY <1>0, LoneFacts DEF SeenAt
<1>4. Loose(g) BY <1>0, <1>1, <1>3, LoneFacts
<1>5. /\ status' = [status EXCEPT ![g] = "runnable"]
      /\ reg' = Put(M0, "enq", g) /\ Goto(M0, "enq") /\ UNCHANGED ret
  BY <1>0, <1>2 DEF ReadyParked
<1>6. pc'[M0] = "enq" BY <1>5, Goes
<1>7. PutRegs(M0, "enq", g)
  BY <1>0, <1>5, LoneFacts, PutShape, RegNames, Consts
<1>8. /\ reg'[M0]["enq"] = g /\ reg'[M0]["curg"] = reg[M0]["curg"]
      /\ reg'[M0]["nextg"] = reg[M0]["nextg"]
      /\ reg'[M0]["deadg"] = reg[M0]["deadg"]
      /\ reg'[M0]["enqg"] = reg[M0]["enqg"]
      /\ reg'[M0]["park_g"] = reg[M0]["park_g"]
      /\ reg'[M0]["next"] = reg[M0]["next"]
      /\ reg'[M0]["start"] = reg[M0]["start"]
  BY <1>7, PutNames, RegNames
<1>9. /\ status'[g] = "runnable"
      /\ \A h \in G : h # g => status'[h] = status[h]
  BY <1>0, <1>5, LoneFacts DEF BaseTypeOK
<1>10. LoneRegs'
  <2>1. reg[M0]["deadg"] = None BY <1>0, LoneFacts DEF LoneRegs
  <2>. QED BY <1>0, <1>5, <1>6, <1>8, <2>1, LoneFacts
           DEF LoneRegs, LonePCs, UserPCs, CallPCs, EnqPCs, ReadyPCs
<1>11. \A h : Queued(h)' <=> Queued(h) BY <1>0 DEF lists, Queued
<1>12. ASSUME NEW h \in G, h # g PROVE SameAt(h)
  <2>1. ~Waking(M0, h) BY <1>0, <1>12 DEF Waking
  <2>2. ~Waking(M0, h)' BY <1>6 DEF Waking, ReadyPCs
  <2>3. UNCHANGED <<waitq, sleepers>> BY <1>0 DEF waits
  <2>4. CanBeWoken(h)' <=> CanBeWoken(h) BY <2>1, <2>2, <2>3, LoneFacts
  <2>5. reg[M0]["enq"] # h BY <1>0, <1>12, LoneFacts, Consts DEF LoneRegs
  <2>. QED BY <1>0, <1>6, <1>8, <1>9, <1>11, <1>12, <2>4, <2>5
           DEF SameAt, Runs, RunsSoon, Parks
<1>13. PlacedAt(g)'
  <2>1. g \notin waitq \cup sleepers
    BY <1>0, Consts DEF Lone, IndInv, Inv2, OneWaker
  <2>2. ~Waking(M0, g)' BY <1>6 DEF Waking, ReadyPCs
  <2>3. ~CanBeWoken(g)' BY <1>0, <2>1, <2>2, LoneFacts DEF waits
  <2>4. reg[M0]["curg"] # g /\ reg[M0]["park_g"] # g
    BY <1>4, LoneFacts, RegNames DEF Loose
  <2>. QED BY <1>6, <1>8, <1>9, <2>3, <2>4 DEF PlacedAt, Runs, RunsSoon, Parks
<1>14. ScanSees'
  <2>1. \A h \in G : Live(h)' => Live(h) BY <1>2, <1>9 DEF Live
  <2>. QED BY <1>0, <1>6, <2>1, LoneFacts, ListKeep DEF lists
<1>. QED BY <1>0, <1>10, <1>12, <1>13, <1>14, LoneKeep DEF Lone

LEMMA LoneEnqueueFind == ASSUME Lone, EnqueueFind(M0) PROVE LoneInv'
<1>0. /\ pc[M0] = "enq" /\ proc' = "running"
      /\ UNCHANGED <<reg, tgt, seen, ret, gs, lists, waits, scan>>
  BY DEF EnqueueFind, At
<1>1. Idle(M0) = {} BY LoneFacts DEF Idle, BaseTypeOK, Lone
<1>2. Goto(M0, "push") BY <1>1 DEF EnqueueFind
<1>3. pc'[M0] = "push" BY <1>2, Goes
<1>4. LoneRegs'
  BY <1>0, <1>3, LoneFacts
     DEF LoneRegs, LonePCs, UserPCs, CallPCs, EnqPCs, ReadyPCs, gs
<1>5. \A h \in G : SameAt(h)
  BY <1>0, <1>3, OnlyGoes DEF gs, lists, waits, ReadyPCs
<1>6. ScanSees' BY <1>0, <1>3, LoneFacts, ListKeep DEF gs, lists, Live
<1>. QED BY <1>0, <1>4, <1>5, <1>6, LoneKeep DEF Lone

LEMMA LoneEnqueuePush == ASSUME Lone, EnqueuePush(M0) PROVE LoneInv'
<1>. DEFINE g == reg[M0]["enq"]
<1>0. /\ pc[M0] = "push" /\ g \in G /\ proc' = "running"
      /\ runq' = PutAtTail(runq, g) /\ reg' = Put(M0, "enq", None)
      /\ Return(M0)
      /\ UNCHANGED <<tgt, seen, cand, gs, deadq, allg, allm, waits, scan>>
  BY LoneFacts, RegNames, Consts
     DEF EnqueuePush, At, FilledAt, EnqPCs, BaseTypeOK
<1>1. pc'[M0] = ret[M0] /\ ret'[M0] = "app" BY <1>0, Goes
<1>2. /\ reg'[M0]["enq"] = None /\ reg'[M0]["curg"] = reg[M0]["curg"]
      /\ reg'[M0]["nextg"] = reg[M0]["nextg"]
      /\ reg'[M0]["deadg"] = reg[M0]["deadg"]
      /\ reg'[M0]["enqg"] = reg[M0]["enqg"]
      /\ reg'[M0]["park_g"] = reg[M0]["park_g"]
      /\ reg'[M0]["next"] = reg[M0]["next"]
      /\ reg'[M0]["start"] = reg[M0]["start"]
  <2>1. PutRegs(M0, "enq", None)
    BY <1>0, LoneFacts, PutShape, RegNames, Consts
  <2>. QED BY <2>1, PutNames, RegNames
<1>3. ret[M0] \in {"app", "take", "poll", "polled"}
  BY LoneFacts, Consts DEF BaseTypeOK
<1>4. LoneRegs'
  BY <1>0, <1>1, <1>2, <1>3, LoneFacts
     DEF LoneRegs, LonePCs, UserPCs, CallPCs, EnqPCs, ReadyPCs, gs
<1>5. \A h : Queued(h)' <=> Queued(h) \/ h = g
  <2>1. /\ runq \in Seq(G) /\ \A i, j \in DOMAIN runq : runq[i] = runq[j] => i = j
        /\ ~Queued(g)
    BY <1>0, LoneFacts, RegNames, Consts
       DEF BaseTypeOK, SingleOwner, QueuedOnce, HeldNotQueued
  <2>2. \A h : (\E i \in DOMAIN PutAtTail(runq, g) : PutAtTail(runq, g)[i] = h)
               <=> (\E i \in DOMAIN runq : runq[i] = h) \/ h = g
    <3>. HIDE DEF g
    <3>. QED BY <1>0, <2>1, PutQueued DEF Queued
  <2>. QED BY <1>0, <2>2 DEF Queued
<1>6. \A h \in G : SameAt(h)
  <2>1. \A h : ~Waking(M0, h) /\ ~Waking(M0, h)'
    BY <1>0, <1>1, <1>3 DEF Waking, ReadyPCs
  <2>2. \A h : CanBeWoken(h)' <=> CanBeWoken(h)
    BY <1>0, <2>1, LoneFacts DEF waits
  <2>. QED BY <1>0, <1>1, <1>2, <1>3, <1>5, <2>2, Consts
           DEF SameAt, Runs, RunsSoon, Parks, gs
<1>7. ScanSees'
  BY <1>0, <1>1, <1>3, LoneFacts, ListKeep DEF gs, Live
<1>. QED BY <1>0, <1>4, <1>6, <1>7, LoneKeep DEF Lone

-----------------------------------------------------------------------------
\* runtime_schedule

\* The registers, by name, when one is set or one moves into another.
LEMMA LonePut ==
    ASSUME Lone, NEW r \in Registers, NEW g \in G \cup {None},
           reg' = Put(M0, r, g)
    PROVE  /\ reg'[M0][r] = g
           /\ "curg" # r => reg'[M0]["curg"] = reg[M0]["curg"]
           /\ "nextg" # r => reg'[M0]["nextg"] = reg[M0]["nextg"]
           /\ "deadg" # r => reg'[M0]["deadg"] = reg[M0]["deadg"]
           /\ "enqg" # r => reg'[M0]["enqg"] = reg[M0]["enqg"]
           /\ "park_g" # r => reg'[M0]["park_g"] = reg[M0]["park_g"]
           /\ "next" # r => reg'[M0]["next"] = reg[M0]["next"]
           /\ "enq" # r => reg'[M0]["enq"] = reg[M0]["enq"]
           /\ "start" # r => reg'[M0]["start"] = reg[M0]["start"]
<1>1. PutRegs(M0, r, g) BY LoneFacts, PutShape, Consts
<1>. QED BY <1>1, PutNames

LEMMA LoneShift ==
    ASSUME Lone, NEW a \in Registers, NEW b \in Registers, a # b,
           reg' = Move(M0, a, M0, b)
    PROVE  /\ reg'[M0][b] = reg[M0][a] /\ reg'[M0][a] = None
           /\ "curg" # a /\ "curg" # b => reg'[M0]["curg"] = reg[M0]["curg"]
           /\ "nextg" # a /\ "nextg" # b => reg'[M0]["nextg"] = reg[M0]["nextg"]
           /\ "deadg" # a /\ "deadg" # b => reg'[M0]["deadg"] = reg[M0]["deadg"]
           /\ "enqg" # a /\ "enqg" # b => reg'[M0]["enqg"] = reg[M0]["enqg"]
           /\ "park_g" # a /\ "park_g" # b =>
                 reg'[M0]["park_g"] = reg[M0]["park_g"]
           /\ "next" # a /\ "next" # b => reg'[M0]["next"] = reg[M0]["next"]
           /\ "enq" # a /\ "enq" # b => reg'[M0]["enq"] = reg[M0]["enq"]
           /\ "start" # a /\ "start" # b => reg'[M0]["start"] = reg[M0]["start"]
<1>1. ShiftRegs(M0, a, b) BY LoneFacts, ShiftShape, Consts
<1>. QED BY <1>1, ShiftNames

\* What the registers hold, if anything.
LEMMA LoneHeld ==
    ASSUME Lone
    PROVE  /\ \A r \in Registers : reg[M0][r] \in G \cup {None}
           /\ \A r, s \in Registers :
                 reg[M0][r] # None /\ reg[M0][r] = reg[M0][s] => r = s
           /\ \A r \in Registers, g \in G : reg[M0][r] = g => ~Queued(g)
<1>1. SingleOwner /\ BaseTypeOK BY LoneFacts
<1>. QED BY <1>1, Consts
         DEF SingleOwner, OneRegister, HeldNotQueued, BaseTypeOK

\* Nobody's right to wake changes while the thread is in no runtime_ready.
LEMMA NoWaking ==
    ASSUME Lone, UNCHANGED <<waitq, sleepers>>,
           pc[M0] \notin ReadyPCs, pc'[M0] \notin ReadyPCs
    PROVE  \A h : CanBeWoken(h)' <=> CanBeWoken(h)
BY LoneFacts DEF Waking

LEMMA LoneSchedReap == ASSUME Lone, SchedReap(M0) PROVE LoneInv'
<1>0. /\ pc[M0] = "sched" /\ proc' = "running"
      /\ reg' = Put(M0, "deadg", None)
      /\ UNCHANGED <<pc, frames, gs, runq, allg, allm, waits, scan>>
  BY DEF SchedReap, At
<1>1. /\ reg'[M0]["deadg"] = None
      /\ \A r \in {"curg", "nextg", "enqg", "park_g", "next", "enq", "start"} :
            reg'[M0][r] = reg[M0][r]
  BY <1>0, LonePut, RegNames
<1>2. LoneRegs'
  BY <1>0, <1>1, LoneFacts
     DEF LoneRegs, LonePCs, UserPCs, CallPCs, EnqPCs, ReadyPCs, gs, frames
<1>3. \A h \in G : SameAt(h)
  <2>1. \A h : CanBeWoken(h)' <=> CanBeWoken(h)
    BY <1>0, NoWaking DEF ReadyPCs, waits
  <2>. QED BY <1>0, <1>1, <2>1 DEF SameAt, Runs, RunsSoon, Parks, Queued, gs
<1>4. ScanSees' BY <1>0, LoneFacts, ListKeep DEF gs, Live
<1>. QED BY <1>0, <1>2, <1>3, <1>4, LoneKeep DEF Lone

LEMMA LoneSchedRequeue == ASSUME Lone, SchedRequeue(M0) PROVE LoneInv'
<1>0. /\ pc[M0] = "sched" /\ proc' = "running" /\ reg[M0]["deadg"] = None
      /\ UNCHANGED <<tgt, seen, cand, gs, lists, waits, scan>>
  BY DEF SchedRequeue, At
<1>1. reg[M0]["curg"] = None /\ reg[M0]["enq"] = None
  BY <1>0, LoneFacts DEF LoneRegs, UserPCs, CallPCs, EnqPCs, ReadyPCs
<1>2. /\ \/ pc'[M0] = "enq" /\ ret'[M0] = "take"
         \/ pc'[M0] = "take" /\ ret' = ret
      /\ \/ /\ reg'[M0]["enq"] = reg[M0]["enqg"] /\ reg'[M0]["enqg"] = None
            /\ pc'[M0] = "enq"
         \/ /\ reg'[M0]["enq"] = reg[M0]["enq"] /\ reg[M0]["enqg"] = None
            /\ reg'[M0]["enqg"] = None
      /\ \A r \in {"curg", "nextg", "deadg", "park_g", "next", "start"} :
            reg'[M0][r] = reg[M0][r]
  <2>1. CASE reg[M0]["enqg"] # None
    <3>1. CallEnqueue(M0, "enqg", "take") BY <2>1 DEF SchedRequeue
    <3>2. pc'[M0] = "enq" /\ ret'[M0] = "take" BY <3>1, Goes
    <3>3. reg' = Move(M0, "enqg", M0, "enq") BY <3>1 DEF CallEnqueue
    <3>. QED BY <3>2, <3>3, LoneShift, RegNames
  <2>2. CASE reg[M0]["enqg"] = None
    <3>1. Goto(M0, "take") /\ UNCHANGED <<reg, ret>> BY <2>2 DEF SchedRequeue
    <3>2. pc'[M0] = "take" BY <3>1, Goes
    <3>. QED BY <2>2, <3>1, <3>2
  <2>. QED BY <2>1, <2>2
<1>3. LoneRegs'
  BY <1>0, <1>1, <1>2, LoneFacts
     DEF LoneRegs, LonePCs, UserPCs, CallPCs, EnqPCs, ReadyPCs, gs
<1>4. \A h \in G : SameAt(h)
  <2>1. \A h : CanBeWoken(h)' <=> CanBeWoken(h)
    BY <1>0, <1>2, NoWaking DEF ReadyPCs, waits
  <2>2. \A h : Queued(h)' <=> Queued(h) BY <1>0 DEF lists, Queued
  <2>. QED BY <1>0, <1>1, <1>2, <2>1, <2>2, Consts
           DEF SameAt, Runs, RunsSoon, Parks, gs
<1>5. ScanSees' BY <1>0, <1>2, LoneFacts, ListKeep DEF gs, lists, Live
<1>. QED BY <1>0, <1>3, <1>4, <1>5, LoneKeep DEF Lone

LEMMA LoneSchedTake == ASSUME Lone, SchedTake(M0) PROVE LoneInv'
<1>0. /\ pc[M0] = "take" /\ proc' = "running"
      /\ reg' = Move(M0, "nextg", M0, "next")
      /\ Goto(M0, IF reg[M0]["park_g"] = None THEN "poll" ELSE "commit")
      /\ UNCHANGED <<frames, gs, lists, waits, scan>>
  BY DEF SchedTake, At
<1>1. pc'[M0] \in {"poll", "commit"} BY <1>0, Goes
<1>2. /\ reg[M0]["nextg"] = None /\ reg[M0]["next"] = None
      /\ reg[M0]["curg"] = None /\ reg[M0]["enq"] = None
      /\ reg[M0]["enqg"] = None /\ reg[M0]["deadg"] = None
  BY <1>0, LoneFacts DEF LoneRegs, UserPCs, CallPCs, EnqPCs, ReadyPCs
<1>3. \A r \in {"curg", "nextg", "deadg", "enqg", "park_g", "next", "enq",
                "start"} : reg'[M0][r] = reg[M0][r]
  BY <1>0, <1>2, LoneShift, RegNames
<1>4. LoneRegs'
  BY <1>0, <1>1, <1>2, <1>3, LoneFacts
     DEF LoneRegs, LonePCs, UserPCs, CallPCs, EnqPCs, ReadyPCs, gs, frames
<1>5. \A h \in G : SameAt(h)
  <2>1. \A h : CanBeWoken(h)' <=> CanBeWoken(h)
    BY <1>0, <1>1, NoWaking DEF ReadyPCs, waits
  <2>2. \A h : Queued(h)' <=> Queued(h) BY <1>0 DEF lists, Queued
  <2>. QED BY <1>0, <1>1, <1>2, <1>3, <2>1, <2>2, Consts
           DEF SameAt, Runs, RunsSoon, Parks, gs
<1>6. ScanSees' BY <1>0, <1>1, LoneFacts, ListKeep DEF gs, lists, Live
<1>. QED BY <1>0, <1>4, <1>5, <1>6, LoneKeep DEF Lone

LEMMA LoneSchedCommit == ASSUME Lone, SchedCommit(M0) PROVE LoneInv'
<1>a. PICK g \in G : pc[M0] = "commit" /\ reg[M0]["park_g"] = g
  BY LoneFacts, LoneHeld, RegNames DEF SchedCommit, At, FilledAt
<1>0. /\ proc' = "running" /\ UNCHANGED <<frames, status, lockedm, lists, waits, scan>>
  BY DEF SchedCommit, At
<1>1. CanBeWoken(g) BY <1>a, LoneFacts DEF ByStatus, PlacedAt, Parks
<1>2. parking[g] # 3
  <2>. SUFFICES ASSUME parking[g] = 3 PROVE FALSE OBVIOUS
  <2>. QED BY <1>1, LoneFacts
<1>3. reg' = Put(M0, "park_g", None) /\ Goto(M0, "poll")
  BY <1>a, <1>2 DEF SchedCommit
<1>4. pc'[M0] = "poll" BY <1>3, Goes
<1>5. /\ reg'[M0]["park_g"] = None
      /\ \A r \in {"curg", "nextg", "deadg", "enqg", "next", "enq", "start"} :
            reg'[M0][r] = reg[M0][r]
  BY <1>3, LonePut, RegNames
<1>6. LoneRegs'
  BY <1>a, <1>0, <1>4, <1>5, LoneFacts
     DEF LoneRegs, LonePCs, UserPCs, CallPCs, EnqPCs, ReadyPCs, frames
<1>7. \A h \in G : SameAt(h)
  <2>1. \A h : CanBeWoken(h)' <=> CanBeWoken(h)
    BY <1>a, <1>0, <1>4, NoWaking DEF ReadyPCs, waits
  <2>2. \A h : Queued(h)' <=> Queued(h) BY <1>0 DEF lists, Queued
  <2>. QED BY <1>a, <1>0, <1>4, <1>5, <2>1, <2>2, Consts
           DEF SameAt, Runs, RunsSoon, Parks
<1>8. ScanSees' BY <1>0, <1>4, LoneFacts, ListKeep DEF lists, Live
<1>. QED BY <1>0, <1>6, <1>7, <1>8, LoneKeep DEF Lone

LEMMA LonePollDue == ASSUME Lone, NEW g \in G, PollDue(M0, g) PROVE LoneInv'
<1>0. /\ pc[M0] = "poll" /\ proc' = "running" /\ g \in sleepers
      /\ sleepers' = sleepers \ {g} /\ CallReady(M0, g, "polled")
      /\ UNCHANGED <<reg, seen, cand, gs, lists, waitq, nsleep, scan>>
  BY DEF PollDue, At
<1>1. pc'[M0] = "ready" /\ ret'[M0] = "polled" /\ tgt'[M0] = g BY <1>0, Goes
<1>2. LoneRegs'
  BY <1>0, <1>1, LoneFacts
     DEF LoneRegs, LonePCs, UserPCs, CallPCs, EnqPCs, ReadyPCs, gs
<1>3. \A h \in G : SameAt(h)
  <2>1. \A h : ~Waking(M0, h) /\ (Waking(M0, h)' <=> h = g)
    BY <1>0, <1>1 DEF Waking, ReadyPCs
  <2>2. \A h : CanBeWoken(h)' <=> CanBeWoken(h) BY <1>0, <2>1, LoneFacts
  <2>3. \A h : Queued(h)' <=> Queued(h) BY <1>0 DEF lists, Queued
  <2>. QED BY <1>0, <1>1, <2>2, <2>3 DEF SameAt, Runs, RunsSoon, Parks, gs
<1>4. ScanSees' BY <1>0, <1>1, LoneFacts, ListKeep DEF gs, lists, Live
<1>. QED BY <1>0, <1>2, <1>3, <1>4, LoneKeep DEF Lone

\* PollDrop, PollDone and the dequeue that finds nothing only go on.
LEMMA LoneGoesOn ==
    ASSUME Lone, PollDrop(M0) \/ PollDone(M0) \/ DequeueNone(M0) PROVE LoneInv'
<1>0. /\ pc[M0] \in {"polled", "poll", "deq"} /\ proc' = "running"
      /\ UNCHANGED <<reg, frames, gs, lists, waitq, sleepers, scan>>
  BY DEF PollDrop, PollDone, DequeueNone, At, waits
<1>1. reg[M0]["next"] = None BY <1>0, LoneFacts DEF LoneRegs
<1>2. pc'[M0] \in {"poll", "deq", "scan"}
  <2>1. Goto(M0, "poll") \/ Goto(M0, "deq") \/ Goto(M0, "scan")
    BY <1>1 DEF PollDrop, PollDone, DequeueNone
  <2>. QED BY <2>1, Goes
<1>3. LoneRegs'
  BY <1>0, <1>2, LoneFacts
     DEF LoneRegs, LonePCs, UserPCs, CallPCs, EnqPCs, ReadyPCs, gs, frames
<1>4. \A h \in G : SameAt(h)
  BY <1>0, <1>2, OnlyGoes DEF gs, lists, frames, ReadyPCs
<1>5. ScanSees' BY <1>0, <1>2, LoneFacts, ListKeep DEF gs, lists, Live
<1>. QED BY <1>0, <1>3, <1>4, <1>5, LoneKeep DEF Lone

LEMMA LoneSchedRun == ASSUME Lone, SchedRun(M0) PROVE LoneInv'
<1>a. PICK g \in G : pc[M0] = "run" /\ reg[M0]["next"] = g
  BY LoneFacts, LoneHeld, RegNames DEF SchedRun, At, FilledAt
<1>0. /\ proc' = "running" /\ status' = [status EXCEPT ![g] = "running"]
      /\ reg' = Move(M0, "next", M0, "curg") /\ Goto(M0, "app")
      /\ UNCHANGED <<frames, parking, lockedm, lists, waits, scan>>
  BY <1>a DEF SchedRun, At
<1>1. pc'[M0] = "app" BY <1>0, Goes
<1>2. /\ reg[M0]["curg"] = None /\ reg[M0]["enq"] = None
      /\ reg[M0]["enqg"] = None /\ reg[M0]["deadg"] = None
  BY <1>a, LoneFacts DEF LoneRegs, UserPCs, CallPCs, EnqPCs, ReadyPCs
<1>3. /\ reg'[M0]["curg"] = g /\ reg'[M0]["next"] = None
      /\ \A r \in {"nextg", "deadg", "enqg", "park_g", "enq", "start"} :
            reg'[M0][r] = reg[M0][r]
  BY <1>a, <1>0, LoneShift, RegNames
<1>4. /\ status'[g] = "running"
      /\ \A h \in G : h # g => status'[h] = status[h]
  BY <1>0, LoneFacts DEF BaseTypeOK
<1>5. LoneRegs'
  BY <1>0, <1>1, <1>2, <1>3, LoneFacts
     DEF LoneRegs, LonePCs, UserPCs, CallPCs, EnqPCs, ReadyPCs, frames
<1>6. /\ \A h : CanBeWoken(h)' <=> CanBeWoken(h)
      /\ \A h : Queued(h)' <=> Queued(h)
  <2>1. \A h : CanBeWoken(h)' <=> CanBeWoken(h)
    BY <1>a, <1>0, <1>1, NoWaking DEF ReadyPCs, waits
  <2>2. \A h : Queued(h)' <=> Queued(h) BY <1>0 DEF lists, Queued
  <2>. QED BY <2>1, <2>2
<1>7. status[g] = "runnable" BY <1>a, LoneFacts DEF ByStatus, PlacedAt, RunsSoon
<1>8. ASSUME NEW h \in G, h # g PROVE SameAt(h)
  BY <1>a, <1>1, <1>2, <1>3, <1>4, <1>6, <1>8, Consts
     DEF SameAt, Runs, RunsSoon, Parks
<1>9. PlacedAt(g)'
  <2>1. ~CanBeWoken(g) BY <1>7, LoneFacts DEF ByStatus, PlacedAt
  <2>2. ~Queued(g) /\ reg[M0]["park_g"] # g
    BY <1>a, LoneHeld, RegNames, Consts
  <2>. QED BY <1>1, <1>2, <1>3, <1>4, <1>6, <2>1, <2>2, Consts
           DEF PlacedAt, Runs, RunsSoon, Parks
<1>10. ScanSees'
  <2>1. \A h \in G : Live(h)' => Live(h) BY <1>4, <1>7 DEF Live
  <2>. QED BY <1>0, <1>1, <2>1, LoneFacts, ListKeep DEF lists
<1>. QED BY <1>0, <1>5, <1>8, <1>9, <1>10, LoneKeep DEF Lone

\* runtime_allg_remove unlinks nobody else.
LEMMA OthersListed ==
    ASSUME BaseTypeOK, NEW g, allg' = AllgRemove(g),
           NEW h, h # g, OnList(h)
    PROVE  OnList(h)'
<1>1. allg \in Seq(G) /\ DOMAIN allg = 1 .. Len(allg) /\ Len(allg) \in Nat
  BY LenProperties DEF BaseTypeOK
<1>2. PICK k \in DOMAIN allg : allg[k] = h BY DEF OnList
<1>3. CASE {i \in DOMAIN allg : allg[i] = g} = {}
  BY <1>2, <1>3 DEF AllgRemove, OnList
<1>4. CASE {i \in DOMAIN allg : allg[i] = g} # {}
  <2>1. PICK i \in DOMAIN allg : allg[i] = g /\ allg' = RemoveAt(allg, i)
    BY <1>4 DEF AllgRemove
  <2>2. /\ DOMAIN allg' = 1 .. (Len(allg) - 1)
        /\ \A j \in 1 .. (Len(allg) - 1) :
              allg'[j] = IF j < i THEN allg[j] ELSE allg[j + 1]
    BY <1>1, <2>1, RemoveAtShape
  <2>3. k # i /\ i \in Nat /\ k \in Nat BY <1>1, <1>2, <2>1
  <2>4. CASE k < i
    <3>1. k \in DOMAIN allg' /\ allg'[k] = h BY <1>1, <1>2, <2>1, <2>2, <2>4
    <3>. QED BY <3>1 DEF OnList
  <2>5. CASE k > i
    <3>1. /\ k - 1 \in 1 .. (Len(allg) - 1) /\ ~(k - 1 < i) /\ k - 1 + 1 = k
      BY <1>1, <1>2, <2>1, <2>5
    <3>2. k - 1 \in DOMAIN allg' /\ allg'[k - 1] = h BY <1>2, <2>2, <3>1
    <3>. QED BY <3>2 DEF OnList
  <2>. QED BY <2>3, <2>4, <2>5
<1>. QED BY <1>3, <1>4

LEMMA LoneFreeDead == ASSUME Lone, FreeDead(M0) PROVE LoneInv'
<1>a. PICK g \in G : /\ g \in deadq /\ allg' = AllgRemove(g)
                     /\ status' = [status EXCEPT ![g] = "free"]
  BY LoneFacts DEF FreeDead, BaseTypeOK
<1>0. /\ pc[M0] = "deq" /\ proc' = "running"
      /\ UNCHANGED <<threads, frames, runq, waits, scan>>
  BY DEF FreeDead, At
<1>1. Loose(g) /\ ~CanBeWoken(g)
  <2>1. GoneForGood BY DEF Lone, IndInv, Inv2
  <2>. QED BY <1>a, <2>1 DEF GoneForGood, Loose
<1>2. /\ status'[g] = "free" /\ \A h \in G : h # g => status'[h] = status[h]
  BY <1>a, LoneFacts DEF BaseTypeOK
<1>3. LoneRegs'
  BY <1>0, LoneFacts
     DEF LoneRegs, LonePCs, UserPCs, CallPCs, EnqPCs, ReadyPCs, threads, frames
<1>4. /\ \A h : CanBeWoken(h)' <=> CanBeWoken(h)
      /\ \A h : Queued(h)' <=> Queued(h)
      /\ UNCHANGED <<pc, reg>>
  <2>1. \A h : CanBeWoken(h)' <=> CanBeWoken(h)
    BY <1>0, NoWaking DEF ReadyPCs, waits, threads
  <2>. QED BY <1>0, <2>1 DEF threads, Queued
<1>5. ASSUME NEW h \in G, h # g PROVE SameAt(h)
  BY <1>2, <1>4, <1>5 DEF SameAt, Runs, RunsSoon, Parks
<1>6. PlacedAt(g)'
  <2>1. /\ reg[M0]["curg"] # g /\ reg[M0]["park_g"] # g /\ reg[M0]["next"] # g
        /\ reg[M0]["enq"] # g /\ reg[M0]["enqg"] # g /\ ~Queued(g)
    BY <1>1, LoneFacts, RegNames DEF Loose
  <2>. QED BY <1>1, <1>2, <1>4, <2>1 DEF PlacedAt, Runs, RunsSoon, Parks
<1>7. ScanSees'
  <2>1. ASSUME NEW h \in G, Live(h)' PROVE OnList(h)'
    <3>1. h # g /\ Live(h) BY <1>2, <2>1 DEF Live
    <3>2. OnList(h) BY <3>1, LoneFacts DEF ScanSees
    <3>. QED BY <1>a, <3>1, <3>2, LoneFacts, OthersListed
  <2>. QED BY <1>0, <1>4, <2>1 DEF ScanSees
<1>. QED BY <1>0, <1>3, <1>5, <1>6, <1>7, LoneKeep DEF Lone

LEMMA LoneDequeue == ASSUME Lone, Dequeue(M0) PROVE LoneInv'
<1>a. PICK i \in DOMAIN runq : /\ reg' = Put(M0, "next", runq[i])
                               /\ runq' = Unlink(runq, i)
  BY DEF Dequeue, Eligible
<1>0. /\ pc[M0] = "deq" /\ proc' = "running" /\ Goto(M0, "run")
      /\ UNCHANGED <<frames, gs, deadq, allg, allm, waits, scan>>
  BY DEF Dequeue, At
<1>1. /\ runq \in Seq(G) /\ runq[i] \in G
      /\ \A g : Queued(g)' <=> Queued(g) /\ g # runq[i]
  <2>1. runq \in Seq(G) /\ \A j, k \in DOMAIN runq : runq[j] = runq[k] => j = k
    BY LoneFacts DEF BaseTypeOK, SingleOwner, QueuedOnce
  <2>2. /\ runq[i] \in G
        /\ \A g : (\E j \in DOMAIN Unlink(runq, i) : Unlink(runq, i)[j] = g)
                  <=> (\E j \in DOMAIN runq : runq[j] = g) /\ g # runq[i]
    BY <2>1, UnlinkQueued
  <2>. QED BY <1>a, <2>1, <2>2 DEF Queued
<1>2. PICK g \in G : g = runq[i] BY <1>1
<1>3. pc'[M0] = "run" BY <1>0, Goes
<1>4. reg[M0]["next"] = None BY <1>0, LoneFacts DEF LoneRegs
<1>5. /\ reg'[M0]["next"] = g
      /\ \A r \in {"curg", "nextg", "deadg", "enqg", "park_g", "enq", "start"} :
            reg'[M0][r] = reg[M0][r]
  BY <1>a, <1>2, LonePut, RegNames
<1>6. LoneRegs'
  BY <1>0, <1>3, <1>5, LoneFacts
     DEF LoneRegs, LonePCs, UserPCs, CallPCs, EnqPCs, ReadyPCs, gs, frames
<1>7. \A h \in G : SameAt(h)
  <2>1. \A h : CanBeWoken(h)' <=> CanBeWoken(h)
    BY <1>0, <1>3, NoWaking DEF ReadyPCs, waits
  <2>2. Queued(g) BY <1>2 DEF Queued
  <2>. QED BY <1>0, <1>1, <1>2, <1>3, <1>4, <1>5, <2>1, <2>2, Consts
           DEF SameAt, Runs, RunsSoon, Parks, gs
<1>8. ScanSees' BY <1>0, <1>3, LoneFacts, ListKeep DEF gs, Live
<1>. QED BY <1>0, <1>6, <1>7, <1>8, LoneKeep DEF Lone

LEMMA LoneScanBegin == ASSUME Lone, ScanBegin PROVE LoneInv'
<1>0. /\ pc[M0] = "scan" /\ proc' = "running" /\ Goto(M0, "read")
      /\ togo' = allg /\ UNCHANGED <<reg, frames, gs, lists, waits>>
  BY DEF ScanBegin, At
<1>1. pc'[M0] = "read" BY <1>0, Goes
<1>2. LoneRegs'
  BY <1>0, <1>1, LoneFacts
     DEF LoneRegs, LonePCs, UserPCs, CallPCs, EnqPCs, ReadyPCs, gs, frames
<1>3. \A h \in G : SameAt(h)
  BY <1>0, <1>1, OnlyGoes DEF gs, lists, frames, waits, ReadyPCs
<1>4. ScanSees'
  BY <1>0, LoneFacts DEF ScanSees, OnList, ToGo, Live, gs, lists
<1>. QED BY <1>0, <1>2, <1>3, <1>4, LoneKeep DEF Lone

LEMMA LoneScanRead == ASSUME Lone, ScanRead PROVE LoneInv'
<1>0. /\ pc[M0] = "read" /\ proc' = "running" /\ togo # <<>>
      /\ togo' = Tail(togo)
      /\ UNCHANGED <<threads, frames, gs, lists, waits>>
  BY DEF ScanRead, At
<1>1. UNCHANGED <<pc, reg, status, allg, runq, waitq, sleepers, tgt>>
  BY <1>0 DEF threads, gs, lists, waits, frames
<1>2. LoneRegs' BY <1>0, LoneFacts DEF LoneRegs, gs, frames, threads
<1>3. \A h \in G : SameAt(h)
  BY <1>0, <1>1, OnlyGoes DEF ReadyPCs
<1>4. ScanSees'
  <2>1. /\ togo \in Seq(G) /\ Len(togo) \in Nat /\ Len(togo) # 0
        /\ DOMAIN togo = 1 .. Len(togo)
        /\ DOMAIN togo' = 1 .. (Len(togo) - 1)
        /\ \A i \in 1 .. (Len(togo) - 1) : togo'[i] = togo[i + 1]
        /\ Head(togo) = togo[1]
    BY <1>0, LoneFacts, HeadTailProperties, LenProperties, EmptySeq DEF BaseTypeOK
  <2>2. found \subseteq found'
    BY DEF ScanRead
  <2>. SUFFICES ASSUME NEW g \in G, Live(g)
                PROVE  ToGo(g)' \/ status[g] \in found' \/ "running" \in found'
    BY <1>1, LoneFacts DEF ScanSees, OnList, Live
  <2>3. CASE status[g] \in found \/ "running" \in found BY <2>2, <2>3
  <2>4. CASE ToGo(g)
    <3>1. PICK i \in DOMAIN togo : togo[i] = g BY <2>4 DEF ToGo
    <3>2. CASE i = 1
      <4>1. Head(togo) = g BY <2>1, <3>1, <3>2
      <4>2. status[g] \notin {"free", "dead"} BY DEF Live
      <4>3. CASE status[g] = "waiting" /\ parking[g] = 3
        BY <4>1, <4>2, <4>3 DEF ScanRead
      <4>4. CASE ~(status[g] = "waiting" /\ parking[g] = 3)
        BY <4>1, <4>2, <4>4 DEF ScanRead
      <4>. QED BY <4>3, <4>4
    <3>3. CASE i # 1
      <4>1. /\ i - 1 \in 1 .. (Len(togo) - 1) /\ i - 1 + 1 = i
        BY <2>1, <3>1, <3>3
      <4>2. i - 1 \in DOMAIN togo' /\ togo'[i - 1] = g BY <2>1, <3>1, <4>1
      <4>. QED BY <4>2 DEF ToGo
    <3>. QED BY <3>2, <3>3
  <2>5. ToGo(g) \/ status[g] \in found \/ "running" \in found
    BY <1>0, LoneFacts DEF ScanSees
  <2>. QED BY <2>3, <2>4, <2>5
<1>. QED BY <1>0, <1>2, <1>3, <1>4, LoneKeep DEF Lone

LEMMA LoneScanEnd == ASSUME Lone, ScanEnd PROVE LoneInv'
<1>0. /\ pc[M0] = "read" /\ togo = <<>> /\ Goto(M0, "sched")
      /\ proc' = Verdict(found, nsleep)
      /\ UNCHANGED <<reg, frames, gs, lists, waits, togo>>
  BY DEF ScanEnd, At
<1>1. pc'[M0] = "sched" BY <1>0, Goes
<1>2. LoneRegs'
  BY <1>0, <1>1, LoneFacts
     DEF LoneRegs, LonePCs, UserPCs, CallPCs, EnqPCs, ReadyPCs, gs, frames
<1>3. \A h \in G : SameAt(h)
  BY <1>0, <1>1, OnlyGoes DEF gs, lists, frames, waits, ReadyPCs
<1>4. ScanSees' BY <1>0, <1>1, LoneFacts, ListKeep DEF gs, lists, Live
<1>5. ByStatus'
  <2>1. \A h \in G : PlacedAt(h)'
    BY <1>3, LoneFacts DEF ByStatus, PlacedAt, SameAt
  <2>. QED BY <2>1 DEF ByStatus
<1>6. NoFalseDeadlock'
  <2>. SUFFICES ASSUME proc' = "deadlock"
                PROVE  /\ sleepers' = {}
                       /\ \A g \in G : Live(g)' => g \in waitq'
    BY DEF NoFalseDeadlock
  <2>1. found \cap {"runnable", "running"} = {} /\ nsleep = 0
    BY <1>0 DEF Verdict
  <2>2. sleepers = {}
    <3>1. SleepersCounted /\ Inv1 BY DEF Lone, IndInv, Inv4
    <3>2. /\ Cardinality(sleepers) \in Nat /\ IsFiniteSet(sleepers)
          /\ Cardinality({m \in M : Polled(m)}) \in Nat
      BY <3>1, FiniteSleepers, FS_CardinalityType, LoneFacts
    <3>3. Cardinality(sleepers) = 0 BY <2>1, <3>1, <3>2, CountPolled
    <3>. QED BY <3>2, <3>3, FS_EmptySet
  <2>3. ASSUME NEW g \in G, Live(g) PROVE g \in waitq
    <3>1. status[g] \in found
      <4>1. ~ToGo(g) BY <1>0 DEF ToGo
      <4>. QED BY <1>0, <2>1, <2>3, <4>1, LoneFacts DEF ScanSees
    <3>2. status[g] = "waiting" BY <2>1, <3>1, LoneFacts DEF BaseTypeOK
    <3>3. CanBeWoken(g) BY <3>2, LoneFacts DEF ByStatus, PlacedAt
    <3>4. ~Waking(M0, g) BY <1>0 DEF Waking, ReadyPCs
    <3>. QED BY <2>2, <3>3, <3>4, LoneFacts
  <2>. QED BY <1>0, <2>2, <2>3 DEF waits, gs, Live
<1>. QED BY <1>2, <1>4, <1>5, <1>6 DEF LoneInv

-----------------------------------------------------------------------------
\* The running goroutine

\* Where a goroutine runs, it is the only one on the thread.
LEMMA LoneUser ==
    ASSUME Lone, pc[M0] \in UserPCs
    PROVE  /\ reg[M0]["curg"] \in G
           /\ reg[M0]["next"] = None /\ reg[M0]["enqg"] = None
           /\ reg[M0]["deadg"] = None /\ reg[M0]["park_g"] = None
           /\ pc[M0] # "spawn" => reg[M0]["enq"] = None
           /\ ret[M0] = "app"
           /\ pc[M0] # "park" => status[reg[M0]["curg"]] = "running"
           /\ pc[M0] # "park" => ~CanBeWoken(reg[M0]["curg"])
<1>1. reg[M0]["curg"] \in G
  BY LoneFacts, LoneHeld, RegNames DEF FilledAt, UserPCs
<1>2. /\ reg[M0]["next"] = None /\ reg[M0]["enqg"] = None
      /\ reg[M0]["deadg"] = None
      /\ pc[M0] # "spawn" => reg[M0]["enq"] = None
  BY LoneFacts DEF LoneRegs, UserPCs
<1>3. reg[M0]["park_g"] = None
  BY LoneFacts DEF FilledAt, UserPCs, EnqPCs
<1>4. ret[M0] = "app" BY LoneFacts DEF UserPCs, CallPCs, EnqPCs, ReadyPCs
<1>5. pc[M0] # "park" => status[reg[M0]["curg"]] = "running"
  BY <1>1, LoneFacts DEF ByStatus, PlacedAt, Runs
<1>6. pc[M0] # "park" => ~CanBeWoken(reg[M0]["curg"])
  BY <1>1, <1>5, LoneFacts DEF ByStatus, PlacedAt
<1>. QED BY <1>1, <1>2, <1>3, <1>4, <1>5, <1>6

\* A new goroutine, in the caller's enq register.
LEMMA LoneNew ==
    ASSUME Lone, NEW g \in G, pc[M0] = "app", NewG(M0, g),
           pc'[M0] \in {"enq", "spawn"}, proc' = "running",
           UNCHANGED <<frames, runq, deadq, allm, waits, scan>>
    PROVE  LoneInv'
<1>0. /\ status[g] = "free" /\ status' = [status EXCEPT ![g] = "runnable"]
      /\ allg' = <<g>> \o allg /\ reg' = Put(M0, "enq", g)
  BY DEF NewG
<1>1. /\ reg[M0]["curg"] \in G /\ reg[M0]["enq"] = None /\ ret[M0] = "app"
      /\ reg[M0]["deadg"] = None /\ reg[M0]["enqg"] = None
      /\ reg[M0]["next"] = None
  BY LoneUser DEF UserPCs
<1>2. /\ reg'[M0]["enq"] = g
      /\ \A r \in {"curg", "nextg", "deadg", "enqg", "park_g", "next", "start"} :
            reg'[M0][r] = reg[M0][r]
  BY <1>0, LonePut, RegNames
<1>3. /\ status'[g] = "runnable"
      /\ \A h \in G : h # g => status'[h] = status[h]
  BY <1>0, LoneFacts DEF BaseTypeOK
<1>4. LoneRegs'
  BY <1>1, <1>2, LoneFacts
     DEF LoneRegs, LonePCs, UserPCs, CallPCs, EnqPCs, ReadyPCs, frames
<1>5. /\ \A h : CanBeWoken(h)' <=> CanBeWoken(h)
      /\ \A h : Queued(h)' <=> Queued(h)
  <2>1. \A h : CanBeWoken(h)' <=> CanBeWoken(h) BY NoWaking DEF ReadyPCs, waits
  <2>. QED BY <2>1 DEF Queued
<1>6. ASSUME NEW h \in G, h # g PROVE SameAt(h)
  BY <1>1, <1>2, <1>3, <1>5, <1>6, Consts DEF SameAt, Runs, RunsSoon, Parks
<1>7. PlacedAt(g)'
  <2>1. ~CanBeWoken(g) /\ ~Runs(g) /\ ~Parks(g)
    BY <1>0, LoneFacts DEF ByStatus, PlacedAt
  <2>. QED BY <1>2, <1>3, <1>5, <2>1 DEF PlacedAt, Runs, RunsSoon, Parks
<1>8. ScanSees'
  <2>1. /\ allg \in Seq(G) /\ Len(allg) \in Nat /\ <<g>> \in Seq(G)
        /\ DOMAIN allg = 1 .. Len(allg)
    BY LoneFacts, LenProperties DEF BaseTypeOK
  <2>2. /\ DOMAIN allg' = 1 .. (1 + Len(allg)) /\ allg'[1] = g
        /\ \A i \in 1 .. Len(allg) : allg'[i + 1] = allg[i]
    BY <1>0, <2>1
  <2>3. OnList(g)' BY <2>1, <2>2 DEF OnList
  <2>4. ASSUME NEW h \in G, OnList(h) PROVE OnList(h)'
    <3>1. PICK i \in DOMAIN allg : allg[i] = h BY <2>4 DEF OnList
    <3>2. i + 1 \in DOMAIN allg' /\ allg'[i + 1] = h BY <2>1, <2>2, <3>1
    <3>. QED BY <3>2 DEF OnList
  <2>5. \A h \in G : Live(h)' => h = g \/ OnList(h)
    BY <1>3, LoneFacts DEF Live, ScanSees
  <2>. QED BY <2>3, <2>4, <2>5 DEF ScanSees
<1>. QED BY <1>4, <1>6, <1>7, <1>8, LoneKeep DEF Lone

LEMMA LoneGo ==
    ASSUME Lone, NEW g \in G, Go(M0, g) \/ StartLocked(M0, g) PROVE LoneInv'
<1>1. /\ pc[M0] = "app" /\ NewG(M0, g) /\ proc' = "running"
      /\ Goto(M0, "enq") \/ Goto(M0, "spawn")
      /\ UNCHANGED <<frames, runq, deadq, allm, waits, scan>>
  BY DEF Go, StartLocked, At
<1>2. pc'[M0] \in {"enq", "spawn"} BY <1>1, Goes
<1>. QED BY <1>1, <1>2, LoneNew

LEMMA LoneSpawnFail == ASSUME Lone, SpawnFail(M0) PROVE LoneInv'
<1>a. PICK g \in G : pc[M0] = "spawn" /\ reg[M0]["enq"] = g
  BY LoneFacts, LoneHeld, RegNames DEF SpawnFail, At, FilledAt
<1>0. /\ allg' = AllgRemove(g) /\ status' = [status EXCEPT ![g] = "free"]
      /\ reg' = Put(M0, "enq", None) /\ Goto(M0, "app") /\ proc' = "running"
      /\ UNCHANGED <<frames, parking, lockedm, runq, deadq, allm, waits, scan>>
  BY <1>a DEF SpawnFail, At
<1>1. pc'[M0] = "app" BY <1>0, Goes
<1>2. /\ reg'[M0]["enq"] = None
      /\ \A r \in {"curg", "nextg", "deadg", "enqg", "park_g", "next", "start"} :
            reg'[M0][r] = reg[M0][r]
  BY <1>0, LonePut, RegNames
<1>3. /\ status'[g] = "free" /\ \A h \in G : h # g => status'[h] = status[h]
  BY <1>0, LoneFacts DEF BaseTypeOK
<1>4. LoneRegs'
  <2>1. /\ reg[M0]["deadg"] = None /\ ret[M0] = "app" BY <1>a, LoneUser DEF UserPCs
  <2>. QED BY <1>a, <1>0, <1>1, <1>2, <2>1, LoneFacts
           DEF LoneRegs, LonePCs, UserPCs, CallPCs, EnqPCs, ReadyPCs, frames
<1>5. /\ \A h : CanBeWoken(h)' <=> CanBeWoken(h)
      /\ \A h : Queued(h)' <=> Queued(h)
  <2>1. \A h : CanBeWoken(h)' <=> CanBeWoken(h)
    BY <1>a, <1>0, <1>1, NoWaking DEF ReadyPCs, waits
  <2>. QED BY <1>0, <2>1 DEF Queued
<1>6. ASSUME NEW h \in G, h # g PROVE SameAt(h)
  BY <1>a, <1>1, <1>2, <1>3, <1>5, <1>6, Consts
     DEF SameAt, Runs, RunsSoon, Parks
<1>7. PlacedAt(g)'
  <2>1. /\ reg[M0]["curg"] # g /\ reg[M0]["park_g"] # g /\ reg[M0]["next"] # g
        /\ reg[M0]["enqg"] # g /\ ~Queued(g)
    BY <1>a, LoneHeld, RegNames, Consts
  <2>2. status[g] = "runnable" BY <1>a, LoneFacts DEF ByStatus, PlacedAt, RunsSoon
  <2>3. ~CanBeWoken(g) BY <2>2, LoneFacts DEF ByStatus, PlacedAt
  <2>. QED BY <1>1, <1>2, <1>3, <1>5, <2>1, <2>3, Consts
           DEF PlacedAt, Runs, RunsSoon, Parks
<1>8. ScanSees'
  <2>1. ASSUME NEW h \in G, Live(h)' PROVE OnList(h)'
    <3>1. h # g /\ Live(h) BY <1>3, <2>1 DEF Live
    <3>2. OnList(h) BY <3>1, LoneFacts DEF ScanSees
    <3>. QED BY <1>0, <3>1, <3>2, LoneFacts, OthersListed
  <2>. QED BY <1>1, <2>1 DEF ScanSees
<1>. QED BY <1>0, <1>4, <1>6, <1>7, <1>8, LoneKeep DEF Lone

\* Gosched and Goexit leave the goroutine in a register for the scheduler.
LEMMA LoneGosched == ASSUME Lone, Gosched(M0) PROVE LoneInv'
<1>a. PICK g \in G : pc[M0] = "app" /\ reg[M0]["curg"] = g
  BY LoneUser DEF Gosched, At, UserPCs
<1>0. /\ status' = [status EXCEPT ![g] = "runnable"] /\ Goto(M0, "sched")
      /\ reg' = Move(M0, "curg", M0, "enqg") /\ proc' = "running"
      /\ UNCHANGED <<frames, parking, lockedm, lists, waits, scan>>
  BY <1>a DEF Gosched, At, SwitchToG0
<1>1. pc'[M0] = "sched" BY <1>0, Goes
<1>2. /\ reg'[M0]["curg"] = None /\ reg'[M0]["enqg"] = g
      /\ \A r \in {"nextg", "deadg", "park_g", "next", "enq", "start"} :
            reg'[M0][r] = reg[M0][r]
  BY <1>a, <1>0, LoneShift, RegNames
<1>3. /\ status'[g] = "runnable"
      /\ \A h \in G : h # g => status'[h] = status[h]
  BY <1>0, LoneFacts DEF BaseTypeOK
<1>4. /\ reg[M0]["next"] = None /\ reg[M0]["enqg"] = None
      /\ reg[M0]["deadg"] = None /\ reg[M0]["park_g"] = None
      /\ reg[M0]["enq"] = None /\ status[g] = "running" /\ ~CanBeWoken(g)
  BY <1>a, LoneUser DEF UserPCs
<1>5. LoneRegs'
  BY <1>0, <1>1, <1>2, <1>4, LoneFacts
     DEF LoneRegs, LonePCs, UserPCs, CallPCs, EnqPCs, ReadyPCs, frames
<1>6. /\ \A h : CanBeWoken(h)' <=> CanBeWoken(h)
      /\ \A h : Queued(h)' <=> Queued(h)
  <2>1. \A h : CanBeWoken(h)' <=> CanBeWoken(h)
    BY <1>a, <1>0, <1>1, NoWaking DEF ReadyPCs, waits
  <2>. QED BY <1>0, <2>1 DEF Queued, lists
<1>7. ASSUME NEW h \in G, h # g PROVE SameAt(h)
  BY <1>a, <1>1, <1>2, <1>3, <1>4, <1>6, <1>7, Consts
     DEF SameAt, Runs, RunsSoon, Parks
<1>8. PlacedAt(g)'
  BY <1>1, <1>2, <1>3, <1>4, <1>6, Consts DEF PlacedAt, Runs, RunsSoon, Parks
<1>9. ScanSees'
  <2>1. \A h \in G : Live(h)' => Live(h) BY <1>3, <1>4 DEF Live
  <2>. QED BY <1>0, <1>1, <2>1, LoneFacts, ListKeep DEF lists
<1>. QED BY <1>0, <1>5, <1>7, <1>8, <1>9, LoneKeep DEF Lone

LEMMA LoneGoexit == ASSUME Lone, Goexit(M0) PROVE LoneInv'
<1>a. PICK g \in G : pc[M0] = "app" /\ reg[M0]["curg"] = g
  BY LoneUser DEF Goexit, At, UserPCs
<1>0. /\ status' = [status EXCEPT ![g] = "dead"] /\ Goto(M0, "sched")
      /\ reg' = Move(M0, "curg", M0, "deadg") /\ proc' = "running"
      /\ UNCHANGED <<frames, parking, lockedm, lists, waits, scan>>
  BY <1>a DEF Goexit, At, SwitchToG0
<1>1. pc'[M0] = "sched" BY <1>0, Goes
<1>2. /\ reg'[M0]["curg"] = None /\ reg'[M0]["deadg"] = g
      /\ \A r \in {"nextg", "enqg", "park_g", "next", "enq", "start"} :
            reg'[M0][r] = reg[M0][r]
  BY <1>a, <1>0, LoneShift, RegNames
<1>3. /\ status'[g] = "dead" /\ \A h \in G : h # g => status'[h] = status[h]
  BY <1>0, LoneFacts DEF BaseTypeOK
<1>4. /\ reg[M0]["next"] = None /\ reg[M0]["enqg"] = None
      /\ reg[M0]["deadg"] = None /\ reg[M0]["park_g"] = None
      /\ reg[M0]["enq"] = None /\ ~CanBeWoken(g)
  BY <1>a, LoneUser DEF UserPCs
<1>5. LoneRegs'
  BY <1>0, <1>1, <1>2, <1>3, <1>4, LoneFacts
     DEF LoneRegs, LonePCs, UserPCs, CallPCs, EnqPCs, ReadyPCs, frames
<1>6. /\ \A h : CanBeWoken(h)' <=> CanBeWoken(h)
      /\ \A h : Queued(h)' <=> Queued(h)
  <2>1. \A h : CanBeWoken(h)' <=> CanBeWoken(h)
    BY <1>a, <1>0, <1>1, NoWaking DEF ReadyPCs, waits
  <2>. QED BY <1>0, <2>1 DEF Queued, lists
<1>7. ASSUME NEW h \in G, h # g PROVE SameAt(h)
  BY <1>a, <1>1, <1>2, <1>3, <1>4, <1>6, <1>7, Consts
     DEF SameAt, Runs, RunsSoon, Parks
<1>8. PlacedAt(g)'
  <2>1. ~Queued(g) BY <1>a, LoneHeld, RegNames
  <2>. QED BY <1>1, <1>2, <1>3, <1>4, <1>6, <2>1, Consts
           DEF PlacedAt, Runs, RunsSoon, Parks
<1>9. ScanSees'
  <2>1. \A h \in G : Live(h)' => Live(h) BY <1>3 DEF Live
  <2>. QED BY <1>0, <1>1, <2>1, LoneFacts, ListKeep DEF lists
<1>. QED BY <1>0, <1>5, <1>7, <1>8, <1>9, LoneKeep DEF Lone

\* A goroutine that starts to wait is queued on an object or among the sleepers
\* before it has left the thread.
LEMMA LoneWaits ==
    ASSUME Lone, ParkRegister(M0) \/ Sleep(M0) PROVE LoneInv'
<1>a. PICK g \in G : pc[M0] = "app" /\ reg[M0]["curg"] = g
  BY LoneUser DEF ParkRegister, Sleep, At, UserPCs
<1>0. /\ status' = [status EXCEPT ![g] = "waiting"] /\ Goto(M0, "park")
      /\ proc' = "running"
      /\ \/ waitq' = waitq \cup {g} /\ sleepers' = sleepers
         \/ waitq' = waitq /\ sleepers' = sleepers \cup {g}
      /\ UNCHANGED <<reg, frames, lockedm, lists, scan>>
  BY <1>a DEF ParkRegister, Sleep, At
<1>1. pc'[M0] = "park" BY <1>0, Goes
<1>2. /\ status'[g] = "waiting" /\ \A h \in G : h # g => status'[h] = status[h]
  BY <1>0, LoneFacts DEF BaseTypeOK
<1>3. /\ reg[M0]["next"] = None /\ reg[M0]["enqg"] = None
      /\ reg[M0]["deadg"] = None /\ reg[M0]["park_g"] = None
      /\ reg[M0]["enq"] = None /\ status[g] = "running"
  BY <1>a, LoneUser DEF UserPCs
<1>4. LoneRegs'
  BY <1>a, <1>0, <1>1, <1>3, LoneFacts
     DEF LoneRegs, LonePCs, UserPCs, CallPCs, EnqPCs, ReadyPCs, frames
<1>5. /\ \A h : CanBeWoken(h)' <=> CanBeWoken(h) \/ h = g
      /\ \A h : Queued(h)' <=> Queued(h)
  <2>1. \A h : ~Waking(M0, h) /\ ~Waking(M0, h)'
    BY <1>a, <1>1 DEF Waking, ReadyPCs
  <2>2. \A h : CanBeWoken(h)' <=> CanBeWoken(h) \/ h = g
    BY <1>0, <2>1, LoneFacts
  <2>. QED BY <1>0, <2>2 DEF Queued, lists
<1>6. ASSUME NEW h \in G, h # g PROVE SameAt(h)
  BY <1>a, <1>0, <1>1, <1>2, <1>5, <1>6 DEF SameAt, Runs, RunsSoon, Parks
<1>7. PlacedAt(g)'
  <2>1. ~Queued(g) BY <1>a, LoneHeld, RegNames
  <2>. QED BY <1>0, <1>1, <1>2, <1>3, <1>5, <2>1, Consts
           DEF PlacedAt, Runs, RunsSoon, Parks
<1>8. ScanSees'
  <2>1. \A h \in G : Live(h)' => Live(h) BY <1>2, <1>3 DEF Live
  <2>. QED BY <1>0, <1>1, <2>1, LoneFacts, ListKeep DEF lists
<1>. QED BY <1>0, <1>4, <1>6, <1>7, <1>8, LoneKeep DEF Lone

\* With one thread no wakeup comes before the goroutine has left it.
LEMMA LoneParkSwitch == ASSUME Lone, ParkSwitch(M0) PROVE LoneInv'
<1>a. PICK g \in G : pc[M0] = "park" /\ reg[M0]["curg"] = g
  BY LoneUser DEF ParkSwitch, At, UserPCs
<1>b. /\ proc' = "running" /\ UNCHANGED <<frames, lockedm, lists, waits, scan>>
  BY DEF ParkSwitch, At
<1>1. CanBeWoken(g) BY <1>a, LoneFacts DEF ByStatus, PlacedAt, Parks
<1>2. reg[M0]["park_g"] = None BY <1>a, LoneUser DEF UserPCs
<1>3. parking[g] = 1
  <2>1. Held(g) BY <1>a, LoneFacts, RegNames
  <2>. QED BY <1>1, <1>2, <2>1, LoneFacts, Consts DEF Loose
<1>0. /\ reg' = Move(M0, "curg", M0, "park_g") /\ Goto(M0, "sched")
      /\ UNCHANGED status
  BY <1>a, <1>3 DEF ParkSwitch, SwitchToG0
<1>4. pc'[M0] = "sched" BY <1>0, Goes
<1>5. /\ reg'[M0]["curg"] = None /\ reg'[M0]["park_g"] = g
      /\ \A r \in {"nextg", "deadg", "enqg", "next", "enq", "start"} :
            reg'[M0][r] = reg[M0][r]
  BY <1>a, <1>0, LoneShift, RegNames
<1>6. LoneRegs'
  BY <1>a, <1>b, <1>0, <1>4, <1>5, LoneFacts
     DEF LoneRegs, LonePCs, UserPCs, CallPCs, EnqPCs, ReadyPCs, frames
<1>7. \A h \in G : SameAt(h)
  <2>1. \A h : CanBeWoken(h)' <=> CanBeWoken(h)
    BY <1>a, <1>b, <1>4, NoWaking DEF ReadyPCs, waits
  <2>2. \A h : Queued(h)' <=> Queued(h) BY <1>b DEF lists, Queued
  <2>. QED BY <1>a, <1>0, <1>4, <1>5, <2>1, <2>2, Consts
           DEF SameAt, Runs, RunsSoon, Parks
<1>8. ScanSees' BY <1>b, <1>0, <1>4, LoneFacts, ListKeep DEF lists, Live
<1>. QED BY <1>b, <1>6, <1>7, <1>8, LoneKeep DEF Lone

LEMMA LoneWake == ASSUME Lone, NEW g \in G, Wake(M0, g) PROVE LoneInv'
<1>0. /\ pc[M0] = "app" /\ proc' = "running" /\ g \in waitq
      /\ waitq' = waitq \ {g} /\ CallReady(M0, g, "app")
      /\ UNCHANGED <<reg, seen, cand, gs, lists, sleepers, nsleep, scan>>
  BY DEF Wake, At
<1>1. pc'[M0] = "ready" /\ ret'[M0] = "app" /\ tgt'[M0] = g BY <1>0, Goes
<1>2. LoneRegs'
  <2>1. reg[M0]["deadg"] = None BY <1>0, LoneUser DEF UserPCs
  <2>. QED BY <1>0, <1>1, <2>1, LoneFacts
           DEF LoneRegs, LonePCs, UserPCs, CallPCs, EnqPCs, ReadyPCs
<1>3. \A h \in G : SameAt(h)
  <2>1. \A h : ~Waking(M0, h) /\ (Waking(M0, h)' <=> h = g)
    BY <1>0, <1>1 DEF Waking, ReadyPCs
  <2>2. \A h : CanBeWoken(h)' <=> CanBeWoken(h) BY <1>0, <2>1, LoneFacts
  <2>3. \A h : Queued(h)' <=> Queued(h) BY <1>0 DEF lists, Queued
  <2>. QED BY <1>0, <1>1, <2>2, <2>3 DEF SameAt, Runs, RunsSoon, Parks, gs
<1>4. ScanSees' BY <1>0, <1>1, LoneFacts, ListKeep DEF gs, lists, Live
<1>. QED BY <1>0, <1>2, <1>3, <1>4, LoneKeep DEF Lone

\* Locks, and the end of the process, move no goroutine.
LEMMA LoneStays ==
    ASSUME Lone, proc' \in {"running", "exited"},
           UNCHANGED <<pc, reg, tgt, seen, ret, status, allg, runq, togo, found,
                       waitq, sleepers>>
    PROVE  LoneInv'
<1>1. LoneRegs' BY LoneFacts DEF LoneRegs
<1>2. \A h : CanBeWoken(h)' <=> CanBeWoken(h) BY LoneFacts DEF Waking
<1>3. \A h \in G : SameAt(h)
  BY <1>2 DEF SameAt, Runs, RunsSoon, Parks, Queued
<1>4. ScanSees' BY LoneFacts DEF ScanSees, OnList, ToGo, Live
<1>. QED BY <1>1, <1>3, <1>4, LoneKeep DEF Lone

LEMMA LoneEnds ==
    ASSUME Lone, LockOSThread(M0) \/ UnlockOSThread(M0) \/ MainReturn(M0)
                 \/ ExitThread(M0)
    PROVE  LoneInv'
<1>1. proc' \in {"running", "exited"}
  BY DEF LockOSThread, UnlockOSThread, MainReturn, ExitThread, At
<1>2. UNCHANGED <<pc, reg, tgt, seen, ret, status, allg, runq, togo, found,
                  waitq, sleepers>>
  BY DEF LockOSThread, UnlockOSThread, MainReturn, ExitThread, threads, frames,
         gs, lists, waits, scan
<1>. QED BY <1>1, <1>2, LoneStays

-----------------------------------------------------------------------------
\* Every step of the one thread, the steps it never takes included.
LEMMA LoneSteps == ASSUME Lone, Step(M0) PROVE LoneInv'
<1>1. pc[M0] \notin {"cas1", "mark", "wake3", "hand", "mstart", "mready", "none",
                     "gone"}
  BY LoneFacts DEF LoneRegs, LonePCs
<1>2. CASE Ready(M0)
  <2>1. ~ReadyCancel(M0) /\ ~ReadyMark(M0) BY <1>1 DEF ReadyCancel, ReadyMark, At
  <2>. QED BY <1>2, <2>1, LoneReadyLoad, LoneReadyPend, LoneReadyParked DEF Ready
<1>3. CASE Enqueue(M0)
  <2>1. ~EnqueueHand(M0) BY <1>1 DEF EnqueueHand, At
  <2>. QED BY <1>3, <2>1, LoneEnqueueFind, LoneEnqueuePush DEF Enqueue
<1>4. CASE Schedule(M0)
  <2>1. ~SchedWake(M0) BY <1>1 DEF SchedWake, At
  <2>. QED BY <1>4, <2>1, LoneSchedReap, LoneSchedRequeue, LoneSchedTake,
              LoneSchedCommit, LonePollDue, LoneGoesOn, LoneSchedRun,
              LoneFreeDead, LoneDequeue, LoneScanBegin, LoneScanRead, LoneScanEnd
           DEF Schedule
<1>5. CASE Goroutine(M0)
  <2>1. ASSUME NEW n \in M PROVE ~SpawnThread(M0, n) /\ ~SpawnWorker(M0, n)
    <3>1. n = M0 BY <2>1 DEF Lone
    <3>. QED BY <1>1, <3>1 DEF SpawnThread, SpawnWorker
  <2>. QED BY <1>5, <2>1, LoneGo, LoneWake, LoneSpawnFail, LoneGosched, LoneWaits,
              LoneParkSwitch, LoneGoexit, LoneEnds DEF Goroutine
<1>6. ~MPublish(M0) /\ ~MFirst(M0) BY <1>1 DEF MPublish, MFirst, At
<1>. QED BY <1>2, <1>3, <1>4, <1>5, <1>6 DEF Step

LEMMA LoneStep ==
    ASSUME M = {M0}
    PROVE  IndInv /\ IndInv' /\ LoneInv /\ [Next]_vars => LoneInv'
<1>. SUFFICES ASSUME IndInv, IndInv', LoneInv, [Next]_vars PROVE LoneInv'
  OBVIOUS
<1>1. Lone BY DEF Lone
<1>2. CASE \E m \in M : Step(m) BY <1>1, <1>2, LoneSteps
<1>3. CASE UNCHANGED vars \/ Ended
  <2>1. UNCHANGED <<pc, reg, tgt, seen, ret, status, allg, runq, togo, found,
                    waitq, sleepers, proc>>
    BY <1>3 DEF Ended, vars, threads, frames, gs, lists, waits, scan
  <2>2. CASE proc \in {"running", "exited"} BY <1>1, <2>1, <2>2, LoneStays
  <2>3. CASE proc = "deadlock"
    <3>1. LoneRegs' BY <1>1, <2>1, LoneFacts DEF LoneRegs
    <3>2. \A h : CanBeWoken(h)' <=> CanBeWoken(h)
      BY <1>1, <2>1, LoneFacts DEF Waking
    <3>3. ByStatus'
      BY <1>1, <2>1, <3>2, LoneFacts
         DEF ByStatus, PlacedAt, Runs, RunsSoon, Parks, Queued
    <3>4. ScanSees' BY <1>1, <2>1, LoneFacts DEF ScanSees, OnList, ToGo, Live
    <3>5. NoFalseDeadlock'
      BY <2>1 DEF LoneInv, NoFalseDeadlock, Live, Abandoned
    <3>. QED BY <3>1, <3>3, <3>4, <3>5 DEF LoneInv
  <2>. QED BY <1>1, <2>2, <2>3, LoneFacts DEF BaseTypeOK
<1>. QED BY <1>2, <1>3 DEF Next

LEMMA LoneInit == Init => LoneInv
<1>. SUFFICES ASSUME Init PROVE LoneInv OBVIOUS
<1>1. /\ pc[M0] = "sched" /\ proc = "running"
      /\ \A r \in Registers : reg[M0][r] = None
      /\ status = [g \in G |-> IF g = Main THEN "runnable" ELSE "free"]
      /\ runq = <<Main>> /\ allg = <<Main>> /\ waitq = {} /\ sleepers = {}
  BY Consts DEF Init
<1>2. LoneRegs BY <1>1, RegNames DEF LoneRegs, LonePCs
<1>3. \A g \in G : ~CanBeWoken(g)
  BY SchedAssumption DEF Init, CanBeWoken, Waking, ReadyPCs
<1>4. \A g : /\ Queued(g) <=> g = Main
             /\ OnList(g) <=> g = Main
  BY <1>1 DEF Queued, OnList
<1>5. ByStatus
  BY <1>1, <1>3, <1>4, RegNames, Consts
     DEF ByStatus, PlacedAt, Runs, RunsSoon, Parks
<1>6. ScanSees BY <1>1, <1>4 DEF ScanSees, Live
<1>7. NoFalseDeadlock BY <1>1 DEF NoFalseDeadlock
<1>. QED BY <1>2, <1>5, <1>6, <1>7 DEF LoneInv

\* With one thread, whatever the number of goroutines, each of them is where its
\* status says.
THEOREM LoneInvariant == ASSUME M = {M0} PROVE Spec => []LoneInv
<1>1. IndInv /\ IndInv' /\ LoneInv /\ [Next]_vars => LoneInv' BY LoneStep
<1>. QED BY <1>1, LoneInit, SchedInvariant, PTL DEF Spec

\* No goroutine is forgotten: a live one is held by the thread or queued, or
\* somebody still has the duty to wake it.
THEOREM NothingLost == ASSUME M = {M0} PROVE Spec => []NoLostGoroutine
<1>1. IndInv /\ LoneInv => NoLostGoroutine
  <2>. SUFFICES ASSUME IndInv, LoneInv, NEW g \in G, Live(g)
                PROVE  HeldByThread(g) \/ Queued(g) \/ CanBeWoken(g)
    BY DEF NoLostGoroutine
  <2>1. BaseTypeOK /\ PlacedAt(g) /\ pc[M0] # "gone"
    BY DEF IndInv, Inv1, LoneInv, ByStatus, LoneRegs, LonePCs
  <2>2. status[g] \in {"waiting", "running", "runnable"}
    BY <2>1 DEF Live, BaseTypeOK, Statuses
  <2>. QED BY <2>1, <2>2, RegNames, Consts
           DEF PlacedAt, Runs, RunsSoon, HeldByThread
<1>. QED BY <1>1, LoneInvariant, SchedInvariant, PTL

\* "All goroutines are asleep" is raised only when none is left to wake another.
THEOREM DeadlocksAreReal == ASSUME M = {M0} PROVE Spec => []NoFalseDeadlock
<1>1. LoneInv => NoFalseDeadlock BY DEF LoneInv
<1>. QED BY <1>1, LoneInvariant, PTL

-----------------------------------------------------------------------------
(***************************************************************************)
(* Layer 6: any number of threads.                                         *)
(***************************************************************************)

\* What a step starts from, and what is to be shown of it.
Good == IndInv /\ IndInv' /\ LossInv
Traced ==
    /\ LossInv'
    /\ \A g \in G : Somewhere(g) /\ ~Somewhere(g)' => Ends(g) \/ Dropped(g)

\* The invariants, in the form the steps use them.
LEMMA GoodFacts ==
    ASSUME Good
    PROVE  /\ Inv1 /\ Inv1' /\ Inv2 /\ Inv2' /\ BaseTypeOK /\ BaseTypeOK'
           /\ SingleOwner /\ OneRegister /\ OneWaker
           /\ \A h \in G : CanBeWoken(h) => Parked(h)
           /\ \A n \in M : SeenAt(n) /\ RegsAt(n) /\ FilledAt(n)
           /\ \A n \in M : ret[n] # "app" => pc[n] \in CallPCs
           /\ WakeOwed /\ WakerKnows
<1>1. /\ Inv1 /\ Inv1' /\ Inv2 /\ Inv2' /\ RetPending
  BY DEF Good, IndInv, Inv4
<1>2. BaseTypeOK /\ Filled BY <1>1 DEF Inv1
<1>3. BaseTypeOK' BY <1>1 DEF Inv1
<1>4. \A h \in G : CanBeWoken(h) => Parked(h) BY <1>1, SplitInv2
<1>5. \A n \in M : SeenAt(n) BY <1>1, SplitInv2
<1>6. SingleOwner /\ OneWaker BY <1>1, SplitInv2
<1>7. RegsInUse /\ WakeOwed /\ WakerKnows BY DEF Good, LossInv
<1>. QED BY <1>1, <1>2, <1>3, <1>4, <1>5, <1>6, <1>7
        DEF SingleOwner, RegsInUse, Filled, RetPending

\* Where only one thread moves.
Alone(m) ==
    /\ \A n \in M \ {m} : /\ pc'[n] = pc[n] /\ ret'[n] = ret[n]
                          /\ tgt'[n] = tgt[n] /\ seen'[n] = seen[n]

\* A jump and a call, and a return.
LEMMA Jumps ==
    ASSUME Good, NEW m \in M, NEW p
    PROVE  /\ Goto(m, p) => pc'[m] = p /\ \A n \in M \ {m} : pc'[n] = pc[n]
           /\ \A q : CallEnqueue(m, q, p) =>
                  /\ pc'[m] = "enq" /\ ret'[m] = p
                  /\ \A n \in M \ {m} : pc'[n] = pc[n] /\ ret'[n] = ret[n]
           /\ \A g : CallReady(m, g, p) =>
                  /\ pc'[m] = "ready" /\ ret'[m] = p /\ tgt'[m] = g
                  /\ \A n \in M \ {m} : /\ pc'[n] = pc[n] /\ ret'[n] = ret[n]
                                        /\ tgt'[n] = tgt[n]
<1>1. /\ DOMAIN pc = M /\ DOMAIN ret = M /\ DOMAIN tgt = M
  BY GoodFacts DEF BaseTypeOK
<1>2. \A f, x : DOMAIN f = M => /\ [f EXCEPT ![m] = x][m] = x
                                /\ \A n \in M \ {m} : [f EXCEPT ![m] = x][n] = f[n]
  OBVIOUS
<1>. QED BY <1>1, <1>2 DEF Goto, CallEnqueue, CallReady

LEMMA Returns ==
    ASSUME Good, NEW m \in M, Return(m)
    PROVE  /\ pc'[m] = ret[m] /\ ret'[m] = "app"
           /\ ret[m] \in {"app", "take", "poll", "polled"}
           /\ \A n \in M \ {m} : pc'[n] = pc[n] /\ ret'[n] = ret[n]
<1>1. DOMAIN pc = M /\ ret \in [M -> {"app", "take", "poll", "polled"}]
  BY GoodFacts DEF BaseTypeOK
<1>. QED BY <1>1 DEF Return, Goto

\* The effect of Put and Move on registers nobody else has.
LEMMA PutHere ==
    ASSUME Good, NEW m \in M, NEW r \in Registers, NEW g \in G \cup {None},
           reg' = Put(m, r, g)
    PROVE  /\ PutRegs(m, r, g)
           /\ \A n \in M \ {m} : reg'[n] = reg[n]
           /\ reg'[m][r] = g
           /\ "curg" # r => reg'[m]["curg"] = reg[m]["curg"]
           /\ "nextg" # r => reg'[m]["nextg"] = reg[m]["nextg"]
           /\ "deadg" # r => reg'[m]["deadg"] = reg[m]["deadg"]
           /\ "enqg" # r => reg'[m]["enqg"] = reg[m]["enqg"]
           /\ "park_g" # r => reg'[m]["park_g"] = reg[m]["park_g"]
           /\ "next" # r => reg'[m]["next"] = reg[m]["next"]
           /\ "enq" # r => reg'[m]["enq"] = reg[m]["enq"]
           /\ "start" # r => reg'[m]["start"] = reg[m]["start"]
<1>1. PutRegs(m, r, g) BY GoodFacts, PutShape
<1>2. \A n \in M \ {m} : reg'[n] = reg[n] BY <1>1 DEF PutRegs
<1>. QED BY <1>1, <1>2, PutNames

LEMMA ShiftHere ==
    ASSUME Good, NEW m \in M, NEW a \in Registers, NEW b \in Registers, a # b,
           reg' = Move(m, a, m, b)
    PROVE  /\ HandRegs(m, a, m, b)
           /\ \A n \in M \ {m} : reg'[n] = reg[n]
           /\ reg'[m][b] = reg[m][a] /\ reg'[m][a] = None
           /\ "curg" # a /\ "curg" # b => reg'[m]["curg"] = reg[m]["curg"]
           /\ "nextg" # a /\ "nextg" # b => reg'[m]["nextg"] = reg[m]["nextg"]
           /\ "deadg" # a /\ "deadg" # b => reg'[m]["deadg"] = reg[m]["deadg"]
           /\ "enqg" # a /\ "enqg" # b => reg'[m]["enqg"] = reg[m]["enqg"]
           /\ "park_g" # a /\ "park_g" # b =>
                 reg'[m]["park_g"] = reg[m]["park_g"]
           /\ "next" # a /\ "next" # b => reg'[m]["next"] = reg[m]["next"]
           /\ "enq" # a /\ "enq" # b => reg'[m]["enq"] = reg[m]["enq"]
           /\ "start" # a /\ "start" # b => reg'[m]["start"] = reg[m]["start"]
<1>1. HandRegs(m, a, m, b) /\ ShiftRegs(m, a, b)
  BY GoodFacts, HandShape, ShiftShape
<1>2. \A n \in M \ {m} : reg'[n] = reg[n] BY <1>1 DEF ShiftRegs
<1>. QED BY <1>1, <1>2, ShiftNames

\* Registers in use, when one thread moves.
LEMMA RegsKept ==
    ASSUME Good, NEW m \in M, Alone(m), \A n \in M \ {m} : reg'[n] = reg[n],
           RegsAt(m)'
    PROVE  RegsInUse'
<1>1. ASSUME NEW n \in M \ {m} PROVE RegsAt(n)'
  BY <1>1, GoodFacts DEF RegsAt, Alone
<1>. QED BY <1>1 DEF RegsInUse

\* The rights to wake, when no runtime_ready begins or ends.
LEMMA SameRights ==
    ASSUME Good, NEW m \in M, Alone(m), UNCHANGED <<waitq, sleepers>>,
           \/ pc[m] \notin ReadyPCs /\ pc'[m] \notin ReadyPCs
           \/ pc[m] \in ReadyPCs /\ pc'[m] \in ReadyPCs /\ tgt'[m] = tgt[m]
    PROVE  \A g : CanBeWoken(g)' <=> CanBeWoken(g)
<1>1. \A n \in M : \A g : Waking(n, g)' <=> Waking(n, g) BY DEF Waking, Alone
<1>. QED BY <1>1 DEF CanBeWoken

\* Nobody dies who can be woken.
LEMMA KnowsKept ==
    ASSUME Good, NEW m \in M, Alone(m), pc'[m] = "cas2" => seen'[m] \in {0, 2},
           \A g \in G : CanBeWoken(g)' => CanBeWoken(g) \/ status'[g] # "dead",
           \A g \in G : status'[g] = "dead" => status[g] = "dead" \/ ~CanBeWoken(g)'
    PROVE  WakerKnows'
<1>1. ASSUME NEW n \in M, pc'[n] = "cas2" PROVE seen'[n] \in {0, 2}
  BY <1>1, GoodFacts DEF Alone, WakerKnows
<1>2. ASSUME NEW g \in G, CanBeWoken(g)' PROVE status'[g] # "dead"
  BY <1>2, GoodFacts DEF WakerKnows
<1>. QED BY <1>1, <1>2 DEF WakerKnows

\* Whoever goes to sleep stays announced as long as his parking word and the
\* right to wake him stay.
LEMMA OwedKept ==
    ASSUME Good,
           \A n \in M, g \in G : Parking(n, g)' =>
               \/ /\ Parking(n, g) /\ parking'[g] = parking[g]
                  /\ CanBeWoken(g) => CanBeWoken(g)'
               \/ parking'[g] = 0
               \/ parking'[g] = 1 /\ CanBeWoken(g)',
           \A n \in M, g \in G : reg'[n]["park_g"] = g =>
               \/ /\ reg[n]["park_g"] = g /\ parking'[g] = parking[g]
                  /\ CanBeWoken(g) => CanBeWoken(g)'
               \/ parking'[g] = 3
               \/ parking'[g] = 2 /\ CanBeWoken(g)'
    PROVE  WakeOwed'
<1>1. ASSUME NEW n \in M, NEW g \in G, Parking(n, g)', parking'[g] # 0
      PROVE  parking'[g] = 1 /\ CanBeWoken(g)'
  BY <1>1, GoodFacts DEF WakeOwed
<1>2. ASSUME NEW n \in M, NEW g \in G, reg'[n]["park_g"] = g
      PROVE  parking'[g] = 3 \/ (parking'[g] = 2 /\ CanBeWoken(g)')
  BY <1>2, GoodFacts DEF WakeOwed
<1>. QED BY <1>1, <1>2 DEF WakeOwed

\* A step of one thread that wakes nobody and puts nobody to sleep.
LEMMA CalmStep ==
    ASSUME Good, NEW m \in M, Alone(m), \A n \in M \ {m} : reg'[n] = reg[n],
           RegsAt(m)', reg'[m]["park_g"] = reg[m]["park_g"],
           UNCHANGED <<parking, waitq, sleepers>>,
           pc[m] \notin ReadyPCs, pc'[m] \notin ReadyPCs \cup {"park"},
           \A g \in G : status'[g] = "dead" => status[g] = "dead" \/ ~CanBeWoken(g)
    PROVE  LossInv' /\ \A g \in G : CanBeWoken(g)' <=> CanBeWoken(g)
<1>1. \A g \in G : CanBeWoken(g)' <=> CanBeWoken(g) BY SameRights
<1>2. RegsInUse' BY RegsKept
<1>3. WakerKnows' BY <1>1, KnowsKept, GoodFacts DEF ReadyPCs, WakerKnows
<1>4. WakeOwed' BY <1>1, OwedKept DEF Parking, Alone
<1>. QED BY <1>1, <1>2, <1>3, <1>4 DEF LossInv

-----------------------------------------------------------------------------
\* Who is still somewhere after a step.

\* No thread leaves.
NoneGone == \A p \in M : pc'[p] = "gone" => pc[p] = "gone"

\* Nothing moves.
LEMMA NobodyMoves ==
    ASSUME NoneGone, UNCHANGED <<reg, runq>>, NEW g \in G,
           CanBeWoken(g) => Somewhere(g)'
    PROVE  Somewhere(g) => Somewhere(g)'
BY DEF Somewhere, HeldByThread, Queued, NoneGone

\* A goroutine moves to a register that is free.
LEMMA HandedOver ==
    ASSUME NoneGone, UNCHANGED runq, NEW g \in G, CanBeWoken(g) => Somewhere(g)',
           NEW m \in M, NEW a \in Registers, NEW n \in M, NEW b \in Registers,
           HandRegs(m, a, n, b), reg[n][b] = None, pc'[n] # "gone"
    PROVE  Somewhere(g) => Somewhere(g)'
<1>1. ASSUME NEW p \in M, NEW r \in Registers, pc[p] # "gone", reg[p][r] = g
      PROVE  HeldByThread(g)'
  <2>1. pc'[p] # "gone" /\ g # None BY <1>1, Consts DEF NoneGone
  <2>2. CASE p = m /\ r = a BY <1>1, <2>2 DEF HeldByThread, HandRegs
  <2>3. CASE ~(p = m /\ r = a)
    <3>1. reg'[p][r] = g BY <1>1, <2>1, <2>3 DEF HandRegs
    <3>. QED BY <2>1, <3>1 DEF HeldByThread
  <2>. QED BY <2>2, <2>3
<1>. QED BY <1>1 DEF Somewhere, HeldByThread, Queued

\* A register is filled that was free, or cleared.
LEMMA Overwritten ==
    ASSUME NoneGone, UNCHANGED runq, NEW g \in G, CanBeWoken(g) => Somewhere(g)',
           NEW m \in M, NEW r \in Registers, NEW h, PutRegs(m, r, h),
           reg[m][r] = g => Somewhere(g)'
    PROVE  Somewhere(g) => Somewhere(g)'
<1>1. ASSUME NEW p \in M, NEW s \in Registers, pc[p] # "gone", reg[p][s] = g
      PROVE  Somewhere(g)'
  <2>1. pc'[p] # "gone" BY <1>1 DEF NoneGone
  <2>2. CASE p = m /\ s = r BY <1>1, <2>2
  <2>3. CASE ~(p = m /\ s = r)
    <3>1. reg'[p][s] = g BY <1>1, <2>3 DEF PutRegs
    <3>. QED BY <2>1, <3>1 DEF Somewhere, HeldByThread
  <2>. QED BY <2>2, <2>3
<1>. QED BY <1>1 DEF Somewhere, HeldByThread, Queued

\* No thread leaves when one goes elsewhere.
LEMMA StillHere ==
    ASSUME NEW m \in M, Alone(m), pc'[m] # "gone"
    PROVE  NoneGone
BY DEF Alone, NoneGone

-----------------------------------------------------------------------------
\* runtime_ready

LEMMA TracedReadyLoad == ASSUME Good, NEW m \in M, ReadyLoad(m) PROVE Traced
<1>a. PICK g \in G : tgt[m] = g BY GoodFacts, Pointers DEF ReadyLoad, At
<1>0. /\ pc[m] = "ready" /\ Waking(m, g)
      /\ UNCHANGED <<reg, gs, lists, waits>>
  BY <1>a DEF ReadyLoad, At, ReadyPCs, Waking
<1>1. CanBeWoken(g) BY <1>0 DEF CanBeWoken
<1>2. status[g] # "dead" BY <1>1, GoodFacts DEF WakerKnows
<1>3. /\ seen' = [seen EXCEPT ![m] = parking[g]]
      /\ Goto(m, IF parking[g] = 1 THEN "cas1" ELSE "cas2")
      /\ UNCHANGED <<tgt, ret>>
  BY <1>a, <1>2 DEF ReadyLoad
<1>4. /\ Alone(m) /\ pc'[m] \in {"cas1", "cas2"}
      /\ pc'[m] = "cas2" => parking[g] # 1
      /\ seen'[m] = parking[g]
  BY <1>3, Jumps, GoodFacts DEF Alone, BaseTypeOK
<1>5. parking[g] \in {0, 1, 2} BY <1>1, GoodFacts DEF Parked
<1>6. \A h : CanBeWoken(h)' <=> CanBeWoken(h)
  BY <1>0, <1>3, <1>4, SameRights DEF waits, ReadyPCs
<1>7. RegsAt(m)'
  BY <1>0, <1>3, <1>4, GoodFacts DEF RegsAt, CallPCs, ReadyPCs, UserPCs, EnqPCs
<1>8. RegsInUse' BY <1>0, <1>4, <1>7, RegsKept
<1>9. WakerKnows' BY <1>0, <1>4, <1>5, <1>6, KnowsKept, GoodFacts DEF gs, WakerKnows
<1>10. WakeOwed' BY <1>0, <1>4, <1>6, OwedKept DEF Parking, Alone, gs
<1>11. NoneGone BY <1>4, StillHere
<1>12. \A h \in G : Somewhere(h) => Somewhere(h)'
  BY <1>0, <1>6, <1>11, NobodyMoves DEF lists, Somewhere
<1>. QED BY <1>8, <1>9, <1>10, <1>12 DEF Traced, LossInv

LEMMA TracedReadyCancel == ASSUME Good, NEW m \in M, ReadyCancel(m) PROVE Traced
<1>a. PICK g \in G : tgt[m] = g BY GoodFacts, Pointers DEF ReadyCancel, At
<1>0. /\ pc[m] = "cas1" /\ Waking(m, g)
      /\ UNCHANGED <<reg, tgt, ret, status, lockedm, lists, waits>>
  BY <1>a DEF ReadyCancel, At, ReadyPCs, Waking
<1>1. CanBeWoken(g) BY <1>0 DEF CanBeWoken
<1>2. Parked(g) BY <1>1, GoodFacts
<1>3. CASE parking[g] = 1
  <2>1. /\ parking' = [parking EXCEPT ![g] = 0]
        /\ seen' = [seen EXCEPT ![m] = 0] /\ Goto(m, "mark")
    BY <1>a, <1>3 DEF ReadyCancel
  <2>2. Alone(m) /\ pc'[m] = "mark"
    BY <1>0, <2>1, Jumps, GoodFacts DEF Alone, BaseTypeOK
  <2>3. parking'[g] = 0 /\ \A h \in G \ {g} : parking'[h] = parking[h]
    BY <2>1, GoodFacts DEF BaseTypeOK
  <2>4. RegsAt(m)'
    BY <1>0, <2>2, GoodFacts DEF RegsAt, CallPCs, ReadyPCs, UserPCs, EnqPCs
  <2>5. RegsInUse' BY <1>0, <2>2, <2>4, RegsKept
  <2>6. \A n \in M : \A h : Waking(n, h)' => Waking(n, h)
    BY <1>0, <2>2 DEF Waking, Alone, ReadyPCs
  <2>7. \A h : CanBeWoken(h)' => CanBeWoken(h) BY <1>0, <2>6 DEF CanBeWoken, waits
  <2>8. \A h \in G \ {g} : CanBeWoken(h) => CanBeWoken(h)'
    BY <1>0, <1>a, <2>2 DEF CanBeWoken, Waking, waits, Alone
  <2>9. WakerKnows' BY <1>0, <2>2, <2>7, KnowsKept, GoodFacts DEF WakerKnows
  <2>10. \A n \in M : reg[n]["park_g"] # g
    BY <1>3, GoodFacts DEF WakeOwed
  <2>11. WakeOwed'
    BY <1>0, <2>2, <2>3, <2>8, <2>10, OwedKept DEF Parking, Alone
  <2>12. PICK n \in M : pc[n] = "park" /\ reg[n]["curg"] = g
    BY <1>2, <1>3 DEF Parked
  <2>13. n # m BY <1>0, <2>12
  <2>14. HeldByThread(g)'
    BY <1>0, <2>2, <2>12, <2>13, RegNames DEF HeldByThread, Alone
  <2>15. NoneGone BY <2>2, StillHere
  <2>16. \A h \in G : Somewhere(h) => Somewhere(h)'
    BY <1>0, <2>8, <2>14, <2>15, NobodyMoves DEF lists, Somewhere
  <2>. QED BY <2>5, <2>9, <2>11, <2>16 DEF Traced, LossInv
<1>4. CASE parking[g] # 1
  <2>1. /\ UNCHANGED parking
        /\ seen' = [seen EXCEPT ![m] = parking[g]] /\ Goto(m, "cas2")
    BY <1>a, <1>4 DEF ReadyCancel
  <2>2. Alone(m) /\ pc'[m] = "cas2" /\ seen'[m] = parking[g]
    BY <1>0, <2>1, Jumps, GoodFacts DEF Alone, BaseTypeOK
  <2>3. parking[g] \in {0, 2} BY <1>2, <1>4 DEF Parked
  <2>4. RegsAt(m)'
    BY <1>0, <2>2, GoodFacts DEF RegsAt, CallPCs, ReadyPCs, UserPCs, EnqPCs
  <2>5. RegsInUse' BY <1>0, <2>2, <2>4, RegsKept
  <2>6. \A h : CanBeWoken(h)' <=> CanBeWoken(h)
    BY <1>0, <2>2, SameRights DEF waits, ReadyPCs
  <2>7. WakerKnows'
    BY <1>0, <2>2, <2>3, <2>6, KnowsKept, GoodFacts DEF WakerKnows
  <2>8. WakeOwed' BY <1>0, <2>1, <2>2, <2>6, OwedKept DEF Parking, Alone
  <2>9. NoneGone BY <2>2, StillHere
  <2>10. \A h \in G : Somewhere(h) => Somewhere(h)'
    BY <1>0, <2>6, <2>9, NobodyMoves DEF lists, Somewhere
  <2>. QED BY <2>5, <2>7, <2>8, <2>10 DEF Traced, LossInv
<1>. QED BY <1>3, <1>4

LEMMA TracedReadyMark == ASSUME Good, NEW m \in M, ReadyMark(m) PROVE Traced
<1>a. PICK g \in G : tgt[m] = g BY GoodFacts, Pointers DEF ReadyMark, At
<1>0. /\ pc[m] = "mark" /\ Return(m) /\ tgt' = [tgt EXCEPT ![m] = None]
      /\ status' = [status EXCEPT ![g] = "running"]
      /\ UNCHANGED <<reg, seen, parking, lists, waits>>
  BY <1>a DEF ReadyMark, At
<1>1. /\ Alone(m) /\ pc'[m] = ret[m] /\ ret'[m] = "app"
      /\ ret[m] \in {"app", "take", "poll", "polled"}
  BY <1>0, Returns, GoodFacts DEF Alone, BaseTypeOK
<1>2. \A h \in G : status'[h] = "dead" => status[h] = "dead"
  BY <1>0, GoodFacts DEF BaseTypeOK
<1>3. RegsAt(m)'
  BY <1>0, <1>1, GoodFacts DEF RegsAt, CallPCs, ReadyPCs, UserPCs, EnqPCs
<1>4. LossInv' /\ \A h \in G : CanBeWoken(h)' <=> CanBeWoken(h)
  BY <1>0, <1>1, <1>2, <1>3, CalmStep DEF waits, ReadyPCs
<1>5. NoneGone BY <1>1, StillHere
<1>6. \A h \in G : Somewhere(h) => Somewhere(h)'
  BY <1>0, <1>4, <1>5, NobodyMoves DEF lists, Somewhere
<1>. QED BY <1>4, <1>6 DEF Traced

LEMMA TracedReadyPend == ASSUME Good, NEW m \in M, ReadyPend(m) PROVE Traced
<1>a. PICK g \in G : tgt[m] = g BY GoodFacts, Pointers DEF ReadyPend, At
<1>0. /\ pc[m] = "cas2" /\ Waking(m, g) /\ seen[m] \in {0, 2}
      /\ UNCHANGED <<reg, status, lists, waits>>
  BY <1>a, GoodFacts DEF ReadyPend, At, ReadyPCs, Waking, WakerKnows
<1>1. CanBeWoken(g) BY <1>0 DEF CanBeWoken
<1>2. Parked(g) BY <1>1, GoodFacts
<1>3. CASE seen[m] = 2 /\ parking[g] = 2
  <2>1. /\ parking' = [parking EXCEPT ![g] = 3] /\ Return(m)
        /\ tgt' = [tgt EXCEPT ![m] = None] /\ seen' = [seen EXCEPT ![m] = 0]
    BY <1>a, <1>3 DEF ReadyPend
  <2>2. /\ Alone(m) /\ pc'[m] = ret[m] /\ ret'[m] = "app"
        /\ ret[m] \in {"app", "take", "poll", "polled"}
    BY <2>1, Returns, GoodFacts DEF Alone, BaseTypeOK
  <2>3. parking'[g] = 3 /\ \A h \in G \ {g} : parking'[h] = parking[h]
    BY <2>1, GoodFacts DEF BaseTypeOK
  <2>4. RegsAt(m)'
    BY <1>0, <2>2, GoodFacts DEF RegsAt, CallPCs, ReadyPCs, UserPCs, EnqPCs
  <2>5. RegsInUse' BY <1>0, <2>2, <2>4, RegsKept
  <2>6. \A n \in M : \A h : Waking(n, h)' => Waking(n, h)
    BY <1>0, <2>2 DEF Waking, Alone, ReadyPCs
  <2>7. \A h : CanBeWoken(h)' => CanBeWoken(h) BY <1>0, <2>6 DEF CanBeWoken, waits
  <2>8. \A h \in G \ {g} : CanBeWoken(h) => CanBeWoken(h)'
    BY <1>0, <1>a, <2>2 DEF CanBeWoken, Waking, waits, Alone
  <2>9. WakerKnows' BY <1>0, <2>2, <2>7, KnowsKept, GoodFacts DEF WakerKnows
  <2>10. \A n \in M : ~Parking(n, g)
    BY <1>3, GoodFacts DEF WakeOwed
  <2>11. WakeOwed'
    BY <1>0, <2>2, <2>3, <2>8, <2>10, OwedKept DEF Parking, Alone
  <2>12. PICK n \in M : reg[n]["park_g"] = g BY <1>2, <1>3 DEF Parked
  <2>13. pc[n] # "gone" BY <2>12, GoodFacts, Consts DEF FilledAt, EnqPCs
  <2>14. NoneGone BY <2>2, StillHere
  <2>15. HeldByThread(g)'
    BY <1>0, <2>12, <2>13, <2>14, RegNames DEF HeldByThread, NoneGone
  <2>16. \A h \in G : Somewhere(h) => Somewhere(h)'
    BY <1>0, <2>8, <2>14, <2>15, NobodyMoves DEF lists, Somewhere
  <2>. QED BY <2>5, <2>9, <2>11, <2>16 DEF Traced, LossInv
<1>4. CASE ~(seen[m] = 2 /\ parking[g] = 2)
  <2>0. parking[g] # 3 BY <1>2 DEF Parked
  <2>1. /\ UNCHANGED <<parking, tgt, ret>>
        /\ seen' = [seen EXCEPT ![m] = 0] /\ Goto(m, "store")
    BY <1>0, <1>a, <1>4, <2>0 DEF ReadyPend
  <2>2. Alone(m) /\ pc'[m] = "store"
    BY <2>1, Jumps, GoodFacts DEF Alone, BaseTypeOK
  <2>4. RegsAt(m)'
    BY <1>0, <2>1, <2>2, GoodFacts DEF RegsAt, CallPCs, ReadyPCs, UserPCs, EnqPCs
  <2>5. RegsInUse' BY <1>0, <2>2, <2>4, RegsKept
  <2>6. \A h : CanBeWoken(h)' <=> CanBeWoken(h)
    BY <1>0, <2>1, <2>2, SameRights DEF waits, ReadyPCs
  <2>7. WakerKnows'
    BY <1>0, <2>2, <2>6, KnowsKept, GoodFacts DEF WakerKnows
  <2>8. WakeOwed' BY <1>0, <2>1, <2>2, <2>6, OwedKept DEF Parking, Alone
  <2>9. NoneGone BY <2>2, StillHere
  <2>10. \A h \in G : Somewhere(h) => Somewhere(h)'
    BY <1>0, <2>6, <2>9, NobodyMoves DEF lists, Somewhere
  <2>. QED BY <2>5, <2>7, <2>8, <2>10 DEF Traced, LossInv
<1>. QED BY <1>3, <1>4

LEMMA TracedReadyParked == ASSUME Good, NEW m \in M, ReadyParked(m) PROVE Traced
<1>a. PICK g \in G : tgt[m] = g BY GoodFacts, Pointers DEF ReadyParked, At
<1>0. /\ pc[m] = "store" /\ Waking(m, g)
      /\ parking' = [parking EXCEPT ![g] = 0]
      /\ tgt' = [tgt EXCEPT ![m] = None]
      /\ UNCHANGED <<seen, lists, waits>>
  BY <1>a DEF ReadyParked, At, ReadyPCs, Waking
<1>1. CanBeWoken(g) /\ parking[g] = 0
  BY <1>0, <1>a, GoodFacts DEF CanBeWoken, SeenAt
<1>2. parking'[g] = 0 /\ \A h \in G \ {g} : parking'[h] = parking[h]
  BY <1>0, GoodFacts DEF BaseTypeOK
<1>3. \A n \in M \ {m} : tgt'[n] = tgt[n] /\ seen'[n] = seen[n]
  BY <1>0, GoodFacts DEF BaseTypeOK
<1>4. \A n \in M : reg[n]["park_g"] # g BY <1>1, GoodFacts DEF WakeOwed
<1>5. CASE status[g] = "waiting"
  <2>1. /\ status' = [status EXCEPT ![g] = "runnable"]
        /\ reg' = Put(m, "enq", g) /\ Goto(m, "enq") /\ UNCHANGED ret
    BY <1>a, <1>5 DEF ReadyParked
  <2>2. Alone(m) /\ pc'[m] = "enq" BY <1>3, <2>1, Jumps DEF Alone
  <2>3. \A h \in G : status'[h] = "dead" => status[h] = "dead"
    BY <2>1, GoodFacts DEF BaseTypeOK
  <2>4. /\ PutRegs(m, "enq", g) /\ \A n \in M \ {m} : reg'[n] = reg[n]
        /\ reg'[m]["curg"] = reg[m]["curg"] /\ reg'[m]["deadg"] = reg[m]["deadg"]
        /\ reg'[m]["enqg"] = reg[m]["enqg"] /\ reg'[m]["next"] = reg[m]["next"]
        /\ reg'[m]["start"] = reg[m]["start"]
        /\ reg'[m]["park_g"] = reg[m]["park_g"] /\ reg'[m]["enq"] = g
    BY <2>1, PutHere, RegNames
  <2>5. RegsAt(m)'
    BY <1>0, <2>1, <2>2, <2>4, GoodFacts
       DEF RegsAt, CallPCs, ReadyPCs, UserPCs, EnqPCs
  <2>6. RegsInUse' BY <2>2, <2>4, <2>5, RegsKept
  <2>7. \A h : CanBeWoken(h)' => CanBeWoken(h)
    BY <1>0, <2>2 DEF CanBeWoken, Waking, waits, Alone, ReadyPCs
  <2>8. \A h \in G \ {g} : CanBeWoken(h) => CanBeWoken(h)'
    BY <1>0, <1>a, <2>2 DEF CanBeWoken, Waking, waits, Alone
  <2>9. WakerKnows' BY <2>2, <2>3, <2>7, KnowsKept, GoodFacts DEF WakerKnows
  <2>10. WakeOwed'
    BY <1>2, <1>4, <2>2, <2>4, <2>8, OwedKept DEF Parking, Alone
  <2>11. NoneGone BY <2>2, StillHere
  <2>12. HeldByThread(g)' BY <2>2, <2>4, RegNames DEF HeldByThread
  <2>13. reg[m]["enq"] = None
    BY <1>0, GoodFacts DEF RegsAt, EnqPCs
  <2>14. \A h \in G : Somewhere(h) => Somewhere(h)'
    BY <1>0, <2>4, <2>8, <2>11, <2>12, <2>13, Overwritten, RegNames, Consts
       DEF lists, Somewhere
  <2>. QED BY <2>6, <2>9, <2>10, <2>14 DEF Traced, LossInv
<1>6. CASE status[g] # "waiting"
  <2>1. Return(m) /\ UNCHANGED <<status, reg>> BY <1>a, <1>6 DEF ReadyParked
  <2>2. /\ Alone(m) /\ pc'[m] = ret[m] /\ ret'[m] = "app"
        /\ ret[m] \in {"app", "take", "poll", "polled"}
    BY <1>3, <2>1, Returns DEF Alone
  <2>3. RegsAt(m)'
    BY <1>0, <2>1, <2>2, GoodFacts DEF RegsAt, CallPCs, ReadyPCs, UserPCs, EnqPCs
  <2>4. RegsInUse' BY <2>1, <2>2, <2>3, RegsKept
  <2>5. \A h : CanBeWoken(h)' => CanBeWoken(h)
    BY <1>0, <2>2 DEF CanBeWoken, Waking, waits, Alone, ReadyPCs
  <2>6. \A h \in G \ {g} : CanBeWoken(h) => CanBeWoken(h)'
    BY <1>0, <1>a, <2>2 DEF CanBeWoken, Waking, waits, Alone
  <2>7. WakerKnows' BY <2>1, <2>2, <2>5, KnowsKept, GoodFacts DEF WakerKnows
  <2>8. WakeOwed'
    BY <1>2, <1>4, <2>1, <2>2, <2>6, OwedKept DEF Parking, Alone
  <2>9. NoneGone BY <2>2, StillHere
  <2>10. \A h \in G \ {g} : Somewhere(h) => Somewhere(h)'
    BY <1>0, <2>1, <2>6, <2>9, NobodyMoves DEF lists, Somewhere
  <2>11. Dropped(g) BY <1>a, <1>6 DEF Dropped
  <2>. QED BY <2>4, <2>7, <2>8, <2>10, <2>11 DEF Traced, LossInv
<1>. QED BY <1>5, <1>6

-----------------------------------------------------------------------------
\* runtime_runq_enqueue

LEMMA TracedEnqueueFind == ASSUME Good, NEW m \in M, EnqueueFind(m) PROVE Traced
<1>0. /\ pc[m] = "enq" /\ UNCHANGED <<reg, tgt, seen, ret, gs, lists, waits>>
      /\ (Goto(m, "hand") \/ Goto(m, "push"))
  BY DEF EnqueueFind, At
<1>1. Alone(m) /\ pc'[m] \in {"hand", "push"} BY <1>0, Jumps DEF Alone
<1>2. RegsAt(m)'
  BY <1>0, <1>1, GoodFacts DEF RegsAt, CallPCs, ReadyPCs, UserPCs, EnqPCs
<1>3. LossInv' /\ \A h \in G : CanBeWoken(h)' <=> CanBeWoken(h)
  BY <1>0, <1>1, <1>2, CalmStep DEF waits, gs, ReadyPCs
<1>4. NoneGone BY <1>1, StillHere
<1>5. \A h \in G : Somewhere(h) => Somewhere(h)'
  BY <1>0, <1>3, <1>4, NobodyMoves DEF lists, Somewhere
<1>. QED BY <1>3, <1>5 DEF Traced

LEMMA TracedEnqueueHand == ASSUME Good, NEW m \in M, EnqueueHand(m) PROVE Traced
<1>a. PICK n \in M : cand[m] = n BY GoodFacts, Pointers DEF EnqueueHand, At
<1>0. pc[m] = "hand" /\ UNCHANGED <<tgt, seen, gs, lists, waits>>
  BY DEF EnqueueHand, At
<1>1. CASE reg[n]["nextg"] = None
  <2>1. reg' = Move(m, "enq", n, "nextg") /\ Return(m)
    BY <1>a, <1>1 DEF EnqueueHand
  <2>2. /\ Alone(m) /\ pc'[m] = ret[m] /\ ret'[m] = "app"
        /\ ret[m] \in {"app", "take", "poll", "polled"}
    BY <1>0, <2>1, Returns DEF Alone
  <2>3. HandRegs(m, "enq", n, "nextg")
    BY <2>1, HandShape, GoodFacts, RegNames
  <2>4. /\ reg'[m]["enq"] = None
        /\ \A p \in M : /\ reg'[p]["curg"] = reg[p]["curg"]
                        /\ reg'[p]["deadg"] = reg[p]["deadg"]
                        /\ reg'[p]["enqg"] = reg[p]["enqg"]
                        /\ reg'[p]["next"] = reg[p]["next"]
                        /\ reg'[p]["start"] = reg[p]["start"]
                        /\ reg'[p]["park_g"] = reg[p]["park_g"]
                        /\ p # m => reg'[p]["enq"] = reg[p]["enq"]
    BY <2>3, RegNames DEF HandRegs
  <2>5. ASSUME NEW p \in M \ {m} PROVE RegsAt(p)'
    BY <2>2, <2>4, <2>5, GoodFacts DEF RegsAt, Alone
  <2>6. RegsAt(m)'
    BY <1>0, <2>2, <2>4, GoodFacts DEF RegsAt, CallPCs, ReadyPCs, UserPCs, EnqPCs
  <2>7. RegsInUse' BY <2>5, <2>6 DEF RegsInUse
  <2>8. \A h : CanBeWoken(h)' <=> CanBeWoken(h)
    BY <1>0, <2>2, SameRights DEF waits, ReadyPCs
  <2>9. WakerKnows' BY <1>0, <2>2, <2>8, KnowsKept, GoodFacts DEF WakerKnows, gs
  <2>10. WakeOwed' BY <1>0, <2>2, <2>4, <2>8, OwedKept DEF Parking, Alone, gs
  <2>11. NoneGone BY <2>2, StillHere
  <2>12. CASE pc[n] # "gone"
    <3>1. pc'[n] # "gone" BY <2>11, <2>12 DEF NoneGone
    <3>2. \A h \in G : Somewhere(h) => Somewhere(h)'
      BY <1>0, <1>1, <2>3, <2>8, <2>11, <3>1, HandedOver, RegNames
         DEF lists, Somewhere
    <3>. QED BY <2>7, <2>9, <2>10, <3>2 DEF Traced, LossInv
  <2>13. CASE pc[n] = "gone"
    <3>1. \A p \in M, s \in Registers : reg[p][s] # None =>
            (p = m /\ s = "enq") \/ reg'[p][s] = reg[p][s]
      BY <1>1, <2>3 DEF HandRegs
    <3>2. ASSUME NEW h \in G, HeldByThread(h), h # reg[m]["enq"]
          PROVE  HeldByThread(h)'
      BY <2>11, <3>1, <3>2, Consts DEF HeldByThread, NoneGone
    <3>3. ASSUME NEW h \in G, Somewhere(h), h # reg[m]["enq"] PROVE Somewhere(h)'
      BY <1>0, <2>8, <3>2, <3>3 DEF Somewhere, Queued, lists
    <3>4. ASSUME NEW h \in G, h = reg[m]["enq"] PROVE Dropped(h)
      BY <1>a, <2>13, <3>4 DEF Dropped
    <3>. QED BY <2>7, <2>9, <2>10, <3>3, <3>4 DEF Traced, LossInv
  <2>. QED BY <2>12, <2>13
<1>2. CASE reg[n]["nextg"] # None
  <2>1. Goto(m, "push") /\ UNCHANGED <<reg, ret>> BY <1>a, <1>2 DEF EnqueueHand
  <2>2. Alone(m) /\ pc'[m] = "push" BY <1>0, <2>1, Jumps DEF Alone
  <2>3. RegsAt(m)'
    BY <1>0, <2>1, <2>2, GoodFacts DEF RegsAt, CallPCs, ReadyPCs, UserPCs, EnqPCs
  <2>4. LossInv' /\ \A h \in G : CanBeWoken(h)' <=> CanBeWoken(h)
    BY <1>0, <2>1, <2>2, <2>3, CalmStep DEF waits, gs, ReadyPCs
  <2>5. NoneGone BY <2>2, StillHere
  <2>6. \A h \in G : Somewhere(h) => Somewhere(h)'
    BY <1>0, <2>1, <2>4, <2>5, NobodyMoves DEF lists, Somewhere
  <2>. QED BY <2>4, <2>6 DEF Traced
<1>. QED BY <1>1, <1>2

LEMMA TracedEnqueuePush == ASSUME Good, NEW m \in M, EnqueuePush(m) PROVE Traced
<1>a. PICK g \in G : reg[m]["enq"] = g BY GoodFacts, Pointers DEF EnqueuePush, At
<1>0. /\ pc[m] = "push" /\ runq' = PutAtTail(runq, g)
      /\ reg' = Put(m, "enq", None) /\ Return(m)
      /\ UNCHANGED <<tgt, seen, gs, waits>>
  BY <1>a DEF EnqueuePush, At
<1>1. /\ Alone(m) /\ pc'[m] = ret[m] /\ ret'[m] = "app"
      /\ ret[m] \in {"app", "take", "poll", "polled"}
  BY <1>0, Returns DEF Alone
<1>2. /\ PutRegs(m, "enq", None) /\ \A n \in M \ {m} : reg'[n] = reg[n]
      /\ reg'[m]["curg"] = reg[m]["curg"] /\ reg'[m]["deadg"] = reg[m]["deadg"]
      /\ reg'[m]["enqg"] = reg[m]["enqg"] /\ reg'[m]["next"] = reg[m]["next"]
      /\ reg'[m]["start"] = reg[m]["start"]
      /\ reg'[m]["park_g"] = reg[m]["park_g"] /\ reg'[m]["enq"] = None
  BY <1>0, PutHere, RegNames
<1>3. RegsAt(m)'
  BY <1>0, <1>1, <1>2, GoodFacts DEF RegsAt, CallPCs, ReadyPCs, UserPCs, EnqPCs
<1>4. LossInv' /\ \A h \in G : CanBeWoken(h)' <=> CanBeWoken(h)
  BY <1>0, <1>1, <1>2, <1>3, CalmStep DEF waits, gs, ReadyPCs
<1>5. NoneGone BY <1>1, StillHere
<1>6. /\ runq \in Seq(G) /\ \A j, k \in DOMAIN runq : runq[j] = runq[k] => j = k
      /\ \A j \in DOMAIN runq : runq[j] # g
  BY <1>a, GoodFacts, RegNames, Consts
     DEF BaseTypeOK, SingleOwner, QueuedOnce, HeldNotQueued, Queued
<1>7. \A h \in G : Queued(h)' <=> Queued(h) \/ h = g
  <2>1. \A h : (\E j \in DOMAIN PutAtTail(runq, g) : PutAtTail(runq, g)[j] = h)
              <=> (\E j \in DOMAIN runq : runq[j] = h) \/ h = g
    BY <1>6, PutQueued
  <2>. QED BY <1>0, <2>1 DEF Queued
<1>8. ASSUME NEW h \in G, HeldByThread(h), h # g PROVE HeldByThread(h)'
  <2>1. PICK p \in M, s \in Registers : pc[p] # "gone" /\ reg[p][s] = h
    BY <1>8 DEF HeldByThread
  <2>2. reg'[p][s] = h BY <1>a, <1>2, <1>8, <2>1 DEF PutRegs
  <2>. QED BY <1>5, <2>1, <2>2 DEF HeldByThread, NoneGone
<1>9. \A h \in G : Somewhere(h) => Somewhere(h)'
  BY <1>4, <1>7, <1>8 DEF Somewhere
<1>. QED BY <1>4, <1>9 DEF Traced

-----------------------------------------------------------------------------
\* runtime_schedule

\* A step of one thread that moves nothing, wakes nobody and puts nobody to sleep.
LEMMA TracedGoes ==
    ASSUME Good, NEW m \in M, Alone(m), RegsAt(m)',
           UNCHANGED <<reg, runq, parking, waitq, sleepers>>,
           pc[m] \notin ReadyPCs, pc'[m] \notin ReadyPCs \cup {"park", "gone"},
           \A g \in G : status'[g] = "dead" => status[g] = "dead"
    PROVE  Traced
<1>1. LossInv' /\ \A h \in G : CanBeWoken(h)' <=> CanBeWoken(h)
  BY CalmStep
<1>2. NoneGone BY StillHere
<1>3. \A h \in G : Somewhere(h) => Somewhere(h)'
  BY <1>1, <1>2, NobodyMoves DEF Somewhere
<1>. QED BY <1>1, <1>3 DEF Traced

\* A step of one thread that moves a goroutine to a free register.
LEMMA TracedShift ==
    ASSUME Good, NEW m \in M, Alone(m), RegsAt(m)',
           NEW a \in Registers \ {"park_g"}, NEW b \in Registers \ {"park_g"},
           a # b, reg' = Move(m, a, m, b), reg[m][b] = None,
           UNCHANGED <<runq, parking, waitq, sleepers>>,
           pc[m] \notin ReadyPCs, pc'[m] \notin ReadyPCs \cup {"park", "gone"},
           \A g \in G : status'[g] = "dead" => status[g] = "dead" \/ ~CanBeWoken(g)
    PROVE  Traced
<1>1. /\ HandRegs(m, a, m, b) /\ reg'[m]["park_g"] = reg[m]["park_g"]
      /\ \A n \in M \ {m} : reg'[n] = reg[n]
  BY ShiftHere
<1>2. LossInv' /\ \A h \in G : CanBeWoken(h)' <=> CanBeWoken(h)
  BY <1>1, CalmStep
<1>3. NoneGone BY StillHere
<1>4. \A h \in G : Somewhere(h) => Somewhere(h)'
  BY <1>1, <1>2, <1>3, HandedOver DEF Somewhere
<1>. QED BY <1>2, <1>4 DEF Traced

\* A step of one thread that fills or clears a register, and what is lost by it.
LEMMA TracedPut ==
    ASSUME Good, NEW m \in M, Alone(m), RegsAt(m)',
           NEW r \in Registers \ {"park_g"}, NEW g \in G \cup {None},
           reg' = Put(m, r, g),
           UNCHANGED <<runq, parking, waitq, sleepers>>,
           pc[m] \notin ReadyPCs, pc'[m] \notin ReadyPCs \cup {"park", "gone"},
           \A h \in G : status'[h] = "dead" => status[h] = "dead",
           \A h \in G : reg[m][r] = h => Ends(h) \/ Dropped(h)
    PROVE  Traced
<1>1. /\ PutRegs(m, r, g) /\ reg'[m]["park_g"] = reg[m]["park_g"]
      /\ \A n \in M \ {m} : reg'[n] = reg[n]
  BY PutHere
<1>2. LossInv' /\ \A h \in G : CanBeWoken(h)' <=> CanBeWoken(h)
  BY <1>1, CalmStep
<1>3. NoneGone BY StillHere
<1>4. \A h \in G : reg[m][r] # h => (Somewhere(h) => Somewhere(h)')
  BY <1>1, <1>2, <1>3, Overwritten DEF Somewhere
<1>. QED BY <1>2, <1>4 DEF Traced

LEMMA TracedSchedReap == ASSUME Good, NEW m \in M, SchedReap(m) PROVE Traced
<1>0. /\ pc[m] = "sched" /\ reg' = Put(m, "deadg", None)
      /\ UNCHANGED <<pc, frames, gs, runq, waits>>
  BY DEF SchedReap, At
<1>1. Alone(m) /\ pc'[m] = pc[m] BY <1>0 DEF Alone, frames
<1>2. RegsAt(m)'
  BY <1>0, <1>1, GoodFacts, PutHere, RegNames
     DEF RegsAt, CallPCs, ReadyPCs, UserPCs, EnqPCs
<1>3. \A h \in G : reg[m]["deadg"] = h => Ends(h) BY DEF Ends
<1>. QED BY <1>0, <1>1, <1>2, <1>3, TracedPut, RegNames DEF gs, waits, ReadyPCs

LEMMA TracedSchedRequeue == ASSUME Good, NEW m \in M, SchedRequeue(m) PROVE Traced
<1>0. /\ pc[m] = "sched" /\ reg[m]["deadg"] = None
      /\ UNCHANGED <<tgt, seen, gs, lists, waits>>
  BY DEF SchedRequeue, At
<1>1. CASE reg[m]["enqg"] # None
  <2>1. CallEnqueue(m, "enqg", "take") /\ reg' = Move(m, "enqg", m, "enq")
    BY <1>1 DEF SchedRequeue, CallEnqueue
  <2>2. Alone(m) /\ pc'[m] = "enq" /\ ret'[m] = "take"
    BY <1>0, <2>1, Jumps DEF Alone
  <2>3. RegsAt(m)'
    BY <1>0, <2>1, <2>2, GoodFacts, ShiftHere, RegNames
       DEF RegsAt, CallPCs, ReadyPCs, UserPCs, EnqPCs
  <2>4. reg[m]["enq"] = None BY <1>0, GoodFacts DEF RegsAt, EnqPCs
  <2>. QED BY <1>0, <2>1, <2>2, <2>3, <2>4, TracedShift, RegNames
           DEF gs, lists, waits, ReadyPCs
<1>2. CASE reg[m]["enqg"] = None
  <2>1. Goto(m, "take") /\ UNCHANGED <<reg, ret>> BY <1>2 DEF SchedRequeue
  <2>2. Alone(m) /\ pc'[m] = "take" BY <1>0, <2>1, Jumps DEF Alone
  <2>3. RegsAt(m)'
    BY <1>0, <1>2, <2>1, <2>2, GoodFacts
       DEF RegsAt, CallPCs, ReadyPCs, UserPCs, EnqPCs
  <2>. QED BY <1>0, <2>1, <2>2, <2>3, TracedGoes DEF gs, lists, waits, ReadyPCs
<1>. QED BY <1>1, <1>2

LEMMA TracedSchedTake == ASSUME Good, NEW m \in M, SchedTake(m) PROVE Traced
<1>0. /\ pc[m] = "take" /\ reg' = Move(m, "nextg", m, "next")
      /\ Goto(m, IF reg[m]["park_g"] = None THEN "poll" ELSE "commit")
      /\ UNCHANGED <<frames, gs, lists, waits>>
  BY DEF SchedTake, At
<1>1. Alone(m) /\ pc'[m] \in {"poll", "commit"} BY <1>0, Jumps DEF Alone, frames
<1>2. RegsAt(m)'
  BY <1>0, <1>1, GoodFacts, ShiftHere, RegNames
     DEF RegsAt, CallPCs, ReadyPCs, UserPCs, EnqPCs
<1>3. reg[m]["next"] = None
  BY <1>0, GoodFacts DEF RegsAt, CallPCs, ReadyPCs, EnqPCs
<1>. QED BY <1>0, <1>1, <1>2, <1>3, TracedShift, RegNames
         DEF gs, lists, waits, ReadyPCs

LEMMA TracedSchedCommit == ASSUME Good, NEW m \in M, SchedCommit(m) PROVE Traced
<1>a. PICK g \in G : reg[m]["park_g"] = g BY GoodFacts, Pointers DEF SchedCommit, At
<1>0. /\ pc[m] = "commit" /\ parking' = [parking EXCEPT ![g] = 0]
      /\ UNCHANGED <<frames, status, lockedm, lists, waits>>
  BY <1>a DEF SchedCommit, At
<1>1. parking'[g] = 0 /\ \A h \in G \ {g} : parking'[h] = parking[h]
  BY <1>0, GoodFacts DEF BaseTypeOK
<1>2. parking[g] = 3 \/ CanBeWoken(g) BY <1>a, GoodFacts DEF WakeOwed
<1>3. \A n \in M \ {m} : reg[n]["park_g"] # g
  BY <1>a, GoodFacts, RegNames, Consts DEF OneRegister
<1>4. CASE parking[g] = 3
  <2>1. reg' = Move(m, "park_g", m, "enq") /\ Goto(m, "wake3")
    BY <1>a, <1>4 DEF SchedCommit
  <2>2. Alone(m) /\ pc'[m] = "wake3" BY <1>0, <2>1, Jumps DEF Alone, frames
  <2>3. /\ HandRegs(m, "park_g", m, "enq") /\ \A n \in M \ {m} : reg'[n] = reg[n]
        /\ reg'[m]["park_g"] = None
    BY <2>1, ShiftHere, RegNames
  <2>4. RegsAt(m)'
    BY <1>0, <2>1, <2>2, GoodFacts, ShiftHere, RegNames
       DEF RegsAt, CallPCs, ReadyPCs, UserPCs, EnqPCs
  <2>5. RegsInUse' BY <2>2, <2>3, <2>4, RegsKept
  <2>6. \A h : CanBeWoken(h)' <=> CanBeWoken(h)
    BY <1>0, <2>2, SameRights DEF waits, ReadyPCs
  <2>7. WakerKnows' BY <1>0, <2>2, <2>6, KnowsKept, GoodFacts DEF WakerKnows
  <2>8. WakeOwed'
    BY <1>1, <1>3, <2>2, <2>3, <2>6, OwedKept, Consts DEF Parking, Alone
  <2>9. NoneGone BY <2>2, StillHere
  <2>10. reg[m]["enq"] = None BY <1>0, GoodFacts DEF RegsAt, EnqPCs
  <2>11. \A h \in G : Somewhere(h) => Somewhere(h)'
    BY <1>0, <2>2, <2>3, <2>6, <2>9, <2>10, HandedOver, RegNames
       DEF lists, Somewhere
  <2>. QED BY <2>5, <2>7, <2>8, <2>11 DEF Traced, LossInv
<1>5. CASE parking[g] # 3
  <2>1. reg' = Put(m, "park_g", None) /\ Goto(m, "poll")
    BY <1>a, <1>5 DEF SchedCommit
  <2>2. Alone(m) /\ pc'[m] = "poll" BY <1>0, <2>1, Jumps DEF Alone, frames
  <2>3. /\ PutRegs(m, "park_g", None) /\ \A n \in M \ {m} : reg'[n] = reg[n]
        /\ reg'[m]["park_g"] = None
    BY <2>1, PutHere, RegNames
  <2>4. RegsAt(m)'
    BY <1>0, <2>1, <2>2, GoodFacts, PutHere, RegNames
       DEF RegsAt, CallPCs, ReadyPCs, UserPCs, EnqPCs
  <2>5. RegsInUse' BY <2>2, <2>3, <2>4, RegsKept
  <2>6. \A h : CanBeWoken(h)' <=> CanBeWoken(h)
    BY <1>0, <2>2, SameRights DEF waits, ReadyPCs
  <2>7. WakerKnows' BY <1>0, <2>2, <2>6, KnowsKept, GoodFacts DEF WakerKnows
  <2>8. WakeOwed'
    BY <1>1, <1>3, <2>2, <2>3, <2>6, OwedKept, Consts DEF Parking, Alone
  <2>9. NoneGone BY <2>2, StillHere
  <2>10. Somewhere(g)' BY <1>2, <1>5, <2>6 DEF Somewhere
  <2>11. \A h \in G : Somewhere(h) => Somewhere(h)'
    BY <1>0, <1>a, <2>3, <2>6, <2>9, <2>10, Overwritten, RegNames
       DEF lists, Somewhere
  <2>. QED BY <2>5, <2>7, <2>8, <2>11 DEF Traced, LossInv
<1>. QED BY <1>4, <1>5

LEMMA TracedSchedWake == ASSUME Good, NEW m \in M, SchedWake(m) PROVE Traced
<1>a. PICK g \in G : reg[m]["enq"] = g BY GoodFacts, Pointers DEF SchedWake, At
<1>0. /\ pc[m] = "wake3" /\ UNCHANGED <<tgt, seen, parking, lockedm, lists, waits>>
  BY DEF SchedWake, At
<1>1. CASE status[g] = "waiting"
  <2>1. /\ status' = [status EXCEPT ![g] = "runnable"]
        /\ CallEnqueue(m, "enq", "poll") /\ UNCHANGED reg
    BY <1>a, <1>1 DEF SchedWake, CallEnqueue
  <2>2. Alone(m) /\ pc'[m] = "enq" /\ ret'[m] = "poll"
    BY <1>0, <2>1, Jumps DEF Alone
  <2>3. \A h \in G : status'[h] = "dead" => status[h] = "dead"
    BY <2>1, GoodFacts DEF BaseTypeOK
  <2>4. RegsAt(m)'
    BY <1>0, <2>1, <2>2, GoodFacts DEF RegsAt, CallPCs, ReadyPCs, UserPCs, EnqPCs
  <2>. QED BY <1>0, <2>1, <2>2, <2>3, <2>4, TracedGoes DEF lists, waits, ReadyPCs
<1>2. CASE status[g] # "waiting"
  <2>1. Goto(m, "poll") /\ reg' = Put(m, "enq", None) /\ UNCHANGED <<status, ret>>
    BY <1>a, <1>2 DEF SchedWake
  <2>2. Alone(m) /\ pc'[m] = "poll" BY <1>0, <2>1, Jumps DEF Alone
  <2>3. RegsAt(m)'
    BY <1>0, <2>1, <2>2, GoodFacts, PutHere, RegNames
       DEF RegsAt, CallPCs, ReadyPCs, UserPCs, EnqPCs
  <2>4. \A h \in G : reg[m]["enq"] = h => Dropped(h) BY <1>a, <1>2 DEF Dropped
  <2>. QED BY <1>0, <2>1, <2>2, <2>3, <2>4, TracedPut, RegNames
           DEF lists, waits, ReadyPCs
<1>. QED BY <1>1, <1>2

\* A goroutine that was waiting is about to be readied by m.
LEMMA TracedCall ==
    ASSUME Good, NEW m \in M, NEW g \in G, NEW p, CallReady(m, g, p),
           p \in {"app", "polled"}, pc[m] = IF p = "app" THEN "app" ELSE "poll",
           g \in waitq \cup sleepers, UNCHANGED <<reg, seen, gs, lists>>,
           waitq' = waitq \ {g}, sleepers' = sleepers \ {g}
    PROVE  Traced
<1>1. /\ Alone(m) /\ pc'[m] = "ready" /\ ret'[m] = p /\ tgt'[m] = g
  BY Jumps DEF Alone
<1>2. RegsAt(m)'
  BY <1>1, GoodFacts DEF RegsAt, CallPCs, ReadyPCs, UserPCs, EnqPCs
<1>3. RegsInUse' BY <1>1, <1>2, RegsKept
<1>4. CanBeWoken(g) /\ CanBeWoken(g)'
  BY <1>1 DEF CanBeWoken, Waking, ReadyPCs
<1>5. \A h : CanBeWoken(h)' <=> CanBeWoken(h)
  <2>1. \A n \in M : \A h : Waking(n, h)' <=> Waking(n, h) \/ (n = m /\ h = g)
    BY <1>1 DEF Waking, Alone, ReadyPCs
  <2>. QED BY <1>4, <2>1 DEF CanBeWoken
<1>6. WakerKnows' BY <1>1, <1>5, KnowsKept, GoodFacts DEF WakerKnows, gs
<1>7. WakeOwed' BY <1>1, <1>5, OwedKept DEF Parking, Alone, gs
<1>8. NoneGone BY <1>1, StillHere
<1>9. \A h \in G : Somewhere(h) => Somewhere(h)'
  BY <1>5, <1>8, NobodyMoves DEF lists, Somewhere
<1>. QED BY <1>3, <1>6, <1>7, <1>9 DEF Traced, LossInv

LEMMA TracedPollDue ==
    ASSUME Good, NEW m \in M, NEW g \in G, PollDue(m, g) PROVE Traced
<1>1. g \notin waitq BY GoodFacts DEF OneWaker, PollDue
<1>. QED BY <1>1, TracedCall DEF PollDue, At

LEMMA TracedPollDrop == ASSUME Good, NEW m \in M, PollDrop(m) PROVE Traced
<1>0. /\ pc[m] = "polled" /\ Goto(m, "poll")
      /\ UNCHANGED <<reg, frames, gs, lists, waitq, sleepers>>
  BY DEF PollDrop, At
<1>1. Alone(m) /\ pc'[m] = "poll" BY <1>0, Jumps DEF Alone, frames
<1>2. RegsAt(m)'
  BY <1>0, <1>1, GoodFacts DEF RegsAt, CallPCs, ReadyPCs, UserPCs, EnqPCs
<1>. QED BY <1>0, <1>1, <1>2, TracedGoes DEF gs, lists, ReadyPCs

LEMMA TracedPollDone == ASSUME Good, NEW m \in M, PollDone(m) PROVE Traced
<1>0. /\ pc[m] = "poll" /\ Goto(m, IF reg[m]["next"] # None THEN "run" ELSE "deq")
      /\ UNCHANGED <<reg, frames, gs, lists, waits>>
  BY DEF PollDone, At
<1>1. /\ Alone(m) /\ pc'[m] = IF reg[m]["next"] # None THEN "run" ELSE "deq"
  BY <1>0, Jumps DEF Alone, frames
<1>2. RegsAt(m)'
  BY <1>0, <1>1, GoodFacts DEF RegsAt, CallPCs, ReadyPCs, UserPCs, EnqPCs
<1>. QED BY <1>0, <1>1, <1>2, TracedGoes DEF gs, lists, waits, ReadyPCs

LEMMA TracedSchedRun == ASSUME Good, NEW m \in M, SchedRun(m) PROVE Traced
<1>0. /\ pc[m] = "run" /\ reg' = Move(m, "next", m, "curg") /\ Goto(m, "app")
      /\ status' = [status EXCEPT ![reg[m]["next"]] = "running"]
      /\ UNCHANGED <<frames, parking, lists, waits>>
  BY DEF SchedRun, At
<1>1. Alone(m) /\ pc'[m] = "app" BY <1>0, Jumps DEF Alone, frames
<1>2. RegsAt(m)'
  BY <1>0, <1>1, GoodFacts, ShiftHere, RegNames
     DEF RegsAt, CallPCs, ReadyPCs, UserPCs, EnqPCs
<1>3. reg[m]["curg"] = None
  BY <1>0, GoodFacts DEF RegsAt, CallPCs, UserPCs, ReadyPCs, EnqPCs
<1>4. \A h \in G : status'[h] = "dead" => status[h] = "dead"
  BY <1>0, GoodFacts DEF BaseTypeOK
<1>. QED BY <1>0, <1>1, <1>2, <1>3, <1>4, TracedShift, RegNames
         DEF lists, waits, ReadyPCs

\* The memory of a dead goroutine is reused: nobody held it or could wake it.
LEMMA TracedFreeDead == ASSUME Good, NEW m \in M, FreeDead(m) PROVE Traced
<1>1. PICK g \in deadq : /\ status' = [status EXCEPT ![g] = "free"]
                         /\ parking' = [parking EXCEPT ![g] = 0]
  BY DEF FreeDead
<1>2. /\ pc[m] = "deq" /\ UNCHANGED <<pc, reg, frames, runq, waits>>
  BY DEF FreeDead, At, threads
<1>3. g \in G BY GoodFacts DEF BaseTypeOK
<1>4. Loose(g) BY <1>3, GoodFacts, FreshG
<1>5. \A n \in M : reg[n]["park_g"] # g BY <1>4, RegNames DEF Loose, Held
<1>6. /\ parking'[g] = 0 /\ \A h \in G \ {g} : parking'[h] = parking[h]
      /\ \A h \in G : status'[h] = "dead" => status[h] = "dead"
  BY <1>1, <1>3, GoodFacts DEF BaseTypeOK
<1>7. Alone(m) /\ pc'[m] = "deq" BY <1>2 DEF Alone, frames
<1>8. \A h : CanBeWoken(h)' <=> CanBeWoken(h)
  BY <1>2, <1>7, SameRights DEF waits, ReadyPCs
<1>9. RegsInUse' BY <1>2, GoodFacts DEF RegsInUse, RegsAt, frames
<1>10. WakerKnows' BY <1>6, <1>7, <1>8, KnowsKept, GoodFacts DEF WakerKnows
<1>11. WakeOwed' BY <1>2, <1>5, <1>6, <1>8, OwedKept DEF Parking
<1>12. NoneGone BY <1>7, StillHere
<1>13. \A h \in G : Somewhere(h) => Somewhere(h)'
  BY <1>2, <1>8, <1>12, NobodyMoves DEF Somewhere
<1>. QED BY <1>9, <1>10, <1>11, <1>13 DEF Traced, LossInv

LEMMA TracedDequeue == ASSUME Good, NEW m \in M, Dequeue(m) PROVE Traced
<1>1. PICK i \in DOMAIN runq : /\ reg' = Put(m, "next", runq[i])
                               /\ runq' = Unlink(runq, i)
  BY DEF Dequeue, Eligible
<1>2. /\ pc[m] = "deq" /\ Goto(m, "run") /\ UNCHANGED <<frames, gs, waits>>
  BY DEF Dequeue, At
<1>3. PICK g \in G : g = runq[i] BY GoodFacts, ElementOfSeq DEF BaseTypeOK
<1>4. /\ Alone(m) /\ pc'[m] = "run" BY <1>2, Jumps DEF Alone, frames
<1>5. reg[m]["next"] = None
  BY <1>2, GoodFacts DEF RegsAt, CallPCs, ReadyPCs, EnqPCs
<1>6. reg' = Put(m, "next", g) BY <1>1, <1>3
<1>7. /\ PutRegs(m, "next", g) /\ \A n \in M \ {m} : reg'[n] = reg[n]
      /\ reg'[m]["curg"] = reg[m]["curg"] /\ reg'[m]["deadg"] = reg[m]["deadg"]
      /\ reg'[m]["enqg"] = reg[m]["enqg"] /\ reg'[m]["enq"] = reg[m]["enq"]
      /\ reg'[m]["start"] = reg[m]["start"]
      /\ reg'[m]["park_g"] = reg[m]["park_g"] /\ reg'[m]["next"] = g
  BY <1>6, PutHere, RegNames
<1>8. RegsAt(m)'
  BY <1>2, <1>4, <1>7, GoodFacts DEF RegsAt, CallPCs, ReadyPCs, UserPCs, EnqPCs
<1>9. LossInv' /\ \A h \in G : CanBeWoken(h)' <=> CanBeWoken(h)
  BY <1>2, <1>4, <1>7, <1>8, CalmStep DEF waits, gs, ReadyPCs
<1>10. NoneGone BY <1>4, StillHere
<1>11. \A h \in G : Queued(h)' <=> Queued(h) /\ h # g
  <2>1. runq \in Seq(G) /\ \A j, k \in DOMAIN runq : runq[j] = runq[k] => j = k
    BY GoodFacts DEF BaseTypeOK, SingleOwner, QueuedOnce
  <2>2. \A h : (\E j \in DOMAIN Unlink(runq, i) : Unlink(runq, i)[j] = h)
              <=> (\E j \in DOMAIN runq : runq[j] = h) /\ h # runq[i]
    BY <2>1, UnlinkQueued
  <2>. QED BY <1>1, <1>3, <2>2 DEF Queued
<1>12. HeldByThread(g)' BY <1>4, <1>7, RegNames DEF HeldByThread
<1>13. ASSUME NEW h \in G, HeldByThread(h) PROVE HeldByThread(h)'
  <2>1. PICK p \in M, s \in Registers : pc[p] # "gone" /\ reg[p][s] = h
    BY <1>13 DEF HeldByThread
  <2>2. reg'[p][s] = h BY <1>5, <1>7, <2>1, Consts DEF PutRegs
  <2>. QED BY <1>10, <2>1, <2>2 DEF HeldByThread, NoneGone
<1>14. \A h \in G : Somewhere(h) => Somewhere(h)'
  BY <1>9, <1>11, <1>12, <1>13 DEF Somewhere
<1>. QED BY <1>9, <1>14 DEF Traced

LEMMA TracedDequeueNone == ASSUME Good, NEW m \in M, DequeueNone(m) PROVE Traced
<1>0. /\ pc[m] = "deq" /\ Goto(m, IF m = M0 THEN "scan" ELSE "sched")
      /\ UNCHANGED <<reg, frames, gs, lists, waits>>
  BY DEF DequeueNone, At
<1>1. Alone(m) /\ pc'[m] \in {"scan", "sched"} BY <1>0, Jumps DEF Alone, frames
<1>2. RegsAt(m)'
  BY <1>0, <1>1, GoodFacts DEF RegsAt, CallPCs, ReadyPCs, UserPCs, EnqPCs
<1>. QED BY <1>0, <1>1, <1>2, TracedGoes DEF gs, lists, waits, ReadyPCs

LEMMA TracedScan ==
    ASSUME Good, ScanBegin \/ ScanRead \/ ScanEnd PROVE Traced
<1>0. M0 \in M BY Consts
<1>1. /\ pc[M0] \in {"scan", "read"} /\ UNCHANGED <<reg, frames, gs, lists, waits>>
      /\ Goto(M0, "read") \/ Goto(M0, "sched") \/ UNCHANGED pc
  BY DEF ScanBegin, ScanRead, ScanEnd, At, threads
<1>2. Alone(M0) /\ pc'[M0] \in {"scan", "read", "sched"}
  BY <1>0, <1>1, Jumps DEF Alone, frames
<1>3. RegsAt(M0)'
  BY <1>0, <1>1, <1>2, GoodFacts DEF RegsAt, CallPCs, ReadyPCs, UserPCs, EnqPCs
<1>. QED BY <1>0, <1>1, <1>2, <1>3, TracedGoes DEF gs, lists, waits, ReadyPCs

-----------------------------------------------------------------------------
\* What a goroutine does

\* The registers that are free while a goroutine runs.
LEMMA FreeAtApp ==
    ASSUME Good, NEW m \in M, pc[m] = "app"
    PROVE  /\ reg[m]["enq"] = None /\ reg[m]["enqg"] = None
           /\ reg[m]["deadg"] = None /\ reg[m]["next"] = None
           /\ reg[m]["start"] = None /\ reg[m]["park_g"] = None
           /\ ret[m] = "app" /\ reg[m]["curg"] \in G
           /\ ~CanBeWoken(reg[m]["curg"])
<1>1. reg[m]["curg"] \in G BY GoodFacts, Pointers
<1>2. ~CanBeWoken(reg[m]["curg"]) BY <1>1, GoodFacts, HeldNotWoken, RegNames
<1>3. RegsAt(m) /\ FilledAt(m) /\ (ret[m] # "app" => pc[m] \in CallPCs)
  BY GoodFacts
<1>. QED BY <1>1, <1>2, <1>3 DEF RegsAt, FilledAt, CallPCs, ReadyPCs, EnqPCs

LEMMA TracedNew ==
    ASSUME Good, NEW m \in M, NEW g \in G, Go(m, g) \/ StartLocked(m, g)
    PROVE  Traced
<1>0. /\ pc[m] = "app" /\ (Goto(m, "enq") \/ Goto(m, "spawn"))
      /\ status' = [status EXCEPT ![g] = "runnable"] /\ reg' = Put(m, "enq", g)
      /\ UNCHANGED <<frames, parking, runq, waits>>
  BY DEF Go, StartLocked, NewG, At
<1>1. Alone(m) /\ pc'[m] \in {"enq", "spawn"} BY <1>0, Jumps DEF Alone, frames
<1>2. RegsAt(m)'
  BY <1>0, <1>1, FreeAtApp, PutHere, RegNames
     DEF RegsAt, CallPCs, ReadyPCs, UserPCs, EnqPCs, frames
<1>3. \A h \in G : status'[h] = "dead" => status[h] = "dead"
  BY <1>0, GoodFacts DEF BaseTypeOK
<1>4. \A h \in G : reg[m]["enq"] # h BY <1>0, FreeAtApp, Consts
<1>. QED BY <1>0, <1>1, <1>2, <1>3, <1>4, TracedPut, RegNames
         DEF waits, ReadyPCs

\* A goroutine that was created goes from its creator to a thread of its own.
LEMMA TracedSpawnThread ==
    ASSUME Good, NEW m \in M, NEW n \in M, SpawnThread(m, n) PROVE Traced
<1>0. /\ pc[m] = "spawn" /\ pc[n] = "none" /\ n # m
      /\ pc' = [[pc EXCEPT ![m] = "app"] EXCEPT ![n] = "mstart"]
      /\ reg' = Move(m, "enq", n, "start")
      /\ UNCHANGED <<frames, status, parking, lists, waits>>
  BY DEF SpawnThread, At
<1>1. /\ pc'[m] = "app" /\ pc'[n] = "mstart"
      /\ \A p \in M : p # m /\ p # n => pc'[p] = pc[p]
  BY <1>0, GoodFacts DEF BaseTypeOK
<1>2. HandRegs(m, "enq", n, "start") BY <1>0, GoodFacts, HandShape, RegNames
<1>3. /\ reg'[m]["enq"] = None
      /\ \A p \in M, s \in Registers :
           (p # m \/ s # "enq") /\ (p # n \/ s # "start") => reg'[p][s] = reg[p][s]
  BY <1>2 DEF HandRegs
<1>4. /\ reg'[m]["curg"] = reg[m]["curg"] /\ reg'[m]["nextg"] = reg[m]["nextg"]
      /\ reg'[m]["deadg"] = reg[m]["deadg"] /\ reg'[m]["enqg"] = reg[m]["enqg"]
      /\ reg'[m]["next"] = reg[m]["next"] /\ reg'[m]["start"] = reg[m]["start"]
      /\ reg'[n]["curg"] = reg[n]["curg"] /\ reg'[n]["nextg"] = reg[n]["nextg"]
      /\ reg'[n]["deadg"] = reg[n]["deadg"] /\ reg'[n]["enqg"] = reg[n]["enqg"]
      /\ reg'[n]["next"] = reg[n]["next"] /\ reg'[n]["enq"] = reg[n]["enq"]
      /\ \A p \in M : reg'[p]["park_g"] = reg[p]["park_g"]
  BY <1>0, <1>3, RegNames
<1>5. reg[n]["start"] = None BY <1>0, GoodFacts DEF RegsAt
<1>6. RegsInUse'
  <2>1. RegsAt(m)'
    BY <1>0, <1>1, <1>3, <1>4, GoodFacts
       DEF RegsAt, CallPCs, ReadyPCs, UserPCs, EnqPCs
  <2>2. RegsAt(n)'
    BY <1>0, <1>1, <1>4, GoodFacts
       DEF RegsAt, CallPCs, ReadyPCs, UserPCs, EnqPCs
  <2>3. ASSUME NEW p \in M, p # m, p # n PROVE RegsAt(p)'
    <3>1. reg'[p] = reg[p] BY <1>2, <2>3 DEF HandRegs
    <3>. QED BY <1>0, <1>1, <2>3, <3>1, GoodFacts DEF RegsAt, frames
  <2>. QED BY <2>1, <2>2, <2>3 DEF RegsInUse
<1>7. \A p \in M : \A h : Waking(p, h)' <=> Waking(p, h)
  BY <1>0, <1>1 DEF Waking, ReadyPCs, frames
<1>8. \A h : CanBeWoken(h)' <=> CanBeWoken(h)
  BY <1>0, <1>7 DEF CanBeWoken, waits
<1>9. WakerKnows'
  <2>1. \A p \in M : pc'[p] = "cas2" => seen'[p] \in {0, 2}
    BY <1>0, <1>1, GoodFacts DEF WakerKnows, frames
  <2>2. \A h \in G : CanBeWoken(h)' => status'[h] # "dead"
    BY <1>0, <1>8, GoodFacts DEF WakerKnows
  <2>. QED BY <2>1, <2>2 DEF WakerKnows
<1>10. WakeOwed'
  <2>1. \A p \in M, h \in G : Parking(p, h)' => Parking(p, h)
    BY <1>1, <1>3, RegNames DEF Parking
  <2>. QED BY <1>0, <1>4, <1>8, <2>1, OwedKept
<1>11. NoneGone BY <1>1 DEF NoneGone
<1>12. \A h \in G : Somewhere(h) => Somewhere(h)'
  BY <1>0, <1>1, <1>2, <1>5, <1>8, <1>11, HandedOver, RegNames
     DEF lists, Somewhere
<1>. QED BY <1>6, <1>9, <1>10, <1>12 DEF Traced, LossInv

LEMMA TracedSpawnFail == ASSUME Good, NEW m \in M, SpawnFail(m) PROVE Traced
<1>a. PICK g \in G : reg[m]["enq"] = g BY GoodFacts, Pointers DEF SpawnFail, At
<1>0. /\ pc[m] = "spawn" /\ Goto(m, "app") /\ reg' = Put(m, "enq", None)
      /\ status' = [status EXCEPT ![g] = "free"]
      /\ UNCHANGED <<frames, parking, runq, waits>>
  BY <1>a DEF SpawnFail, At
<1>1. Alone(m) /\ pc'[m] = "app" BY <1>0, Jumps DEF Alone, frames
<1>2. RegsAt(m)'
  BY <1>0, <1>1, GoodFacts, PutHere, RegNames
     DEF RegsAt, CallPCs, ReadyPCs, UserPCs, EnqPCs
<1>3. \A h \in G : status'[h] = "dead" => status[h] = "dead"
  BY <1>0, GoodFacts DEF BaseTypeOK
<1>4. \A h \in G : reg[m]["enq"] = h => Ends(h) BY DEF Ends
<1>. QED BY <1>0, <1>1, <1>2, <1>3, <1>4, TracedPut, RegNames
         DEF waits, ReadyPCs

LEMMA TracedSpawnWorker ==
    ASSUME Good, NEW m \in M, NEW n \in M, SpawnWorker(m, n) PROVE Traced
<1>0. /\ pc[n] = "none" /\ Goto(n, "mstart")
      /\ UNCHANGED <<reg, frames, gs, lists, waits>>
  BY DEF SpawnWorker
<1>1. Alone(n) /\ pc'[n] = "mstart" BY <1>0, Jumps DEF Alone, frames
<1>2. RegsAt(n)'
  BY <1>0, <1>1, GoodFacts DEF RegsAt, CallPCs, ReadyPCs, UserPCs, EnqPCs
<1>. QED BY <1>0, <1>1, <1>2, TracedGoes DEF gs, lists, waits, ReadyPCs

LEMMA TracedGosched == ASSUME Good, NEW m \in M, Gosched(m) PROVE Traced
<1>0. /\ pc[m] = "app" /\ Goto(m, "sched") /\ reg' = Move(m, "curg", m, "enqg")
      /\ status' = [status EXCEPT ![reg[m]["curg"]] = "runnable"]
      /\ UNCHANGED <<frames, parking, lists, waits>>
  BY DEF Gosched, At, SwitchToG0
<1>1. Alone(m) /\ pc'[m] = "sched" BY <1>0, Jumps DEF Alone, frames
<1>2. RegsAt(m)'
  BY <1>0, <1>1, FreeAtApp, ShiftHere, RegNames
     DEF RegsAt, CallPCs, ReadyPCs, UserPCs, EnqPCs
<1>3. \A h \in G : status'[h] = "dead" => status[h] = "dead"
  BY <1>0, GoodFacts DEF BaseTypeOK
<1>. QED BY <1>0, <1>1, <1>2, <1>3, FreeAtApp, TracedShift, RegNames
         DEF lists, waits, ReadyPCs

LEMMA TracedGoexit == ASSUME Good, NEW m \in M, Goexit(m) PROVE Traced
<1>0. /\ pc[m] = "app" /\ Goto(m, "sched") /\ reg' = Move(m, "curg", m, "deadg")
      /\ status' = [status EXCEPT ![reg[m]["curg"]] = "dead"]
      /\ UNCHANGED <<frames, parking, lists, waits>>
  BY DEF Goexit, At, SwitchToG0
<1>1. Alone(m) /\ pc'[m] = "sched" BY <1>0, Jumps DEF Alone, frames
<1>2. RegsAt(m)'
  BY <1>0, <1>1, FreeAtApp, ShiftHere, RegNames
     DEF RegsAt, CallPCs, ReadyPCs, UserPCs, EnqPCs
<1>3. \A h \in G : status'[h] = "dead" => status[h] = "dead" \/ ~CanBeWoken(h)
  BY <1>0, FreeAtApp, GoodFacts DEF BaseTypeOK
<1>. QED BY <1>0, <1>1, <1>2, <1>3, FreeAtApp, TracedShift, RegNames
         DEF lists, waits, ReadyPCs

\* A goroutine announces that it goes to sleep, and is found by its waker.
LEMMA TracedWaits ==
    ASSUME Good, NEW m \in M, NEW g \in G, pc[m] = "app", reg[m]["curg"] = g,
           Goto(m, "park"), status' = [status EXCEPT ![g] = "waiting"],
           parking' = [parking EXCEPT ![g] = 1],
           UNCHANGED <<reg, frames, runq>>,
           \/ waitq' = waitq \cup {g} /\ sleepers' = sleepers
           \/ sleepers' = sleepers \cup {g} /\ waitq' = waitq
    PROVE  Traced
<1>1. Alone(m) /\ pc'[m] = "park" BY Jumps DEF Alone, frames
<1>2. RegsAt(m)'
  BY <1>1, FreeAtApp DEF RegsAt, CallPCs, ReadyPCs, UserPCs, EnqPCs, frames
<1>3. RegsInUse' BY <1>1, <1>2, RegsKept
<1>4. \A n \in M : \A h : Waking(n, h)' <=> Waking(n, h)
  BY <1>1 DEF Waking, Alone, ReadyPCs, frames
<1>5. \A h : CanBeWoken(h)' <=> CanBeWoken(h) \/ h = g
  BY <1>4 DEF CanBeWoken
<1>6. /\ status'[g] = "waiting" /\ parking'[g] = 1
      /\ \A h \in G \ {g} : parking'[h] = parking[h] /\ status'[h] = status[h]
  BY GoodFacts DEF BaseTypeOK
<1>7. WakerKnows' BY <1>1, <1>5, <1>6, KnowsKept
<1>8. /\ \A n \in M \ {m} : reg[n]["curg"] # g
      /\ \A n \in M : reg[n]["park_g"] # g
  BY GoodFacts, RegNames, Consts DEF OneRegister
<1>9. WakeOwed'
  BY <1>1, <1>5, <1>6, <1>8, OwedKept DEF Parking, Alone
<1>10. NoneGone BY <1>1, StillHere
<1>11. \A h \in G : Somewhere(h) => Somewhere(h)'
  BY <1>5, <1>10, NobodyMoves DEF Somewhere
<1>. QED BY <1>3, <1>7, <1>9, <1>11 DEF Traced, LossInv

LEMMA TracedPark ==
    ASSUME Good, NEW m \in M, ParkRegister(m) \/ Sleep(m) PROVE Traced
<1>1. PICK g \in G : reg[m]["curg"] = g
  BY FreeAtApp DEF ParkRegister, Sleep, At
<1>. QED BY <1>1, TracedWaits DEF ParkRegister, Sleep, At, lists

LEMMA TracedParkSwitch == ASSUME Good, NEW m \in M, ParkSwitch(m) PROVE Traced
<1>a. PICK g \in G : reg[m]["curg"] = g BY GoodFacts, Pointers DEF ParkSwitch, At
<1>0. /\ pc[m] = "park" /\ UNCHANGED <<frames, lockedm, lists, waits>>
  BY DEF ParkSwitch, At
<1>1. CASE parking[g] = 1
  <2>1. /\ parking' = [parking EXCEPT ![g] = 2] /\ UNCHANGED status
        /\ Goto(m, "sched") /\ reg' = Move(m, "curg", m, "park_g")
    BY <1>a, <1>1 DEF ParkSwitch, SwitchToG0
  <2>2. Alone(m) /\ pc'[m] = "sched" BY <1>0, <2>1, Jumps DEF Alone, frames
  <2>3. /\ HandRegs(m, "curg", m, "park_g")
        /\ \A n \in M \ {m} : reg'[n] = reg[n]
        /\ reg'[m]["park_g"] = g
    BY <1>a, <2>1, ShiftHere, RegNames
  <2>4. RegsAt(m)'
    BY <1>0, <2>1, <2>2, GoodFacts, ShiftHere, RegNames
       DEF RegsAt, CallPCs, ReadyPCs, UserPCs, EnqPCs
  <2>5. RegsInUse' BY <2>2, <2>3, <2>4, RegsKept
  <2>6. \A h : CanBeWoken(h)' <=> CanBeWoken(h)
    BY <1>0, <2>2, SameRights DEF waits, ReadyPCs
  <2>7. WakerKnows' BY <2>1, <2>2, <2>6, KnowsKept, GoodFacts DEF WakerKnows
  <2>8. CanBeWoken(g)
    BY <1>a, <1>0, <1>1, GoodFacts DEF WakeOwed, Parking
  <2>9. parking'[g] = 2 /\ \A h \in G \ {g} : parking'[h] = parking[h]
    BY <2>1, GoodFacts DEF BaseTypeOK
  <2>10. \A n \in M \ {m} : reg[n]["curg"] # g /\ reg[n]["park_g"] # g
    BY <1>a, GoodFacts, RegNames, Consts DEF OneRegister
  <2>11. WakeOwed'
    BY <2>2, <2>3, <2>6, <2>8, <2>9, <2>10, OwedKept DEF Parking, Alone
  <2>12. NoneGone BY <2>2, StillHere
  <2>13. reg[m]["park_g"] = None BY <1>0, GoodFacts DEF FilledAt, EnqPCs
  <2>14. \A h \in G : Somewhere(h) => Somewhere(h)'
    BY <1>0, <2>2, <2>3, <2>6, <2>12, <2>13, HandedOver, RegNames
       DEF lists, Somewhere
  <2>. QED BY <2>5, <2>7, <2>11, <2>14 DEF Traced, LossInv
<1>2. CASE parking[g] # 1
  <2>1. /\ status' = [status EXCEPT ![g] = "running"] /\ Goto(m, "app")
        /\ UNCHANGED <<reg, parking>>
    BY <1>a, <1>2 DEF ParkSwitch
  <2>2. Alone(m) /\ pc'[m] = "app" BY <1>0, <2>1, Jumps DEF Alone, frames
  <2>3. RegsAt(m)'
    BY <1>0, <2>1, <2>2, GoodFacts DEF RegsAt, CallPCs, ReadyPCs, UserPCs, EnqPCs
  <2>4. \A h \in G : status'[h] = "dead" => status[h] = "dead"
    BY <2>1, GoodFacts DEF BaseTypeOK
  <2>. QED BY <1>0, <2>1, <2>2, <2>3, <2>4, TracedGoes DEF lists, waits, ReadyPCs
<1>. QED BY <1>1, <1>2

LEMMA TracedWake ==
    ASSUME Good, NEW m \in M, NEW g \in G, Wake(m, g) PROVE Traced
<1>1. g \notin sleepers BY GoodFacts DEF OneWaker, Wake
<1>. QED BY <1>1, TracedCall DEF Wake, At

\* runtime.LockOSThread and UnlockOSThread, and the end of the process.
LEMMA TracedStays ==
    ASSUME Good, NEW m \in M,
           LockOSThread(m) \/ UnlockOSThread(m) \/ MainReturn(m)
           \/ (m = M0 /\ ExitThread(m))
    PROVE  Traced
<1>1. /\ pc[m] = "app"
      /\ UNCHANGED <<pc, reg, frames, status, parking, runq, waits>>
  BY DEF LockOSThread, UnlockOSThread, MainReturn, ExitThread, At, threads, gs,
         lists
<1>2. Alone(m) /\ pc'[m] = "app" BY <1>1 DEF Alone, frames
<1>3. RegsAt(m)'
  BY <1>1, GoodFacts DEF RegsAt, frames
<1>. QED BY <1>1, <1>2, <1>3, TracedGoes DEF waits, ReadyPCs

\* The registers a thread leaves with are those of its goroutine and of the one
\* that was handed to it.
LEMMA TracedExit ==
    ASSUME Good, NEW m \in M, m # M0, ExitThread(m) PROVE Traced
<1>0. /\ pc[m] = "app" /\ Goto(m, "gone")
      /\ UNCHANGED <<reg, frames, gs, runq, waits>>
  BY DEF ExitThread, At
<1>1. Alone(m) /\ pc'[m] = "gone" BY <1>0, Jumps DEF Alone, frames
<1>2. RegsAt(m)'
  BY <1>0, <1>1, FreeAtApp DEF RegsAt, CallPCs, ReadyPCs, UserPCs, EnqPCs
<1>3. LossInv' /\ \A h \in G : CanBeWoken(h)' <=> CanBeWoken(h)
  BY <1>0, <1>1, <1>2, CalmStep DEF gs, waits, ReadyPCs
<1>4. ASSUME NEW h \in G, Somewhere(h), ~Somewhere(h)'
      PROVE  Ends(h) \/ Dropped(h)
  <2>1. PICK p \in M, r \in Registers : pc[p] # "gone" /\ reg[p][r] = h
    BY <1>0, <1>3, <1>4 DEF Somewhere, HeldByThread, Queued
  <2>2. reg'[p][r] = h /\ pc'[p] = "gone"
    BY <1>0, <1>4, <2>1 DEF Somewhere, HeldByThread
  <2>3. p = m BY <1>1, <2>1, <2>2 DEF Alone
  <2>4. r = "curg" \/ r = "nextg"
    BY <1>0, <2>1, <2>3, FreeAtApp, Consts DEF Registers
  <2>. QED BY <2>1, <2>3, <2>4 DEF Ends, Dropped
<1>. QED BY <1>3, <1>4 DEF Traced

-----------------------------------------------------------------------------
\* runtime_m_start

LEMMA TracedMPublish == ASSUME Good, NEW m \in M, MPublish(m) PROVE Traced
<1>0. /\ pc[m] = "mstart" /\ Goto(m, "mready")
      /\ UNCHANGED <<reg, frames, gs, runq, waits>>
  BY DEF MPublish, At
<1>1. Alone(m) /\ pc'[m] = "mready" BY <1>0, Jumps DEF Alone, frames
<1>2. RegsAt(m)'
  BY <1>0, <1>1, GoodFacts DEF RegsAt, CallPCs, ReadyPCs, UserPCs, EnqPCs
<1>. QED BY <1>0, <1>1, <1>2, TracedGoes DEF gs, waits, ReadyPCs

LEMMA TracedMFirst == ASSUME Good, NEW m \in M, MFirst(m) PROVE Traced
<1>0. /\ pc[m] = "mready" /\ Goto(m, "sched")
      /\ UNCHANGED <<frames, lists, waits>>
  BY DEF MFirst, At
<1>1. Alone(m) /\ pc'[m] = "sched" BY <1>0, Jumps DEF Alone, frames
<1>2. CASE reg[m]["start"] = None
  <2>1. UNCHANGED <<reg, gs>> BY <1>2 DEF MFirst
  <2>2. RegsAt(m)'
    BY <1>0, <1>1, <1>2, <2>1, GoodFacts
       DEF RegsAt, CallPCs, ReadyPCs, UserPCs, EnqPCs
  <2>. QED BY <1>0, <1>1, <2>1, <2>2, TracedGoes DEF gs, lists, waits, ReadyPCs
<1>3. CASE reg[m]["start"] # None
  <2>1. PICK g \in G : reg[m]["start"] = g
    BY <1>3, GoodFacts, RegNames DEF BaseTypeOK
  <2>2. /\ reg' = Move(m, "start", m, "nextg")
        /\ status' = [status EXCEPT ![g] = IF @ = "dead" THEN @ ELSE "runnable"]
        /\ parking' = [parking EXCEPT ![g] = 0]
    BY <1>3, <2>1 DEF MFirst
  <2>3. /\ HandRegs(m, "start", m, "nextg")
        /\ \A n \in M \ {m} : reg'[n] = reg[n]
        /\ reg'[m]["park_g"] = reg[m]["park_g"] /\ reg'[m]["nextg"] = g
    BY <2>1, <2>2, ShiftHere, RegNames
  <2>4. RegsAt(m)'
    BY <1>0, <1>1, <2>2, GoodFacts, ShiftHere, RegNames
       DEF RegsAt, CallPCs, ReadyPCs, UserPCs, EnqPCs
  <2>5. RegsInUse' BY <1>1, <2>3, <2>4, RegsKept
  <2>6. \A h : CanBeWoken(h)' <=> CanBeWoken(h)
    BY <1>0, <1>1, SameRights DEF waits, ReadyPCs
  <2>7. \A h \in G : status'[h] = "dead" => status[h] = "dead"
    BY <2>2, GoodFacts DEF BaseTypeOK
  <2>8. WakerKnows' BY <1>1, <2>6, <2>7, KnowsKept, GoodFacts DEF WakerKnows
  <2>9. parking'[g] = 0 /\ \A h \in G \ {g} : parking'[h] = parking[h]
    BY <2>2, GoodFacts DEF BaseTypeOK
  <2>10. \A n \in M : reg[n]["park_g"] # g
    BY <2>1, GoodFacts, RegNames, Consts DEF OneRegister
  <2>11. WakeOwed'
    BY <1>1, <2>3, <2>6, <2>9, <2>10, OwedKept DEF Parking, Alone
  <2>12. NoneGone BY <1>1, StillHere
  <2>13. ASSUME NEW h \in G, Somewhere(h), reg[m]["nextg"] # h
         PROVE  Somewhere(h)'
    <3>1. CASE HeldByThread(h)
      <4>1. PICK p \in M, r \in Registers : pc[p] # "gone" /\ reg[p][r] = h
        BY <3>1 DEF HeldByThread
      <4>2. pc'[p] # "gone" BY <2>12, <4>1 DEF NoneGone
      <4>3. CASE p = m /\ r = "start"
        BY <2>1, <2>3, <4>1, <4>2, <4>3, RegNames DEF Somewhere, HeldByThread
      <4>4. CASE ~(p = m /\ r = "start")
        <5>1. reg'[p][r] = h BY <2>3, <2>13, <4>1, <4>4 DEF HandRegs
        <5>. QED BY <4>2, <5>1 DEF Somewhere, HeldByThread
      <4>. QED BY <4>3, <4>4
    <3>2. CASE Queued(h) BY <1>0, <3>2 DEF lists, Somewhere, Queued
    <3>3. CASE CanBeWoken(h) BY <2>6, <3>3 DEF Somewhere
    <3>. QED BY <2>13, <3>1, <3>2, <3>3 DEF Somewhere
  <2>14. \A h \in G : reg[m]["nextg"] = h => Dropped(h) BY <1>3 DEF Dropped
  <2>. QED BY <2>5, <2>8, <2>11, <2>13, <2>14 DEF Traced, LossInv
<1>. QED BY <1>2, <1>3

-----------------------------------------------------------------------------
\* All steps

LEMMA TracedSteps == ASSUME Good, NEW m \in M, Step(m) PROVE Traced
<1>1. CASE Ready(m)
  BY <1>1, TracedReadyLoad, TracedReadyCancel, TracedReadyMark, TracedReadyPend,
     TracedReadyParked DEF Ready
<1>2. CASE Enqueue(m)
  BY <1>2, TracedEnqueueFind, TracedEnqueueHand, TracedEnqueuePush DEF Enqueue
<1>3. CASE Schedule(m)
  BY <1>3, TracedSchedReap, TracedSchedRequeue, TracedSchedTake,
     TracedSchedCommit, TracedSchedWake, TracedPollDue, TracedPollDrop,
     TracedPollDone, TracedSchedRun, TracedFreeDead, TracedDequeue,
     TracedDequeueNone, TracedScan DEF Schedule
<1>4. CASE Goroutine(m)
  BY <1>4, TracedNew, TracedWake, TracedSpawnThread, TracedSpawnWorker,
     TracedSpawnFail, TracedGosched, TracedPark, TracedParkSwitch, TracedStays,
     TracedGoexit, TracedExit DEF Goroutine
<1>. QED BY <1>1, <1>2, <1>3, <1>4, TracedMPublish, TracedMFirst DEF Step

LEMMA TracedStep ==
    IndInv /\ IndInv' /\ LossInv /\ [Next]_vars =>
        /\ LossInv'
        /\ [\A g \in G : Somewhere(g) /\ ~Somewhere(g)' => Ends(g) \/ Dropped(g)]_vars
<1>. SUFFICES ASSUME IndInv, IndInv', LossInv, [Next]_vars PROVE Traced
  BY DEF Traced
<1>1. Good BY DEF Good
<1>2. CASE \E m \in M : Step(m) BY <1>1, <1>2, TracedSteps
<1>3. CASE UNCHANGED vars \/ Ended
  <2>1. UNCHANGED <<pc, reg, frames, gs, runq, waits>>
    BY <1>3 DEF Ended, vars, threads, lists
  <2>2. \A n \in M : \A h : Waking(n, h)' <=> Waking(n, h)
    BY <2>1 DEF Waking, frames
  <2>3. \A h : CanBeWoken(h)' <=> CanBeWoken(h)
    BY <2>1, <2>2 DEF CanBeWoken, waits
  <2>4. RegsInUse' BY <1>1, <2>1, GoodFacts DEF RegsInUse, RegsAt, frames
  <2>5. WakeOwed' BY <1>1, <2>1, <2>3, OwedKept DEF Parking, gs
  <2>6. WakerKnows' BY <1>1, <2>1, <2>3, GoodFacts DEF WakerKnows, frames, gs
  <2>7. \A h \in G : Somewhere(h) => Somewhere(h)'
    BY <2>1, <2>3 DEF Somewhere, HeldByThread, Queued
  <2>. QED BY <2>4, <2>5, <2>6, <2>7 DEF Traced, LossInv
<1>. QED BY <1>2, <1>3 DEF Next

LEMMA LossInit == Init => LossInv
<1>. SUFFICES ASSUME Init PROVE LossInv OBVIOUS
<1>1. /\ \A m \in M : /\ pc[m] \in {"sched", "mstart", "none"}
                      /\ \A r \in Registers : reg[m][r] = None
      /\ waitq = {} /\ sleepers = {}
  BY DEF Init
<1>2. \A g : ~CanBeWoken(g) BY <1>1 DEF CanBeWoken, Waking, ReadyPCs
<1>3. RegsInUse BY <1>1, RegNames DEF RegsInUse, RegsAt
<1>4. WakeOwed BY <1>1, RegNames, Consts DEF WakeOwed, Parking
<1>5. WakerKnows BY <1>1, <1>2 DEF WakerKnows
<1>. QED BY <1>3, <1>4, <1>5 DEF LossInv

\* No register is overwritten that holds a goroutine, whoever goes to sleep is
\* announced to somebody, and no waker takes a pending wakeup for his own.
THEOREM LossInvariant == Spec => []LossInv
<1>1. IndInv /\ IndInv' /\ LossInv /\ [Next]_vars => LossInv' BY TracedStep
<1>. QED BY <1>1, LossInit, SchedInvariant, PTL DEF Spec

\* With any number of threads a goroutine is lost only when it ends, or at one
\* of the five steps at which the work of another thread is undone.
THEOREM LossesAreNamed == Spec => LostOnlyThere
<1>1. IndInv /\ IndInv' /\ LossInv /\ [Next]_vars =>
        [\A g \in G : Somewhere(g) /\ ~Somewhere(g)' => Ends(g) \/ Dropped(g)]_vars
  BY TracedStep
<1>. QED BY <1>1, LossInvariant, SchedInvariant, PTL DEF Spec, LostOnlyThere
===============================================================================
