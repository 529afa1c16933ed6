----------------------------- MODULE SchedProofs ------------------------------
(***************************************************************************)
(* Proofs about Sched for any number of threads and goroutines: the        *)
(* inductive invariant of SchedInv, layer by layer, and what the layers    *)
(* show together: TypeOK, SingleOwner, ParkHandshake, LockedStaysHome and  *)
(* SleepersCounted.                                                        *)
(***************************************************************************)
EXTENDS SchedInv, QueueLemmas, FiniteSetTheorems

-----------------------------------------------------------------------------
(***************************************************************************)
(* Layer 1: every step keeps the types, and a program counter that relies  *)
(* on a register finds it filled.                                          *)
(***************************************************************************)

\* Sequences

\* Every sequence the scheduler builds is one of goroutines.
LEMMA SeqTypes ==
    /\ \A q \in Seq(G), g \in G : PutAtTail(q, g) \in Seq(G)
    /\ \A q \in Seq(G) : \A i \in DOMAIN q :
        Unlink(q, i) \in Seq(G) /\ q[i] \in G
    /\ \A q \in Seq(G) : q # <<>> => Head(q) \in G /\ Tail(q) \in Seq(G)
    /\ \A q \in Seq(G), g \in G : <<g>> \o q \in Seq(G)
    /\ allg \in Seq(G) => \A g : AllgRemove(g) \in Seq(G)
<1>1. \A q \in Seq(G), g \in G : PutAtTail(q, g) \in Seq(G)
  BY AppendProperties DEF PutAtTail
<1>2. \A q \in Seq(G) : \A i \in DOMAIN q :
    Unlink(q, i) \in Seq(G) /\ q[i] \in G
  BY RemoveAtShape, LenProperties DEF Unlink
<1>3. \A q \in Seq(G) : q # <<>> => Head(q) \in G /\ Tail(q) \in Seq(G)
  BY HeadTailProperties
<1>4. \A q \in Seq(G), g \in G : <<g>> \o q \in Seq(G)
  <2>1. \A g \in G : <<g>> \in Seq(G)
    OBVIOUS
  <2> QED
    BY <2>1, ConcatProperties
<1>5. ASSUME allg \in Seq(G), NEW g PROVE AllgRemove(g) \in Seq(G)
  BY <1>5, RemoveAtShape DEF AllgRemove
<1> QED
  BY <1>1, <1>2, <1>3, <1>4, <1>5

-----------------------------------------------------------------------------
\* The registers

\* The effect of Put, of Move within a thread and of Move between two threads,
\* register by register.  The registers FilledAt reads are spelled out.
PutRegs(m, r, g) ==
    /\ reg' \in [M -> [Registers -> G \cup {None}]]
    /\ reg'[m][r] = g
    /\ \A s \in Registers : s # r => reg'[m][s] = reg[m][s]
    /\ "curg" # r => reg'[m]["curg"] = reg[m]["curg"]
    /\ "enq" # r => reg'[m]["enq"] = reg[m]["enq"]
    /\ "park_g" # r => reg'[m]["park_g"] = reg[m]["park_g"]
    /\ "next" # r => reg'[m]["next"] = reg[m]["next"]
    /\ \A p \in M : p # m => reg'[p] = reg[p]

ShiftRegs(m, a, b) ==
    /\ reg' \in [M -> [Registers -> G \cup {None}]]
    /\ reg'[m][b] = reg[m][a]
    /\ reg'[m][a] = None
    /\ \A s \in Registers : s # a /\ s # b => reg'[m][s] = reg[m][s]
    /\ "curg" # a /\ "curg" # b => reg'[m]["curg"] = reg[m]["curg"]
    /\ "enq" # a /\ "enq" # b => reg'[m]["enq"] = reg[m]["enq"]
    /\ "park_g" # a /\ "park_g" # b => reg'[m]["park_g"] = reg[m]["park_g"]
    /\ "next" # a /\ "next" # b => reg'[m]["next"] = reg[m]["next"]
    /\ \A p \in M : p # m => reg'[p] = reg[p]

HandRegs(m, a, n, b) ==
    /\ reg' \in [M -> [Registers -> G \cup {None}]]
    /\ reg'[n][b] = reg[m][a]
    /\ reg'[m][a] = None
    /\ \A p \in M, s \in Registers :
         (p # m \/ s # a) /\ (p # n \/ s # b) => reg'[p][s] = reg[p][s]
    /\ \A p \in {m, n} :
         /\ "curg" # a /\ "curg" # b => reg'[p]["curg"] = reg[p]["curg"]
         /\ "park_g" # a /\ "park_g" # b => reg'[p]["park_g"] = reg[p]["park_g"]
         /\ "next" # a /\ "next" # b => reg'[p]["next"] = reg[p]["next"]
    /\ n # m /\ "enq" # b => reg'[n]["enq"] = reg[n]["enq"]
    /\ \A p \in M : p # m /\ p # n => reg'[p] = reg[p]

\* Each name is a register.
LEMMA RegNames ==
    /\ "curg" \in Registers /\ "nextg" \in Registers /\ "deadg" \in Registers
    /\ "enqg" \in Registers /\ "park_g" \in Registers /\ "next" \in Registers
    /\ "enq" \in Registers /\ "start" \in Registers
  BY DEF Registers

\* The effect of Put.
LEMMA PutShape ==
    ASSUME BaseTypeOK, NEW m \in M, NEW r \in Registers,
           NEW g \in G \cup {None}, reg' = Put(m, r, g)
    PROVE  PutRegs(m, r, g)
<1>1. reg \in [M -> [Registers -> G \cup {None}]]
  BY DEF BaseTypeOK
<1>2. reg' = [reg EXCEPT ![m] = [reg[m] EXCEPT ![r] = g]]
  BY DEF Put
<1>3. reg[m] \in [Registers -> G \cup {None}]
  BY <1>1
<1>4. [reg[m] EXCEPT ![r] = g] \in [Registers -> G \cup {None}]
  BY <1>3
<1>5. reg' \in [M -> [Registers -> G \cup {None}]]
  BY <1>1, <1>2, <1>4
<1>6. reg'[m] = [reg[m] EXCEPT ![r] = g]
  BY <1>1, <1>2
<1>7. reg'[m][r] = g
  BY <1>3, <1>6
<1>8. \A s \in Registers : s # r => reg'[m][s] = reg[m][s]
  BY <1>3, <1>6
<1>9. \A p \in M : p # m => reg'[p] = reg[p]
  BY <1>1, <1>2
<1> QED
  BY <1>5, <1>7, <1>8, <1>9, RegNames DEF PutRegs

\* The effect of Move between two threads, which may be the same.
LEMMA HandShape ==
    ASSUME BaseTypeOK, NEW m \in M, NEW n \in M, NEW a \in Registers,
           NEW b \in Registers, a # b, reg' = Move(m, a, n, b)
    PROVE  HandRegs(m, a, n, b)
<1> DEFINE clear == [reg EXCEPT ![m] = [reg[m] EXCEPT ![a] = None]]
           T == G \cup {None}
<1>1. reg \in [M -> [Registers -> T]]
  BY DEF BaseTypeOK
<1>2. reg[m] \in [Registers -> T] /\ reg[m][a] \in T
  BY <1>1
<1>3. [reg[m] EXCEPT ![a] = None] \in [Registers -> T]
  BY <1>2
<1>4. clear \in [M -> [Registers -> T]]
  BY <1>1, <1>3
<1>5. clear[m] = [reg[m] EXCEPT ![a] = None]
  BY <1>1
<1>6. clear[m][a] = None
  BY <1>2, <1>5
<1>7. \A s \in Registers : s # a => clear[m][s] = reg[m][s]
  BY <1>2, <1>5
<1>8. \A p \in M : p # m => clear[p] = reg[p]
  BY <1>1
<1>9. reg' = [clear EXCEPT ![n] = [clear[n] EXCEPT ![b] = reg[m][a]]]
  BY DEF Move
<1> HIDE DEF clear, T
<1>10. clear[n] \in [Registers -> T]
  BY <1>4
<1>11. [clear[n] EXCEPT ![b] = reg[m][a]] \in [Registers -> T]
  BY <1>2, <1>10
<1>12. reg' \in [M -> [Registers -> T]]
  BY <1>4, <1>9, <1>11
<1>13. reg'[n] = [clear[n] EXCEPT ![b] = reg[m][a]]
  BY <1>4, <1>9
<1>14. reg'[n][b] = reg[m][a]
  BY <1>10, <1>13
<1>15. \A s \in Registers : s # b => reg'[n][s] = clear[n][s]
  BY <1>10, <1>13
<1>16. \A p \in M : p # n => reg'[p] = clear[p]
  BY <1>4, <1>9
<1>17. reg'[m][a] = None
  BY <1>6, <1>15, <1>16
<1>18. \A p \in M, s \in Registers : (p # m \/ s # a) /\ (p # n \/ s # b) =>
    reg'[p][s] = reg[p][s]
  BY <1>7, <1>8, <1>15, <1>16
<1>19. \A p \in M : p # m /\ p # n => reg'[p] = reg[p]
  BY <1>8, <1>16
<1> QED
  BY <1>12, <1>14, <1>17, <1>18, <1>19, RegNames DEF HandRegs, T

\* The effect of Move within a thread.
LEMMA ShiftShape ==
    ASSUME BaseTypeOK, NEW m \in M, NEW a \in Registers, NEW b \in Registers,
           a # b, reg' = Move(m, a, m, b)
    PROVE  ShiftRegs(m, a, b)
<1>1. HandRegs(m, a, m, b)
  BY HandShape
<1> QED
  BY <1>1, RegNames DEF HandRegs, ShiftRegs

-----------------------------------------------------------------------------
\* Layer 1

\* The constants are told apart.
LEMMA Consts == None \notin G /\ None \notin M /\ M0 \in M /\ Main \in G
  BY SchedAssumption

\* The pointers a program counter relies on are goroutines, or threads.
LEMMA Pointers ==
    ASSUME Inv1, NEW m \in M
    PROVE  /\ pc[m] \in {"app", "park", "spawn"} => reg[m]["curg"] \in G
           /\ pc[m] \in {"enq", "hand", "push", "spawn", "wake3"} =>
                reg[m]["enq"] \in G
           /\ pc[m] = "commit" => reg[m]["park_g"] \in G
           /\ pc[m] = "run" => reg[m]["next"] \in G
           /\ pc[m] \in ReadyPCs \cup {"mark"} => tgt[m] \in G
           /\ pc[m] = "ready" => tgt[m] \in G
           /\ pc[m] = "cas1" => tgt[m] \in G
           /\ pc[m] = "cas2" => tgt[m] \in G
           /\ pc[m] = "store" => tgt[m] \in G
           /\ pc[m] = "hand" => cand[m] \in M
  BY RegNames DEF Inv1, BaseTypeOK, Filled, FilledAt, ReadyPCs, EnqPCs

\* What FilledAt reads of a thread that does not move.
SameFilled(p) ==
    /\ pc'[p] = pc[p] /\ ret'[p] = ret[p]
    /\ tgt'[p] = tgt[p] /\ cand'[p] = cand[p]
    /\ reg'[p]["curg"] = reg[p]["curg"] /\ reg'[p]["enq"] = reg[p]["enq"]
    /\ reg'[p]["park_g"] = reg[p]["park_g"] /\ reg'[p]["next"] = reg[p]["next"]

\* A thread that does not move stays filled.
LEMMA FilledFrame ==
    ASSUME NEW p \in M, Filled, SameFilled(p)
    PROVE  FilledAt(p)'
  BY DEF Filled, FilledAt, SameFilled

\* Layer 1 holds at the start, ...
LEMMA Inv1Init == Init => Inv1
<1> SUFFICES ASSUME Init PROVE Inv1
  OBVIOUS
<1>1. <<Main>> \in Seq(G) /\ <<>> \in Seq(G)
  BY SchedAssumption
<1>2. BaseTypeOK
  BY <1>1, SchedAssumption DEF Init, BaseTypeOK, PCs, ReadyPCs, Statuses
<1>3. Filled
  <2>1. \A m \in M : reg[m]["park_g"] = None
    BY RegNames DEF Init
  <2> QED
    BY <2>1 DEF Init, Filled, FilledAt, CallPCs, EnqPCs, ReadyPCs
<1> QED
  BY <1>2, <1>3 DEF Inv1

\* ... it is about the variables only, ...
LEMMA StutterInv1 == Inv1 /\ UNCHANGED vars => Inv1'
  BY DEF Inv1, BaseTypeOK, Filled, FilledAt, vars, threads, frames, gs, lists,
         waits, scan

\* ... and every step keeps it.
LEMMA Inv1Step == Inv1 /\ [Next]_vars => Inv1'
<1> SUFFICES ASSUME Inv1, [Next]_vars PROVE Inv1'
  OBVIOUS
<1>inv. BaseTypeOK /\ Filled /\ Inv1
  BY DEF Inv1
<1> USE Consts
<1>ReadyLoad. ASSUME NEW m \in M, ReadyLoad(m) PROVE Inv1'
  <2>1. tgt[m] \in G
    BY <1>ReadyLoad, <1>inv, Pointers DEF ReadyLoad, At
  <2>2. CASE status[tgt[m]] = "dead"
    <3>1. UNCHANGED <<reg, seen, cand, status, parking, lockedm, runq, allg,
                      deadq, allm, waitq, sleepers, nsleep, schedLock, togo,
                      found, proc>>
      BY <1>ReadyLoad, <1>inv, <2>1, <2>2 DEF ReadyLoad, Return, threads,
         frames, gs, lists, waits, scan
    <3>2. pc' = [pc EXCEPT ![m] = ret[m]]
      BY <1>ReadyLoad, <1>inv, <2>1, <2>2 DEF ReadyLoad, Return, Goto
    <3>3. pc \in [M -> PCs] /\ ret[m] \in PCs
      BY <1>inv, RegNames DEF BaseTypeOK, PCs, ReadyPCs, Statuses
    <3>4. pc' \in [M -> PCs]
      BY <3>2, <3>3, <2>1 DEF Statuses
    <3>5. ret' \in [M -> {"app", "take", "poll", "polled"}]
      BY <1>ReadyLoad, <1>inv, <2>1, <2>2 DEF BaseTypeOK, ReadyLoad, Return
    <3>6. tgt' \in [M -> G \cup {None}]
      BY <1>ReadyLoad, <1>inv, <2>1, <2>2 DEF BaseTypeOK, ReadyLoad, Return
    <3>7. BaseTypeOK'
      BY <1>inv, <3>1, <3>4, <3>5, <3>6 DEF BaseTypeOK
    <3>8. /\ pc[m] \in CallPCs /\ pc'[m] = ret[m] /\ ret'[m] = "app"
           /\ ret[m] \in {"app", "take", "poll", "polled"}
      BY <1>ReadyLoad, <1>inv, <2>1, <2>2 DEF BaseTypeOK, At, Goto,
         ReadyLoad, Return, CallPCs, ReadyPCs, EnqPCs
    <3>9. ret[m] = "app" => reg[m]["curg"] # None
      BY <1>inv, <3>8 DEF Filled, FilledAt
    <3>10. reg[m]["park_g"] # None => ret[m] = "take"
      BY <1>inv, <3>8 DEF Filled, FilledAt, CallPCs, ReadyPCs, EnqPCs
    <3>11. reg'[m]["curg"] = reg[m]["curg"] /\ reg'[m]["park_g"] =
        reg[m]["park_g"]
      BY <3>1
    <3>12. FilledAt(m)'
      BY <3>8, <3>9, <3>11, <3>10 DEF FilledAt, CallPCs, ReadyPCs, EnqPCs
    <3>13. \A p \in M \ {m} : SameFilled(p)
      BY <1>ReadyLoad, <1>inv, <2>1, <2>2, <3>1 DEF Goto, ReadyLoad,
         Return, BaseTypeOK, SameFilled
    <3> QED
      BY <1>inv, <3>7, <3>12, <3>13, FilledFrame DEF Inv1, Filled
  <2>3. CASE status[tgt[m]] # "dead"
    <3>1. UNCHANGED <<reg, tgt, cand, ret, status, parking, lockedm, runq,
                      allg, deadq, allm, waitq, sleepers, nsleep, schedLock,
                      togo, found, proc>>
      BY <1>ReadyLoad, <1>inv, <2>1, <2>3 DEF ReadyLoad, Return, threads,
         frames, gs, lists, waits, scan
    <3>2. pc' \in [M -> PCs]
      BY <1>ReadyLoad, <1>inv, <2>1, <2>3 DEF BaseTypeOK, ReadyLoad,
         Return, PCs, ReadyPCs, Goto
    <3>3. seen' = [seen EXCEPT ![m] = parking[tgt[m]]]
      BY <1>ReadyLoad, <1>inv, <2>1, <2>3 DEF ReadyLoad, Return, Goto
    <3>4. seen \in [M -> 0..3] /\ parking \in [G -> 0..3]
      BY <1>inv, RegNames DEF BaseTypeOK, PCs, ReadyPCs, Statuses
    <3>5. seen' \in [M -> 0..3]
      BY <3>3, <3>4, <2>1 DEF Statuses
    <3>6. BaseTypeOK'
      BY <1>inv, <3>1, <3>2, <3>5 DEF BaseTypeOK
    <3>7. FilledAt(m)'
      BY <1>ReadyLoad, <1>inv, <2>1, <2>3, <3>1, SMTT(30)
         DEF BaseTypeOK, At, Goto, ReadyLoad, Return, Filled, FilledAt,
             ReadyPCs, EnqPCs, CallPCs
    <3>8. \A p \in M \ {m} : SameFilled(p)
      BY <1>ReadyLoad, <1>inv, <2>1, <2>3, <3>1 DEF Goto, ReadyLoad,
         Return, BaseTypeOK, SameFilled
    <3> QED
      BY <1>inv, <3>6, <3>7, <3>8, FilledFrame DEF Inv1, Filled
  <2> QED
    BY <2>2, <2>3
<1>ReadyCancel. ASSUME NEW m \in M, ReadyCancel(m) PROVE Inv1'
  <2>1. tgt[m] \in G
    BY <1>ReadyCancel, <1>inv, Pointers DEF ReadyCancel, At
  <2>2. CASE parking[tgt[m]] = 1
    <3>1. UNCHANGED <<reg, tgt, cand, ret, status, lockedm, runq, allg,
                      deadq, allm, waitq, sleepers, nsleep, schedLock, togo,
                      found, proc>>
      BY <1>ReadyCancel, <1>inv, <2>1, <2>2 DEF ReadyCancel, threads,
         frames, gs, lists, waits, scan
    <3>2. pc' \in [M -> PCs]
      BY <1>ReadyCancel, <1>inv, <2>1, <2>2 DEF BaseTypeOK, ReadyCancel,
         PCs, ReadyPCs, Goto
    <3>3. parking' = [parking EXCEPT ![tgt[m]] = 0]
      BY <1>ReadyCancel, <1>inv, <2>1, <2>2 DEF ReadyCancel, Goto
    <3>4. parking \in [G -> 0..3]
      BY <1>inv, RegNames DEF BaseTypeOK, PCs, ReadyPCs, Statuses
    <3>5. parking' \in [G -> 0..3]
      BY <3>3, <3>4, <2>1 DEF Statuses
    <3>6. seen' = [seen EXCEPT ![m] = 0]
      BY <1>ReadyCancel, <1>inv, <2>1, <2>2 DEF ReadyCancel, Goto
    <3>7. seen \in [M -> 0..3]
      BY <1>inv, RegNames DEF BaseTypeOK, PCs, ReadyPCs, Statuses
    <3>8. seen' \in [M -> 0..3]
      BY <3>6, <3>7, <2>1 DEF Statuses
    <3>9. BaseTypeOK'
      BY <1>inv, <3>1, <3>2, <3>5, <3>8 DEF BaseTypeOK
    <3>10. FilledAt(m)'
      BY <1>ReadyCancel, <1>inv, <2>1, <2>2, <3>1, ZenonT(60) DEF BaseTypeOK, At,
         Goto, ReadyCancel, Filled, FilledAt, ReadyPCs, EnqPCs, CallPCs
    <3>11. \A p \in M \ {m} : SameFilled(p)
      BY <1>ReadyCancel, <1>inv, <2>1, <2>2, <3>1 DEF Goto, ReadyCancel,
         BaseTypeOK, SameFilled
    <3> QED
      BY <1>inv, <3>9, <3>10, <3>11, FilledFrame DEF Inv1, Filled
  <2>3. CASE parking[tgt[m]] # 1
    <3>1. UNCHANGED <<reg, tgt, cand, ret, status, parking, lockedm, runq,
                      allg, deadq, allm, waitq, sleepers, nsleep, schedLock,
                      togo, found, proc>>
      BY <1>ReadyCancel, <1>inv, <2>1, <2>3 DEF ReadyCancel, threads,
         frames, gs, lists, waits, scan
    <3>2. pc' \in [M -> PCs]
      BY <1>ReadyCancel, <1>inv, <2>1, <2>3 DEF BaseTypeOK, ReadyCancel,
         PCs, ReadyPCs, Goto
    <3>3. seen' = [seen EXCEPT ![m] = parking[tgt[m]]]
      BY <1>ReadyCancel, <1>inv, <2>1, <2>3 DEF ReadyCancel, Goto
    <3>4. seen \in [M -> 0..3] /\ parking \in [G -> 0..3]
      BY <1>inv, RegNames DEF BaseTypeOK, PCs, ReadyPCs, Statuses
    <3>5. seen' \in [M -> 0..3]
      BY <3>3, <3>4, <2>1 DEF Statuses
    <3>6. BaseTypeOK'
      BY <1>inv, <3>1, <3>2, <3>5 DEF BaseTypeOK
    <3>7. FilledAt(m)'
      BY <1>ReadyCancel, <1>inv, <2>1, <2>3, <3>1, ZenonT(60) DEF BaseTypeOK, At,
         Goto, ReadyCancel, Filled, FilledAt, ReadyPCs, EnqPCs, CallPCs
    <3>8. \A p \in M \ {m} : SameFilled(p)
      BY <1>ReadyCancel, <1>inv, <2>1, <2>3, <3>1 DEF Goto, ReadyCancel,
         BaseTypeOK, SameFilled
    <3> QED
      BY <1>inv, <3>6, <3>7, <3>8, FilledFrame DEF Inv1, Filled
  <2> QED
    BY <2>2, <2>3
<1>ReadyMark. ASSUME NEW m \in M, ReadyMark(m) PROVE Inv1'
  <2>1. tgt[m] \in G
    BY <1>ReadyMark, <1>inv, Pointers DEF ReadyMark, At
  <2>2. UNCHANGED <<reg, seen, cand, parking, lockedm, runq, allg, deadq,
                    allm, waitq, sleepers, nsleep, schedLock, togo, found,
                    proc>>
    BY <1>ReadyMark, <1>inv, <2>1 DEF ReadyMark, Return, threads, frames,
       gs, lists, waits, scan
  <2>3. pc' \in [M -> PCs]
    BY <1>ReadyMark, <1>inv, <2>1 DEF BaseTypeOK, ReadyMark, Return, PCs,
       ReadyPCs, Goto
  <2>4. ret' \in [M -> {"app", "take", "poll", "polled"}]
    BY <1>ReadyMark, <1>inv, <2>1 DEF BaseTypeOK, ReadyMark, Return
  <2>5. tgt' \in [M -> G \cup {None}]
    BY <1>ReadyMark, <1>inv, <2>1 DEF BaseTypeOK, ReadyMark, Return
  <2>6. status' \in [G -> Statuses]
    BY <1>ReadyMark, <1>inv, <2>1 DEF BaseTypeOK, ReadyMark, Return, Statuses
  <2>7. BaseTypeOK'
    BY <1>inv, <2>2, <2>3, <2>4, <2>5, <2>6 DEF BaseTypeOK
  <2>8. /\ pc[m] \in CallPCs /\ pc'[m] = ret[m] /\ ret'[m] = "app"
         /\ ret[m] \in {"app", "take", "poll", "polled"}
    BY <1>ReadyMark, <1>inv, <2>1 DEF BaseTypeOK, At, Goto, ReadyMark,
       Return, CallPCs, ReadyPCs, EnqPCs
  <2>9. ret[m] = "app" => reg[m]["curg"] # None
    BY <1>inv, <2>8 DEF Filled, FilledAt
  <2>10. reg[m]["park_g"] # None => ret[m] = "take"
    BY <1>inv, <2>8 DEF Filled, FilledAt, CallPCs, ReadyPCs, EnqPCs
  <2>11. reg'[m]["curg"] = reg[m]["curg"] /\ reg'[m]["park_g"] =
      reg[m]["park_g"]
    BY <2>2
  <2>12. FilledAt(m)'
    BY <2>8, <2>9, <2>11, <2>10 DEF FilledAt, CallPCs, ReadyPCs, EnqPCs
  <2>13. \A p \in M \ {m} : SameFilled(p)
    BY <1>ReadyMark, <1>inv, <2>1, <2>2 DEF Goto, ReadyMark, Return,
       BaseTypeOK, SameFilled
  <2> QED
    BY <1>inv, <2>7, <2>12, <2>13, FilledFrame DEF Inv1, Filled
<1>ReadyPend. ASSUME NEW m \in M, ReadyPend(m) PROVE Inv1'
  <2>1. tgt[m] \in G
    BY <1>ReadyPend, <1>inv, Pointers DEF ReadyPend, At
  <2>2. CASE seen[m] = 2 /\ parking[tgt[m]] = 2
    <3>1. UNCHANGED <<reg, cand, status, lockedm, runq, allg, deadq, allm,
                      waitq, sleepers, nsleep, schedLock, togo, found,
                      proc>>
      BY <1>ReadyPend, <1>inv, <2>1, <2>2 DEF ReadyPend, Return, threads,
         frames, gs, lists, waits, scan
    <3>2. pc' \in [M -> PCs]
      BY <1>ReadyPend, <1>inv, <2>1, <2>2 DEF BaseTypeOK, ReadyPend,
         Return, PCs, ReadyPCs, Goto
    <3>3. ret' \in [M -> {"app", "take", "poll", "polled"}]
      BY <1>ReadyPend, <1>inv, <2>1, <2>2 DEF BaseTypeOK, ReadyPend, Return
    <3>4. tgt' = [tgt EXCEPT ![m] = None]
      BY <1>ReadyPend, <1>inv, <2>1, <2>2 DEF ReadyPend, Return, Goto
    <3>5. tgt \in [M -> G \cup {None}]
      BY <1>inv, RegNames DEF BaseTypeOK, PCs, ReadyPCs, Statuses
    <3>6. tgt' \in [M -> G \cup {None}]
      BY <3>4, <3>5, <2>1 DEF Statuses
    <3>7. seen' = [seen EXCEPT ![m] = 0]
      BY <1>ReadyPend, <1>inv, <2>1, <2>2 DEF ReadyPend, Return, Goto
    <3>8. seen \in [M -> 0..3]
      BY <1>inv, RegNames DEF BaseTypeOK, PCs, ReadyPCs, Statuses
    <3>9. seen' \in [M -> 0..3]
      BY <3>7, <3>8, <2>1 DEF Statuses
    <3>10. parking' = [parking EXCEPT ![tgt[m]] = 3]
      BY <1>ReadyPend, <1>inv, <2>1, <2>2 DEF ReadyPend, Return, Goto
    <3>11. parking \in [G -> 0..3]
      BY <1>inv, RegNames DEF BaseTypeOK, PCs, ReadyPCs, Statuses
    <3>12. parking' \in [G -> 0..3]
      BY <3>10, <3>11, <2>1 DEF Statuses
    <3>13. BaseTypeOK'
      BY <1>inv, <3>1, <3>2, <3>3, <3>6, <3>9, <3>12 DEF BaseTypeOK
    <3>14. /\ pc[m] \in CallPCs /\ pc'[m] = ret[m] /\ ret'[m] = "app"
           /\ ret[m] \in {"app", "take", "poll", "polled"}
      BY <1>ReadyPend, <1>inv, <2>1, <2>2 DEF BaseTypeOK, At, Goto,
         ReadyPend, Return, CallPCs, ReadyPCs, EnqPCs
    <3>15. ret[m] = "app" => reg[m]["curg"] # None
      BY <1>inv, <3>14 DEF Filled, FilledAt
    <3>16. reg[m]["park_g"] # None => ret[m] = "take"
      BY <1>inv, <3>14 DEF Filled, FilledAt, CallPCs, ReadyPCs, EnqPCs
    <3>17. reg'[m]["curg"] = reg[m]["curg"] /\ reg'[m]["park_g"] =
        reg[m]["park_g"]
      BY <3>1
    <3>18. FilledAt(m)'
      BY <3>14, <3>15, <3>17, <3>16 DEF FilledAt, CallPCs, ReadyPCs, EnqPCs
    <3>19. \A p \in M \ {m} : SameFilled(p)
      BY <1>ReadyPend, <1>inv, <2>1, <2>2, <3>1 DEF Goto, ReadyPend,
         Return, BaseTypeOK, SameFilled
    <3> QED
      BY <1>inv, <3>13, <3>18, <3>19, FilledFrame DEF Inv1, Filled
  <2>3. CASE (~(seen[m] = 2 /\ parking[tgt[m]] = 2)) /\ (IF seen[m] =
      2 THEN parking[tgt[m]] ELSE seen[m]) = 3
    <3>1. UNCHANGED <<reg, cand, status, parking, lockedm, runq, allg,
                      deadq, allm, waitq, sleepers, nsleep, schedLock, togo,
                      found, proc>>
      BY <1>ReadyPend, <1>inv, <2>1, <2>3 DEF ReadyPend, Return, threads,
         frames, gs, lists, waits, scan
    <3>2. pc' = [pc EXCEPT ![m] = ret[m]]
      BY <1>ReadyPend, <1>inv, <2>1, <2>3 DEF ReadyPend, Return, Goto
    <3>3. pc \in [M -> PCs] /\ ret[m] \in PCs
      BY <1>inv, RegNames DEF BaseTypeOK, PCs, ReadyPCs, Statuses
    <3>4. pc' \in [M -> PCs]
      BY <3>2, <3>3, <2>1 DEF Statuses
    <3>5. ret' \in [M -> {"app", "take", "poll", "polled"}]
      BY <1>ReadyPend, <1>inv, <2>1, <2>3 DEF BaseTypeOK, ReadyPend, Return
    <3>6. tgt' \in [M -> G \cup {None}]
      BY <1>ReadyPend, <1>inv, <2>1, <2>3, SMTT(30)
         DEF BaseTypeOK, ReadyPend, Return
    <3>7. seen' = [seen EXCEPT ![m] = 0]
      BY <1>ReadyPend, <1>inv, <2>1, <2>3 DEF ReadyPend, Return, Goto
    <3>8. seen \in [M -> 0..3]
      BY <1>inv, RegNames DEF BaseTypeOK, PCs, ReadyPCs, Statuses
    <3>9. seen' \in [M -> 0..3]
      BY <3>7, <3>8, <2>1 DEF Statuses
    <3>10. BaseTypeOK'
      BY <1>inv, <3>1, <3>4, <3>5, <3>6, <3>9 DEF BaseTypeOK
    <3>11. /\ pc[m] \in CallPCs /\ pc'[m] = ret[m] /\ ret'[m] = "app"
           /\ ret[m] \in {"app", "take", "poll", "polled"}
      BY <1>ReadyPend, <1>inv, <2>1, <2>3 DEF BaseTypeOK, At, Goto,
         ReadyPend, Return, CallPCs, ReadyPCs, EnqPCs
    <3>12. ret[m] = "app" => reg[m]["curg"] # None
      BY <1>inv, <3>11 DEF Filled, FilledAt
    <3>13. reg[m]["park_g"] # None => ret[m] = "take"
      BY <1>inv, <3>11 DEF Filled, FilledAt, CallPCs, ReadyPCs, EnqPCs
    <3>14. reg'[m]["curg"] = reg[m]["curg"] /\ reg'[m]["park_g"] =
        reg[m]["park_g"]
      BY <3>1
    <3>15. FilledAt(m)'
      BY <3>11, <3>12, <3>14, <3>13 DEF FilledAt, CallPCs, ReadyPCs, EnqPCs
    <3>16. \A p \in M \ {m} : SameFilled(p)
      BY <1>ReadyPend, <1>inv, <2>1, <2>3, <3>1 DEF Goto, ReadyPend,
         Return, BaseTypeOK, SameFilled
    <3> QED
      BY <1>inv, <3>10, <3>15, <3>16, FilledFrame DEF Inv1, Filled
  <2>4. CASE (~(seen[m] = 2 /\ parking[tgt[m]] = 2)) /\ (IF seen[m] =
      2 THEN parking[tgt[m]] ELSE seen[m]) # 3
    <3>1. UNCHANGED <<reg, tgt, cand, ret, status, parking, lockedm, runq,
                      allg, deadq, allm, waitq, sleepers, nsleep, schedLock,
                      togo, found, proc>>
      BY <1>ReadyPend, <1>inv, <2>1, <2>4 DEF ReadyPend, Return, threads,
         frames, gs, lists, waits, scan
    <3>2. pc' \in [M -> PCs]
      BY <1>ReadyPend, <1>inv, <2>1, <2>4 DEF BaseTypeOK, ReadyPend,
         Return, PCs, ReadyPCs, Goto
    <3>3. seen' = [seen EXCEPT ![m] = 0]
      BY <1>ReadyPend, <1>inv, <2>1, <2>4 DEF ReadyPend, Return, Goto
    <3>4. seen \in [M -> 0..3]
      BY <1>inv, RegNames DEF BaseTypeOK, PCs, ReadyPCs, Statuses
    <3>5. seen' \in [M -> 0..3]
      BY <3>3, <3>4, <2>1 DEF Statuses
    <3>6. BaseTypeOK'
      BY <1>inv, <3>1, <3>2, <3>5 DEF BaseTypeOK
    <3>7. FilledAt(m)'
      BY <1>ReadyPend, <1>inv, <2>1, <2>4, <3>1, ZenonT(60)
         DEF BaseTypeOK, At, Goto, ReadyPend, Return, Filled, FilledAt,
             ReadyPCs, EnqPCs, CallPCs
    <3>8. \A p \in M \ {m} : SameFilled(p)
      BY <1>ReadyPend, <1>inv, <2>1, <2>4, <3>1 DEF Goto, ReadyPend,
         Return, BaseTypeOK, SameFilled
    <3> QED
      BY <1>inv, <3>6, <3>7, <3>8, FilledFrame DEF Inv1, Filled
  <2> QED
    BY <2>2, <2>3, <2>4
<1>ReadyParked. ASSUME NEW m \in M, ReadyParked(m) PROVE Inv1'
  <2>1. tgt[m] \in G
    BY <1>ReadyParked, <1>inv, Pointers DEF ReadyParked, At
  <2>2. CASE status[tgt[m]] = "waiting"
    <3>1. UNCHANGED <<seen, cand, ret, lockedm, runq, allg, deadq, allm,
                      waitq, sleepers, nsleep, schedLock, togo, found,
                      proc>>
      BY <1>ReadyParked, <1>inv, <2>1, <2>2 DEF ReadyParked, Return,
         threads, frames, gs, lists, waits, scan
    <3>2. reg' = Put(m, "enq", tgt[m])
      BY <1>ReadyParked, <1>inv, <2>1, <2>2 DEF ReadyParked, Return
    <3>3. PutRegs(m, "enq", tgt[m])
      BY <1>inv, <2>1, <3>2, PutShape, RegNames
    <3>4. pc' \in [M -> PCs]
      BY <1>ReadyParked, <1>inv, <2>1, <2>2 DEF BaseTypeOK, ReadyParked,
         Return, PCs, ReadyPCs, Goto
    <3>5. tgt' \in [M -> G \cup {None}]
      BY <1>ReadyParked, <1>inv, <2>1, <2>2 DEF BaseTypeOK, ReadyParked, Return
    <3>6. parking' \in [G -> 0..3]
      BY <1>ReadyParked, <1>inv, <2>1, <2>2 DEF BaseTypeOK, ReadyParked, Return
    <3>7. status' = [status EXCEPT ![tgt[m]] = "runnable"]
      BY <1>ReadyParked, <1>inv, <2>1, <2>2 DEF ReadyParked, Return, Goto
    <3>8. status \in [G -> Statuses]
      BY <1>inv, RegNames DEF BaseTypeOK, PCs, ReadyPCs, Statuses
    <3>9. status' \in [G -> Statuses]
      BY <3>7, <3>8, <2>1 DEF Statuses
    <3>10. reg' \in [M -> [Registers -> G \cup {None}]]
      BY <3>3 DEF PutRegs
    <3>11. BaseTypeOK'
      BY <1>inv, <3>1, <3>4, <3>5, <3>6, <3>9, <3>10 DEF BaseTypeOK
    <3>12. FilledAt(m)'
      BY <1>ReadyParked, <1>inv, <2>1, <2>2, <3>1, <3>3, SMTT(30)
         DEF BaseTypeOK, At, Goto, ReadyParked, Return, PutRegs, Filled,
             FilledAt, ReadyPCs, EnqPCs, CallPCs
    <3>13. \A p \in M \ {m} : SameFilled(p)
      BY <1>ReadyParked, <1>inv, <2>1, <2>2, <3>1, <3>3 DEF Goto,
         ReadyParked, Return, BaseTypeOK, SameFilled, PutRegs
    <3> QED
      BY <1>inv, <3>11, <3>12, <3>13, FilledFrame DEF Inv1, Filled
  <2>3. CASE status[tgt[m]] # "waiting"
    <3>1. UNCHANGED <<reg, seen, cand, status, lockedm, runq, allg, deadq,
                      allm, waitq, sleepers, nsleep, schedLock, togo, found,
                      proc>>
      BY <1>ReadyParked, <1>inv, <2>1, <2>3 DEF ReadyParked, Return,
         threads, frames, gs, lists, waits, scan
    <3>2. pc' = [pc EXCEPT ![m] = ret[m]]
      BY <1>ReadyParked, <1>inv, <2>1, <2>3 DEF ReadyParked, Return, Goto
    <3>3. pc \in [M -> PCs] /\ ret[m] \in PCs
      BY <1>inv, RegNames DEF BaseTypeOK, PCs, ReadyPCs, Statuses
    <3>4. pc' \in [M -> PCs]
      BY <3>2, <3>3, <2>1 DEF Statuses
    <3>5. ret' \in [M -> {"app", "take", "poll", "polled"}]
      BY <1>ReadyParked, <1>inv, <2>1, <2>3 DEF BaseTypeOK, ReadyParked, Return
    <3>6. tgt' \in [M -> G \cup {None}]
      BY <1>ReadyParked, <1>inv, <2>1, <2>3 DEF BaseTypeOK, ReadyParked, Return
    <3>7. parking' \in [G -> 0..3]
      BY <1>ReadyParked, <1>inv, <2>1, <2>3 DEF BaseTypeOK, ReadyParked, Return
    <3>8. BaseTypeOK'
      BY <1>inv, <3>1, <3>4, <3>5, <3>6, <3>7 DEF BaseTypeOK
    <3>9. /\ pc[m] \in CallPCs /\ pc'[m] = ret[m] /\ ret'[m] = "app"
           /\ ret[m] \in {"app", "take", "poll", "polled"}
      BY <1>ReadyParked, <1>inv, <2>1, <2>3 DEF BaseTypeOK, At, Goto,
         ReadyParked, Return, CallPCs, ReadyPCs, EnqPCs
    <3>10. ret[m] = "app" => reg[m]["curg"] # None
      BY <1>inv, <3>9 DEF Filled, FilledAt
    <3>11. reg[m]["park_g"] # None => ret[m] = "take"
      BY <1>inv, <3>9 DEF Filled, FilledAt, CallPCs, ReadyPCs, EnqPCs
    <3>12. reg'[m]["curg"] = reg[m]["curg"] /\ reg'[m]["park_g"] =
        reg[m]["park_g"]
      BY <3>1
    <3>13. FilledAt(m)'
      BY <3>9, <3>10, <3>12, <3>11 DEF FilledAt, CallPCs, ReadyPCs, EnqPCs
    <3>14. \A p \in M \ {m} : SameFilled(p)
      BY <1>ReadyParked, <1>inv, <2>1, <2>3, <3>1 DEF Goto, ReadyParked,
         Return, BaseTypeOK, SameFilled
    <3> QED
      BY <1>inv, <3>8, <3>13, <3>14, FilledFrame DEF Inv1, Filled
  <2> QED
    BY <2>2, <2>3
<1>EnqueueFind. ASSUME NEW m \in M, EnqueueFind(m) PROVE Inv1'
  <2>1. reg[m]["enq"] \in G
    BY <1>EnqueueFind, <1>inv, Pointers DEF EnqueueFind, At
  <2>2. CASE lockedm[reg[m]["enq"]] = None /\ Idle(m) # {}
    <3>1. UNCHANGED <<reg, tgt, seen, ret, status, parking, lockedm, runq,
                      allg, deadq, allm, waitq, sleepers, nsleep, schedLock,
                      togo, found, proc>>
      BY <1>EnqueueFind, <1>inv, <2>1, <2>2 DEF EnqueueFind, threads,
         frames, gs, lists, waits, scan
    <3>2. pc' \in [M -> PCs]
      BY <1>EnqueueFind, <1>inv, <2>1, <2>2 DEF BaseTypeOK, EnqueueFind,
         PCs, ReadyPCs, Goto
    <3>3. PICK n \in Idle(m) : cand' = [cand EXCEPT ![m] = n]
      BY <1>EnqueueFind, <1>inv, <2>1, <2>2 DEF EnqueueFind
    <3>4. cand \in [M -> M \cup {None}] /\ n \in M
      BY <1>inv DEF Idle, BaseTypeOK
    <3>5. cand' \in [M -> M \cup {None}]
      BY <3>3, <3>4
    <3>6. BaseTypeOK'
      BY <1>inv, <3>1, <3>2, <3>5 DEF BaseTypeOK
    <3>7. FilledAt(m)
      BY <1>inv DEF Filled
    <3>8. reg'[m]["park_g"] # None => ret[m] = "take"
      BY <1>EnqueueFind, <1>inv, <2>1, <2>2, <3>3, <3>4, <3>1, <3>7 DEF
         BaseTypeOK, At, FilledAt, EnqPCs, CallPCs, EnqueueFind
    <3>9. FilledAt(m)'
      BY <1>EnqueueFind, <1>inv, <2>1, <2>2, <3>3, <3>4, <3>1, <3>7, <3>8
         DEF BaseTypeOK, At, Goto, EnqueueFind, FilledAt, ReadyPCs,
         EnqPCs, CallPCs
    <3>10. \A p \in M \ {m} : SameFilled(p)
      BY <1>EnqueueFind, <1>inv, <2>1, <2>2, <3>3, <3>4, <3>1, <3>7, <3>8
         DEF Goto, EnqueueFind, BaseTypeOK, SameFilled
    <3> QED
      BY <1>inv, <3>6, <3>9, <3>10, FilledFrame DEF Inv1, Filled
  <2>3. CASE ~(lockedm[reg[m]["enq"]] = None /\ Idle(m) # {})
    <3>1. UNCHANGED <<reg, tgt, seen, cand, ret, status, parking, lockedm,
                      runq, allg, deadq, allm, waitq, sleepers, nsleep,
                      schedLock, togo, found, proc>>
      BY <1>EnqueueFind, <1>inv, <2>1, <2>3 DEF EnqueueFind, threads,
         frames, gs, lists, waits, scan
    <3>2. pc' \in [M -> PCs]
      BY <1>EnqueueFind, <1>inv, <2>1, <2>3 DEF BaseTypeOK, EnqueueFind,
         PCs, ReadyPCs, Goto
    <3>3. BaseTypeOK'
      BY <1>inv, <3>1, <3>2 DEF BaseTypeOK
    <3>4. FilledAt(m)
      BY <1>inv DEF Filled
    <3>5. reg'[m]["park_g"] # None => ret[m] = "take"
      BY <1>EnqueueFind, <1>inv, <2>1, <2>3, <3>1, <3>4 DEF BaseTypeOK,
         At, FilledAt, EnqPCs, CallPCs, EnqueueFind
    <3>6. FilledAt(m)'
      BY <1>EnqueueFind, <1>inv, <2>1, <2>3, <3>1, <3>4, <3>5 DEF
         BaseTypeOK, At, Goto, EnqueueFind, FilledAt, ReadyPCs, EnqPCs,
         CallPCs
    <3>7. \A p \in M \ {m} : SameFilled(p)
      BY <1>EnqueueFind, <1>inv, <2>1, <2>3, <3>1, <3>4, <3>5 DEF Goto,
         EnqueueFind, BaseTypeOK, SameFilled
    <3> QED
      BY <1>inv, <3>3, <3>6, <3>7, FilledFrame DEF Inv1, Filled
  <2> QED
    BY <2>2, <2>3
<1>EnqueueHand. ASSUME NEW m \in M, EnqueueHand(m) PROVE Inv1'
  <2>1. reg[m]["enq"] \in G /\ cand[m] \in M
    BY <1>EnqueueHand, <1>inv, Pointers DEF EnqueueHand, At
  <2>2. CASE reg[cand[m]]["nextg"] = None
    <3>1. UNCHANGED <<tgt, seen, status, parking, lockedm, runq, allg,
                      deadq, allm, waitq, sleepers, nsleep, schedLock, togo,
                      found, proc>>
      BY <1>EnqueueHand, <1>inv, <2>1, <2>2 DEF EnqueueHand, Return,
         threads, frames, gs, lists, waits, scan
    <3>2. reg' = Move(m, "enq", cand[m], "nextg")
      BY <1>EnqueueHand, <1>inv, <2>1, <2>2 DEF EnqueueHand, Return
    <3>3. HandRegs(m, "enq", cand[m], "nextg")
      BY <1>inv, <2>1, <3>2, HandShape, RegNames
    <3>4. pc' = [pc EXCEPT ![m] = ret[m]]
      BY <1>EnqueueHand, <1>inv, <2>1, <2>2 DEF EnqueueHand, Return, Goto
    <3>5. pc \in [M -> PCs] /\ ret[m] \in PCs
      BY <1>inv, RegNames DEF BaseTypeOK, PCs, ReadyPCs, Statuses
    <3>6. pc' \in [M -> PCs]
      BY <3>4, <3>5, <2>1 DEF Statuses
    <3>7. ret' \in [M -> {"app", "take", "poll", "polled"}]
      BY <1>EnqueueHand, <1>inv, <2>1, <2>2, ZenonT(60)
         DEF BaseTypeOK, EnqueueHand, Return
    <3>8. cand' \in [M -> M \cup {None}]
      BY <1>EnqueueHand, <1>inv, <2>1, <2>2 DEF BaseTypeOK, EnqueueHand, Return
    <3>9. reg' \in [M -> [Registers -> G \cup {None}]]
      BY <3>3 DEF HandRegs
    <3>10. BaseTypeOK'
      BY <1>inv, <3>1, <3>6, <3>7, <3>8, <3>9 DEF BaseTypeOK
    <3>11. /\ pc[m] \in CallPCs /\ pc'[m] = ret[m] /\ ret'[m] = "app"
           /\ ret[m] \in {"app", "take", "poll", "polled"}
      BY <1>EnqueueHand, <1>inv, <2>1, <2>2 DEF BaseTypeOK, At, Goto,
         EnqueueHand, Return, CallPCs, ReadyPCs, EnqPCs
    <3>12. ret[m] = "app" => reg[m]["curg"] # None
      BY <1>inv, <3>11 DEF Filled, FilledAt
    <3>13. reg[m]["park_g"] # None => ret[m] = "take"
      BY <1>inv, <3>11 DEF Filled, FilledAt, CallPCs, ReadyPCs, EnqPCs
    <3>14. reg'[m]["curg"] = reg[m]["curg"] /\ reg'[m]["park_g"] =
        reg[m]["park_g"]
      BY <3>3, RegNames, <3>1 DEF HandRegs
    <3>15. FilledAt(m)'
      BY <3>11, <3>12, <3>14, <3>13 DEF FilledAt, CallPCs, ReadyPCs, EnqPCs
    <3>16. \A p \in M \ {m} : SameFilled(p)
      BY <1>EnqueueHand, <1>inv, <2>1, <2>2, <3>1, <3>3, RegNames DEF
         Goto, EnqueueHand, Return, BaseTypeOK, SameFilled, HandRegs
    <3> QED
      BY <1>inv, <3>10, <3>15, <3>16, FilledFrame DEF Inv1, Filled
  <2>3. CASE reg[cand[m]]["nextg"] # None
    <3>1. UNCHANGED <<reg, tgt, seen, ret, status, parking, lockedm, runq,
                      allg, deadq, allm, waitq, sleepers, nsleep, schedLock,
                      togo, found, proc>>
      BY <1>EnqueueHand, <1>inv, <2>1, <2>3 DEF EnqueueHand, Return,
         threads, frames, gs, lists, waits, scan
    <3>2. pc' \in [M -> PCs]
      BY <1>EnqueueHand, <1>inv, <2>1, <2>3 DEF BaseTypeOK, EnqueueHand,
         Return, PCs, ReadyPCs, Goto
    <3>3. cand' \in [M -> M \cup {None}]
      BY <1>EnqueueHand, <1>inv, <2>1, <2>3 DEF BaseTypeOK, EnqueueHand, Return
    <3>4. BaseTypeOK'
      BY <1>inv, <3>1, <3>2, <3>3 DEF BaseTypeOK
    <3>5. FilledAt(m)'
      BY <1>EnqueueHand, <1>inv, <2>1, <2>3, <3>1 DEF BaseTypeOK, At,
         Goto, EnqueueHand, Return, Filled, FilledAt, ReadyPCs, EnqPCs,
         CallPCs
    <3>6. \A p \in M \ {m} : SameFilled(p)
      BY <1>EnqueueHand, <1>inv, <2>1, <2>3, <3>1 DEF Goto, EnqueueHand,
         Return, BaseTypeOK, SameFilled
    <3> QED
      BY <1>inv, <3>4, <3>5, <3>6, FilledFrame DEF Inv1, Filled
  <2> QED
    BY <2>2, <2>3
<1>EnqueuePush. ASSUME NEW m \in M, EnqueuePush(m) PROVE Inv1'
  <2>1. reg[m]["enq"] \in G
    BY <1>EnqueuePush, <1>inv, Pointers DEF EnqueuePush, At
  <2>2. UNCHANGED <<tgt, seen, cand, status, parking, lockedm, allg, deadq,
                    allm, waitq, sleepers, nsleep, schedLock, togo, found,
                    proc>>
    BY <1>EnqueuePush, <1>inv, <2>1 DEF EnqueuePush, Return, threads,
       frames, gs, lists, waits, scan
  <2>3. reg' = Put(m, "enq", None)
    BY <1>EnqueuePush, <1>inv, <2>1 DEF EnqueuePush, Return
  <2>4. PutRegs(m, "enq", None)
    BY <1>inv, <2>1, <2>3, PutShape, RegNames
  <2>5. pc' \in [M -> PCs]
    BY <1>EnqueuePush, <1>inv, <2>1 DEF BaseTypeOK, EnqueuePush, Return,
       PCs, ReadyPCs, Goto
  <2>6. ret' \in [M -> {"app", "take", "poll", "polled"}]
    BY <1>EnqueuePush, <1>inv, <2>1 DEF BaseTypeOK, EnqueuePush, Return
  <2>7. reg' \in [M -> [Registers -> G \cup {None}]]
    BY <2>4 DEF PutRegs
  <2>8. runq' \in Seq(G)
    BY <1>EnqueuePush, <1>inv, <2>1, SeqTypes DEF BaseTypeOK, EnqueuePush,
       Return
  <2>9. BaseTypeOK'
    BY <1>inv, <2>2, <2>5, <2>6, <2>7, <2>8 DEF BaseTypeOK
  <2>10. /\ pc[m] \in CallPCs /\ pc'[m] = ret[m] /\ ret'[m] = "app"
         /\ ret[m] \in {"app", "take", "poll", "polled"}
    BY <1>EnqueuePush, <1>inv, <2>1 DEF BaseTypeOK, At, Goto, EnqueuePush,
       Return, CallPCs, ReadyPCs, EnqPCs
  <2>11. ret[m] = "app" => reg[m]["curg"] # None
    BY <1>inv, <2>10 DEF Filled, FilledAt
  <2>12. reg[m]["park_g"] # None => ret[m] = "take"
    BY <1>inv, <2>10 DEF Filled, FilledAt, CallPCs, ReadyPCs, EnqPCs
  <2>13. reg'[m]["curg"] = reg[m]["curg"] /\ reg'[m]["park_g"] =
      reg[m]["park_g"]
    BY <2>4, <2>2 DEF PutRegs
  <2>14. FilledAt(m)'
    BY <2>10, <2>11, <2>13, <2>12 DEF FilledAt, CallPCs, ReadyPCs, EnqPCs
  <2>15. \A p \in M \ {m} : SameFilled(p)
    BY <1>EnqueuePush, <1>inv, <2>1, <2>2, <2>4 DEF Goto, EnqueuePush,
       Return, BaseTypeOK, SameFilled, PutRegs
  <2> QED
    BY <1>inv, <2>9, <2>14, <2>15, FilledFrame DEF Inv1, Filled
<1>SchedReap. ASSUME NEW m \in M, SchedReap(m) PROVE Inv1'
  <2>1. UNCHANGED <<pc, tgt, seen, cand, ret, status, parking, lockedm, runq,
                    allg, allm, waitq, sleepers, nsleep, schedLock, togo,
                    found, proc>>
    BY <1>SchedReap, <1>inv DEF SchedReap, threads, frames, gs, lists,
       waits, scan
  <2>2. reg' = Put(m, "deadg", None)
    BY <1>SchedReap, <1>inv DEF SchedReap
  <2>3. PutRegs(m, "deadg", None)
    BY <1>inv, <2>2, PutShape, RegNames
  <2>4. reg' \in [M -> [Registers -> G \cup {None}]]
    BY <2>3 DEF PutRegs
  <2>5. deadq' \subseteq G
    BY <1>SchedReap, <1>inv, RegNames DEF BaseTypeOK, SchedReap
  <2>6. BaseTypeOK'
    BY <1>inv, <2>1, <2>4, <2>5 DEF BaseTypeOK
  <2>7. FilledAt(m)'
    BY <1>SchedReap, <1>inv, <2>1, <2>3 DEF BaseTypeOK, At, Goto, SchedReap,
       PutRegs, Filled, FilledAt, ReadyPCs, EnqPCs, CallPCs
  <2>8. \A p \in M \ {m} : SameFilled(p)
    BY <1>SchedReap, <1>inv, <2>1, <2>3 DEF Goto, SchedReap, BaseTypeOK,
       SameFilled, PutRegs
  <2> QED
    BY <1>inv, <2>6, <2>7, <2>8, FilledFrame DEF Inv1, Filled
<1>SchedRequeue. ASSUME NEW m \in M, SchedRequeue(m) PROVE Inv1'
  <2>1. CASE reg[m]["enqg"] # None
    <3>1. UNCHANGED <<tgt, seen, cand, status, parking, lockedm, runq, allg,
                      deadq, allm, waitq, sleepers, nsleep, schedLock, togo,
                      found, proc>>
      BY <1>SchedRequeue, <1>inv, <2>1 DEF SchedRequeue, CallEnqueue,
         threads, frames, gs, lists, waits, scan
    <3>2. reg' = Move(m, "enqg", m, "enq")
      BY <1>SchedRequeue, <1>inv, <2>1 DEF SchedRequeue, CallEnqueue
    <3>3. ShiftRegs(m, "enqg", "enq")
      BY <1>inv, <3>2, ShiftShape, RegNames
    <3>4. pc' \in [M -> PCs]
      BY <1>SchedRequeue, <1>inv, <2>1 DEF BaseTypeOK, SchedRequeue,
         CallEnqueue, PCs, ReadyPCs, Goto
    <3>5. reg' \in [M -> [Registers -> G \cup {None}]]
      BY <3>3 DEF ShiftRegs
    <3>6. ret' \in [M -> {"app", "take", "poll", "polled"}]
      BY <1>SchedRequeue, <1>inv, <2>1 DEF BaseTypeOK, SchedRequeue, CallEnqueue
    <3>7. BaseTypeOK'
      BY <1>inv, <3>1, <3>4, <3>5, <3>6 DEF BaseTypeOK
    <3>8. FilledAt(m)'
      BY <1>SchedRequeue, <1>inv, <2>1, <3>1, <3>3 DEF BaseTypeOK, At,
         Goto, SchedRequeue, CallEnqueue, ShiftRegs, Filled, FilledAt,
         ReadyPCs, EnqPCs, CallPCs
    <3>9. \A p \in M \ {m} : SameFilled(p)
      BY <1>SchedRequeue, <1>inv, <2>1, <3>1, <3>3 DEF Goto, SchedRequeue,
         CallEnqueue, BaseTypeOK, SameFilled, ShiftRegs
    <3> QED
      BY <1>inv, <3>7, <3>8, <3>9, FilledFrame DEF Inv1, Filled
  <2>2. CASE reg[m]["enqg"] = None
    <3>1. UNCHANGED <<reg, tgt, seen, cand, ret, status, parking, lockedm,
                      runq, allg, deadq, allm, waitq, sleepers, nsleep,
                      schedLock, togo, found, proc>>
      BY <1>SchedRequeue, <1>inv, <2>2 DEF SchedRequeue, CallEnqueue,
         threads, frames, gs, lists, waits, scan
    <3>2. pc' \in [M -> PCs]
      BY <1>SchedRequeue, <1>inv, <2>2 DEF BaseTypeOK, SchedRequeue,
         CallEnqueue, PCs, ReadyPCs, Goto
    <3>3. BaseTypeOK'
      BY <1>inv, <3>1, <3>2 DEF BaseTypeOK
    <3>4. FilledAt(m)'
      BY <1>SchedRequeue, <1>inv, <2>2, <3>1 DEF BaseTypeOK, At, Goto,
         SchedRequeue, CallEnqueue, Filled, FilledAt, ReadyPCs, EnqPCs,
         CallPCs
    <3>5. \A p \in M \ {m} : SameFilled(p)
      BY <1>SchedRequeue, <1>inv, <2>2, <3>1 DEF Goto, SchedRequeue,
         CallEnqueue, BaseTypeOK, SameFilled
    <3> QED
      BY <1>inv, <3>3, <3>4, <3>5, FilledFrame DEF Inv1, Filled
  <2> QED
    BY <2>1, <2>2
<1>SchedTake. ASSUME NEW m \in M, SchedTake(m) PROVE Inv1'
  <2>1. UNCHANGED <<tgt, seen, cand, ret, status, parking, lockedm, runq,
                    allg, deadq, allm, waitq, sleepers, nsleep, schedLock,
                    togo, found, proc>>
    BY <1>SchedTake, <1>inv DEF SchedTake, threads, frames, gs, lists,
       waits, scan
  <2>2. reg' = Move(m, "nextg", m, "next")
    BY <1>SchedTake, <1>inv DEF SchedTake
  <2>3. ShiftRegs(m, "nextg", "next")
    BY <1>inv, <2>2, ShiftShape, RegNames
  <2>4. pc' \in [M -> PCs]
    BY <1>SchedTake, <1>inv DEF BaseTypeOK, SchedTake, PCs, ReadyPCs, Goto
  <2>5. reg' \in [M -> [Registers -> G \cup {None}]]
    BY <2>3 DEF ShiftRegs
  <2>6. BaseTypeOK'
    BY <1>inv, <2>1, <2>4, <2>5 DEF BaseTypeOK
  <2>7. FilledAt(m)'
    BY <1>SchedTake, <1>inv, <2>1, <2>3 DEF BaseTypeOK, At, Goto, SchedTake,
       ShiftRegs, Filled, FilledAt, ReadyPCs, EnqPCs, CallPCs
  <2>8. \A p \in M \ {m} : SameFilled(p)
    BY <1>SchedTake, <1>inv, <2>1, <2>3 DEF Goto, SchedTake, BaseTypeOK,
       SameFilled, ShiftRegs
  <2> QED
    BY <1>inv, <2>6, <2>7, <2>8, FilledFrame DEF Inv1, Filled
<1>SchedCommit. ASSUME NEW m \in M, SchedCommit(m) PROVE Inv1'
  <2>1. reg[m]["park_g"] \in G
    BY <1>SchedCommit, <1>inv, Pointers DEF SchedCommit, At
  <2>2. CASE parking[reg[m]["park_g"]] = 3
    <3>1. UNCHANGED <<tgt, seen, cand, ret, status, lockedm, runq, allg,
                      deadq, allm, waitq, sleepers, nsleep, schedLock, togo,
                      found, proc>>
      BY <1>SchedCommit, <1>inv, <2>1, <2>2 DEF SchedCommit, threads,
         frames, gs, lists, waits, scan
    <3>2. reg' = Move(m, "park_g", m, "enq")
      BY <1>SchedCommit, <1>inv, <2>1, <2>2 DEF SchedCommit
    <3>3. ShiftRegs(m, "park_g", "enq")
      BY <1>inv, <2>1, <3>2, ShiftShape, RegNames
    <3>4. pc' \in [M -> PCs]
      BY <1>SchedCommit, <1>inv, <2>1, <2>2 DEF BaseTypeOK, SchedCommit,
         PCs, ReadyPCs, Goto
    <3>5. reg' \in [M -> [Registers -> G \cup {None}]]
      BY <3>3 DEF ShiftRegs
    <3>6. parking' \in [G -> 0..3]
      BY <1>SchedCommit, <1>inv, <2>1, <2>2 DEF BaseTypeOK, SchedCommit
    <3>7. BaseTypeOK'
      BY <1>inv, <3>1, <3>4, <3>5, <3>6 DEF BaseTypeOK
    <3>8. FilledAt(m)'
      BY <1>SchedCommit, <1>inv, <2>1, <2>2, <3>1, <3>3 DEF BaseTypeOK,
         At, Goto, SchedCommit, ShiftRegs, Filled, FilledAt, ReadyPCs,
         EnqPCs, CallPCs
    <3>9. \A p \in M \ {m} : SameFilled(p)
      BY <1>SchedCommit, <1>inv, <2>1, <2>2, <3>1, <3>3 DEF Goto,
         SchedCommit, BaseTypeOK, SameFilled, ShiftRegs
    <3> QED
      BY <1>inv, <3>7, <3>8, <3>9, FilledFrame DEF Inv1, Filled
  <2>3. CASE parking[reg[m]["park_g"]] # 3
    <3>1. UNCHANGED <<tgt, seen, cand, ret, status, lockedm, runq, allg,
                      deadq, allm, waitq, sleepers, nsleep, schedLock, togo,
                      found, proc>>
      BY <1>SchedCommit, <1>inv, <2>1, <2>3 DEF SchedCommit, threads,
         frames, gs, lists, waits, scan
    <3>2. reg' = Put(m, "park_g", None)
      BY <1>SchedCommit, <1>inv, <2>1, <2>3 DEF SchedCommit
    <3>3. PutRegs(m, "park_g", None)
      BY <1>inv, <2>1, <3>2, PutShape, RegNames
    <3>4. pc' \in [M -> PCs]
      BY <1>SchedCommit, <1>inv, <2>1, <2>3 DEF BaseTypeOK, SchedCommit,
         PCs, ReadyPCs, Goto
    <3>5. reg' \in [M -> [Registers -> G \cup {None}]]
      BY <3>3 DEF PutRegs
    <3>6. parking' \in [G -> 0..3]
      BY <1>SchedCommit, <1>inv, <2>1, <2>3 DEF BaseTypeOK, SchedCommit
    <3>7. BaseTypeOK'
      BY <1>inv, <3>1, <3>4, <3>5, <3>6 DEF BaseTypeOK
    <3>8. FilledAt(m)'
      BY <1>SchedCommit, <1>inv, <2>1, <2>3, <3>1, <3>3 DEF BaseTypeOK,
         At, Goto, SchedCommit, PutRegs, Filled, FilledAt, ReadyPCs,
         EnqPCs, CallPCs
    <3>9. \A p \in M \ {m} : SameFilled(p)
      BY <1>SchedCommit, <1>inv, <2>1, <2>3, <3>1, <3>3 DEF Goto,
         SchedCommit, BaseTypeOK, SameFilled, PutRegs
    <3> QED
      BY <1>inv, <3>7, <3>8, <3>9, FilledFrame DEF Inv1, Filled
  <2> QED
    BY <2>2, <2>3
<1>SchedWake. ASSUME NEW m \in M, SchedWake(m) PROVE Inv1'
  <2>1. reg[m]["enq"] \in G
    BY <1>SchedWake, <1>inv, Pointers DEF SchedWake, At
  <2>2. CASE status[reg[m]["enq"]] = "waiting"
    <3>1. UNCHANGED <<reg, tgt, seen, cand, parking, lockedm, runq, allg,
                      deadq, allm, waitq, sleepers, nsleep, schedLock, togo,
                      found, proc>>
      BY <1>SchedWake, <1>inv, <2>1, <2>2 DEF SchedWake, CallEnqueue,
         threads, frames, gs, lists, waits, scan
    <3>2. pc' \in [M -> PCs]
      BY <1>SchedWake, <1>inv, <2>1, <2>2 DEF BaseTypeOK, SchedWake,
         CallEnqueue, PCs, ReadyPCs, Goto
    <3>3. ret' \in [M -> {"app", "take", "poll", "polled"}]
      BY <1>SchedWake, <1>inv, <2>1, <2>2 DEF BaseTypeOK, SchedWake, CallEnqueue
    <3>4. status' = [status EXCEPT ![reg[m]["enq"]] = "runnable"]
      BY <1>SchedWake, <1>inv, <2>1, <2>2 DEF SchedWake, CallEnqueue, Goto
    <3>5. status \in [G -> Statuses]
      BY <1>inv, RegNames DEF BaseTypeOK, PCs, ReadyPCs, Statuses
    <3>6. status' \in [G -> Statuses]
      BY <3>4, <3>5, <2>1 DEF Statuses
    <3>7. BaseTypeOK'
      BY <1>inv, <3>1, <3>2, <3>3, <3>6 DEF BaseTypeOK
    <3>8. FilledAt(m)
      BY <1>inv DEF Filled
    <3>9. reg'[m]["park_g"] # None => FALSE
      BY <1>SchedWake, <1>inv, <2>1, <2>2, <3>1, <3>8 DEF BaseTypeOK, At,
         FilledAt, EnqPCs, CallPCs, SchedWake, CallEnqueue
    <3>10. FilledAt(m)'
      BY <1>SchedWake, <1>inv, <2>1, <2>2, <3>1, <3>8, <3>9 DEF
         BaseTypeOK, At, Goto, SchedWake, CallEnqueue, FilledAt, ReadyPCs,
         EnqPCs, CallPCs
    <3>11. \A p \in M \ {m} : SameFilled(p)
      BY <1>SchedWake, <1>inv, <2>1, <2>2, <3>1, <3>8, <3>9 DEF Goto,
         SchedWake, CallEnqueue, BaseTypeOK, SameFilled
    <3> QED
      BY <1>inv, <3>7, <3>10, <3>11, FilledFrame DEF Inv1, Filled
  <2>3. CASE status[reg[m]["enq"]] # "waiting"
    <3>1. UNCHANGED <<tgt, seen, cand, ret, status, parking, lockedm, runq,
                      allg, deadq, allm, waitq, sleepers, nsleep, schedLock,
                      togo, found, proc>>
      BY <1>SchedWake, <1>inv, <2>1, <2>3 DEF SchedWake, CallEnqueue,
         threads, frames, gs, lists, waits, scan
    <3>2. reg' = Put(m, "enq", None)
      BY <1>SchedWake, <1>inv, <2>1, <2>3 DEF SchedWake, CallEnqueue
    <3>3. PutRegs(m, "enq", None)
      BY <1>inv, <2>1, <3>2, PutShape, RegNames
    <3>4. pc' \in [M -> PCs]
      BY <1>SchedWake, <1>inv, <2>1, <2>3 DEF BaseTypeOK, SchedWake,
         CallEnqueue, PCs, ReadyPCs, Goto
    <3>5. reg' \in [M -> [Registers -> G \cup {None}]]
      BY <3>3 DEF PutRegs
    <3>6. BaseTypeOK'
      BY <1>inv, <3>1, <3>4, <3>5 DEF BaseTypeOK
    <3>7. FilledAt(m)
      BY <1>inv DEF Filled
    <3>8. reg'[m]["park_g"] # None => FALSE
      BY <1>SchedWake, <1>inv, <2>1, <2>3, <3>1, <3>3, <3>7 DEF
         BaseTypeOK, At, FilledAt, EnqPCs, CallPCs, SchedWake,
         CallEnqueue, PutRegs
    <3>9. FilledAt(m)'
      BY <1>SchedWake, <1>inv, <2>1, <2>3, <3>1, <3>3, <3>7, <3>8 DEF
         BaseTypeOK, At, Goto, SchedWake, CallEnqueue, PutRegs, FilledAt,
         ReadyPCs, EnqPCs, CallPCs
    <3>10. \A p \in M \ {m} : SameFilled(p)
      BY <1>SchedWake, <1>inv, <2>1, <2>3, <3>1, <3>3, <3>7, <3>8 DEF
         Goto, SchedWake, CallEnqueue, BaseTypeOK, SameFilled, PutRegs
    <3> QED
      BY <1>inv, <3>6, <3>9, <3>10, FilledFrame DEF Inv1, Filled
  <2> QED
    BY <2>2, <2>3
<1>PollDue. ASSUME NEW m \in M, NEW g \in G, PollDue(m, g) PROVE Inv1'
  <2>1. UNCHANGED <<reg, seen, cand, status, parking, lockedm, runq, allg,
                    deadq, allm, waitq, nsleep, schedLock, togo, found, proc>>
    BY <1>PollDue, <1>inv DEF PollDue, CallReady, threads, frames, gs,
       lists, waits, scan
  <2>2. pc' \in [M -> PCs]
    BY <1>PollDue, <1>inv DEF BaseTypeOK, PollDue, CallReady, PCs, ReadyPCs,
       Goto
  <2>3. tgt' \in [M -> G \cup {None}]
    BY <1>PollDue, <1>inv DEF BaseTypeOK, PollDue, CallReady
  <2>4. ret' \in [M -> {"app", "take", "poll", "polled"}]
    BY <1>PollDue, <1>inv DEF BaseTypeOK, PollDue, CallReady
  <2>5. sleepers' \subseteq G
    BY <1>PollDue, <1>inv DEF BaseTypeOK, PollDue, CallReady
  <2>6. BaseTypeOK'
    BY <1>inv, <2>1, <2>2, <2>3, <2>4, <2>5 DEF BaseTypeOK
  <2>7. FilledAt(m)'
    BY <1>PollDue, <1>inv, <2>1 DEF BaseTypeOK, At, Goto, PollDue,
       CallReady, Filled, FilledAt, ReadyPCs, EnqPCs, CallPCs
  <2>8. \A p \in M \ {m} : SameFilled(p)
    BY <1>PollDue, <1>inv, <2>1 DEF Goto, PollDue, CallReady, BaseTypeOK,
       SameFilled
  <2> QED
    BY <1>inv, <2>6, <2>7, <2>8, FilledFrame DEF Inv1, Filled
<1>PollDrop. ASSUME NEW m \in M, PollDrop(m) PROVE Inv1'
  <2>1. UNCHANGED <<reg, tgt, seen, cand, ret, status, parking, lockedm, runq,
                    allg, deadq, allm, waitq, sleepers, schedLock, togo,
                    found, proc>>
    BY <1>PollDrop, <1>inv DEF PollDrop, threads, frames, gs, lists, waits, scan
  <2>2. pc' \in [M -> PCs]
    BY <1>PollDrop, <1>inv DEF BaseTypeOK, PollDrop, PCs, ReadyPCs, Goto
  <2>3. nsleep' \in Int
    BY <1>PollDrop, <1>inv DEF BaseTypeOK, PollDrop
  <2>4. BaseTypeOK'
    BY <1>inv, <2>1, <2>2, <2>3 DEF BaseTypeOK
  <2>5. FilledAt(m)'
    BY <1>PollDrop, <1>inv, <2>1 DEF BaseTypeOK, At, Goto, PollDrop, Filled,
       FilledAt, ReadyPCs, EnqPCs, CallPCs
  <2>6. \A p \in M \ {m} : SameFilled(p)
    BY <1>PollDrop, <1>inv, <2>1 DEF Goto, PollDrop, BaseTypeOK, SameFilled
  <2> QED
    BY <1>inv, <2>4, <2>5, <2>6, FilledFrame DEF Inv1, Filled
<1>PollDone. ASSUME NEW m \in M, PollDone(m) PROVE Inv1'
  <2>1. UNCHANGED <<reg, tgt, seen, cand, ret, status, parking, lockedm, runq,
                    allg, deadq, allm, waitq, sleepers, nsleep, schedLock,
                    togo, found, proc>>
    BY <1>PollDone, <1>inv DEF PollDone, threads, frames, gs, lists, waits, scan
  <2>2. pc' \in [M -> PCs]
    BY <1>PollDone, <1>inv DEF BaseTypeOK, PollDone, PCs, ReadyPCs, Goto
  <2>3. BaseTypeOK'
    BY <1>inv, <2>1, <2>2 DEF BaseTypeOK
  <2>4. FilledAt(m)'
    BY <1>PollDone, <1>inv, <2>1 DEF BaseTypeOK, At, Goto, PollDone, Filled,
       FilledAt, ReadyPCs, EnqPCs, CallPCs
  <2>5. \A p \in M \ {m} : SameFilled(p)
    BY <1>PollDone, <1>inv, <2>1 DEF Goto, PollDone, BaseTypeOK, SameFilled
  <2> QED
    BY <1>inv, <2>3, <2>4, <2>5, FilledFrame DEF Inv1, Filled
<1>SchedRun. ASSUME NEW m \in M, SchedRun(m) PROVE Inv1'
  <2>1. reg[m]["next"] \in G
    BY <1>SchedRun, <1>inv, Pointers DEF SchedRun, At
  <2>2. UNCHANGED <<tgt, seen, cand, ret, parking, lockedm, runq, allg, deadq,
                    allm, waitq, sleepers, nsleep, schedLock, togo, found,
                    proc>>
    BY <1>SchedRun, <1>inv, <2>1 DEF SchedRun, threads, frames, gs, lists,
       waits, scan
  <2>3. reg' = Move(m, "next", m, "curg")
    BY <1>SchedRun, <1>inv, <2>1 DEF SchedRun
  <2>4. ShiftRegs(m, "next", "curg")
    BY <1>inv, <2>1, <2>3, ShiftShape, RegNames
  <2>5. pc' \in [M -> PCs]
    BY <1>SchedRun, <1>inv, <2>1 DEF BaseTypeOK, SchedRun, PCs, ReadyPCs, Goto
  <2>6. reg' \in [M -> [Registers -> G \cup {None}]]
    BY <2>4 DEF ShiftRegs
  <2>7. status' \in [G -> Statuses]
    BY <1>SchedRun, <1>inv, <2>1 DEF BaseTypeOK, SchedRun, Statuses
  <2>8. BaseTypeOK'
    BY <1>inv, <2>2, <2>5, <2>6, <2>7 DEF BaseTypeOK
  <2>9. pc'[m] = "app" /\ reg[m]["next"] # None
    BY <1>SchedRun, <1>inv, <2>1 DEF BaseTypeOK, At, Goto, SchedRun,
       CallPCs, ReadyPCs, EnqPCs, Filled, FilledAt
  <2>10. FilledAt(m)'
    BY <1>SchedRun, <1>inv, <2>1, <2>2, <2>4, ZenonT(60) DEF BaseTypeOK, At, Goto,
       SchedRun, ShiftRegs, Filled, FilledAt, ReadyPCs, EnqPCs, CallPCs
  <2>11. \A p \in M \ {m} : SameFilled(p)
    BY <1>SchedRun, <1>inv, <2>1, <2>2, <2>4 DEF Goto, SchedRun, BaseTypeOK,
       SameFilled, ShiftRegs
  <2> QED
    BY <1>inv, <2>8, <2>10, <2>11, FilledFrame DEF Inv1, Filled
<1>FreeDead. ASSUME NEW m \in M, FreeDead(m) PROVE Inv1'
  <2>1. UNCHANGED <<pc, reg, tgt, seen, cand, ret, runq, allm, waitq,
                    sleepers, nsleep, schedLock, togo, found, proc>>
    BY <1>FreeDead, <1>inv DEF FreeDead, threads, frames, gs, lists, waits, scan
  <2>2. deadq' \subseteq G
    BY <1>FreeDead, <1>inv DEF BaseTypeOK, FreeDead
  <2>3. allg' \in Seq(G)
    BY <1>FreeDead, <1>inv, SeqTypes DEF BaseTypeOK, FreeDead
  <2>4. status' \in [G -> Statuses]
    BY <1>FreeDead, <1>inv DEF BaseTypeOK, FreeDead, Statuses
  <2>5. parking' \in [G -> 0..3]
    BY <1>FreeDead, <1>inv DEF BaseTypeOK, FreeDead
  <2>6. lockedm' \in [G -> M \cup {None}]
    BY <1>FreeDead, <1>inv DEF BaseTypeOK, FreeDead
  <2>7. BaseTypeOK'
    BY <1>inv, <2>1, <2>2, <2>3, <2>4, <2>5, <2>6 DEF BaseTypeOK
  <2>8. Filled'
    BY <1>inv, <2>1 DEF Filled, FilledAt
  <2> QED
    BY <1>inv, <2>7, <2>8, FilledFrame DEF Inv1, Filled
<1>Dequeue. ASSUME NEW m \in M, Dequeue(m) PROVE Inv1'
  <2>1. PICK i \in DOMAIN runq : reg' = Put(m, "next", runq[i]) /\ runq' =
      Unlink(runq, i)
    BY <1>Dequeue DEF Dequeue, Eligible
  <2>2. runq \in Seq(G) /\ runq[i] \in G
    BY <1>inv, SeqTypes DEF BaseTypeOK
  <2>3. UNCHANGED <<tgt, seen, cand, ret, status, parking, lockedm, allg,
                    deadq, allm, waitq, sleepers, nsleep, schedLock, togo,
                    found, proc>>
    BY <1>Dequeue, <1>inv, <2>1, <2>2 DEF Dequeue, threads, frames, gs,
       lists, waits, scan
  <2>4. reg' = Put(m, "next", runq[i])
    BY <1>Dequeue, <1>inv, <2>1, <2>2 DEF Dequeue
  <2>5. PutRegs(m, "next", runq[i])
    BY <1>inv, <2>1, <2>2, <2>4, PutShape, RegNames
  <2>6. pc' \in [M -> PCs]
    BY <1>Dequeue, <1>inv, <2>1, <2>2 DEF BaseTypeOK, Dequeue, PCs,
       ReadyPCs, Goto
  <2>7. reg' \in [M -> [Registers -> G \cup {None}]]
    BY <2>5 DEF PutRegs
  <2>8. runq' \in Seq(G)
    BY <1>Dequeue, <1>inv, <2>1, <2>2, SeqTypes DEF BaseTypeOK, Dequeue
  <2>9. BaseTypeOK'
    BY <1>inv, <2>3, <2>6, <2>7, <2>8 DEF BaseTypeOK
  <2>10. FilledAt(m)
    BY <1>inv DEF Filled
  <2>11. reg'[m]["park_g"] # None => FALSE
    BY <1>Dequeue, <1>inv, <2>1, <2>2, <2>3, <2>5, <2>10 DEF BaseTypeOK, At,
       FilledAt, EnqPCs, CallPCs, Dequeue, PutRegs
  <2>12. FilledAt(m)'
    BY <1>Dequeue, <1>inv, <2>1, <2>2, <2>3, <2>5, <2>10, <2>11 DEF
       BaseTypeOK, At, Goto, Dequeue, PutRegs, FilledAt, ReadyPCs, EnqPCs,
       CallPCs
  <2>13. \A p \in M \ {m} : SameFilled(p)
    BY <1>Dequeue, <1>inv, <2>1, <2>2, <2>3, <2>5, <2>10, <2>11 DEF Goto,
       Dequeue, BaseTypeOK, SameFilled, PutRegs
  <2> QED
    BY <1>inv, <2>9, <2>12, <2>13, FilledFrame DEF Inv1, Filled
<1>DequeueNone. ASSUME NEW m \in M, DequeueNone(m) PROVE Inv1'
  <2>1. UNCHANGED <<reg, tgt, seen, cand, ret, status, parking, lockedm, runq,
                    allg, deadq, allm, waitq, sleepers, nsleep, schedLock,
                    togo, found, proc>>
    BY <1>DequeueNone, <1>inv DEF DequeueNone, threads, frames, gs, lists,
       waits, scan
  <2>2. pc' \in [M -> PCs]
    BY <1>DequeueNone, <1>inv DEF BaseTypeOK, DequeueNone, PCs, ReadyPCs, Goto
  <2>3. BaseTypeOK'
    BY <1>inv, <2>1, <2>2 DEF BaseTypeOK
  <2>4. FilledAt(m)'
    BY <1>DequeueNone, <1>inv, <2>1 DEF BaseTypeOK, At, Goto, DequeueNone,
       Filled, FilledAt, ReadyPCs, EnqPCs, CallPCs
  <2>5. \A p \in M \ {m} : SameFilled(p)
    BY <1>DequeueNone, <1>inv, <2>1 DEF Goto, DequeueNone, BaseTypeOK,
       SameFilled
  <2> QED
    BY <1>inv, <2>3, <2>4, <2>5, FilledFrame DEF Inv1, Filled
<1>ScanBegin. ASSUME ScanBegin PROVE Inv1'
  <2>1. UNCHANGED <<reg, tgt, seen, cand, ret, status, parking, lockedm, runq,
                    allg, deadq, allm, waitq, sleepers, nsleep, proc>>
    BY <1>ScanBegin, <1>inv DEF ScanBegin, threads, frames, gs, lists,
       waits, scan
  <2>2. pc' \in [M -> PCs]
    BY <1>ScanBegin, <1>inv DEF BaseTypeOK, ScanBegin, PCs, ReadyPCs, Goto
  <2>3. schedLock' \in {None, M0}
    BY <1>ScanBegin, <1>inv DEF BaseTypeOK, ScanBegin, threads, frames, gs,
       lists, waits, scan
  <2>4. togo' \in Seq(G)
    BY <1>ScanBegin, <1>inv, SeqTypes DEF BaseTypeOK, ScanBegin
  <2>5. found' \subseteq {"runnable", "running", "waiting"}
    BY <1>ScanBegin, <1>inv DEF BaseTypeOK, ScanBegin, Statuses
  <2>6. BaseTypeOK'
    BY <1>inv, <2>1, <2>2, <2>3, <2>4, <2>5 DEF BaseTypeOK
  <2>7. FilledAt(M0)'
    BY <1>ScanBegin, <1>inv, <2>1 DEF BaseTypeOK, At, Goto, ScanBegin,
       Filled, FilledAt, ReadyPCs, EnqPCs, CallPCs
  <2>8. \A p \in M \ {M0} : SameFilled(p)
    BY <1>ScanBegin, <1>inv, <2>1 DEF Goto, ScanBegin, BaseTypeOK, SameFilled
  <2> QED
    BY <1>inv, <2>6, <2>7, <2>8, FilledFrame DEF Inv1, Filled
<1>ScanRead. ASSUME ScanRead PROVE Inv1'
  <2>1. UNCHANGED <<pc, reg, tgt, seen, cand, ret, status, parking, lockedm,
                    runq, allg, deadq, allm, waitq, sleepers, nsleep,
                    schedLock, proc>>
    BY <1>ScanRead, <1>inv DEF ScanRead, threads, frames, gs, lists, waits, scan
  <2>2. togo' \in Seq(G)
    BY <1>ScanRead, <1>inv, SeqTypes DEF BaseTypeOK, ScanRead
  <2>3. found' \subseteq {"runnable", "running", "waiting"}
    BY <1>ScanRead, <1>inv DEF BaseTypeOK, ScanRead, Statuses
  <2>4. BaseTypeOK'
    BY <1>inv, <2>1, <2>2, <2>3 DEF BaseTypeOK
  <2>5. Filled'
    BY <1>inv, <2>1 DEF Filled, FilledAt
  <2> QED
    BY <1>inv, <2>4, <2>5, FilledFrame DEF Inv1, Filled
<1>ScanEnd. ASSUME ScanEnd PROVE Inv1'
  <2>1. UNCHANGED <<reg, tgt, seen, cand, ret, status, parking, lockedm, runq,
                    allg, deadq, allm, waitq, sleepers, nsleep, togo>>
    BY <1>ScanEnd, <1>inv DEF ScanEnd, threads, frames, gs, lists, waits, scan
  <2>2. pc' \in [M -> PCs]
    BY <1>ScanEnd, <1>inv DEF BaseTypeOK, ScanEnd, PCs, ReadyPCs, Goto
  <2>3. schedLock' \in {None, M0}
    BY <1>ScanEnd, <1>inv DEF BaseTypeOK, ScanEnd, threads, frames, gs,
       lists, waits, scan
  <2>4. found' \subseteq {"runnable", "running", "waiting"}
    BY <1>ScanEnd, <1>inv DEF BaseTypeOK, ScanEnd, Statuses
  <2>5. proc' \in {"running", "exited", "deadlock"}
    BY <1>ScanEnd, <1>inv DEF BaseTypeOK, ScanEnd, Verdict
  <2>6. BaseTypeOK'
    BY <1>inv, <2>1, <2>2, <2>3, <2>4, <2>5 DEF BaseTypeOK
  <2>7. FilledAt(M0)'
    BY <1>ScanEnd, <1>inv, <2>1 DEF BaseTypeOK, At, Goto, ScanEnd, Filled,
       FilledAt, ReadyPCs, EnqPCs, CallPCs
  <2>8. \A p \in M \ {M0} : SameFilled(p)
    BY <1>ScanEnd, <1>inv, <2>1 DEF Goto, ScanEnd, BaseTypeOK, SameFilled
  <2> QED
    BY <1>inv, <2>6, <2>7, <2>8, FilledFrame DEF Inv1, Filled
<1>Go. ASSUME NEW m \in M, NEW g \in G, Go(m, g) PROVE Inv1'
  <2>1. UNCHANGED <<tgt, seen, cand, ret, parking, lockedm, runq, deadq, allm,
                    waitq, sleepers, nsleep, schedLock, togo, found, proc>>
    BY <1>Go, <1>inv DEF Go, NewG, threads, frames, gs, lists, waits, scan
  <2>2. reg' = Put(m, "enq", g)
    BY <1>Go, <1>inv DEF Go, NewG
  <2>3. PutRegs(m, "enq", g)
    BY <1>inv, <2>2, PutShape, RegNames
  <2>4. pc' \in [M -> PCs]
    BY <1>Go, <1>inv DEF BaseTypeOK, Go, NewG, PCs, ReadyPCs, Goto
  <2>5. status' \in [G -> Statuses]
    BY <1>Go, <1>inv DEF BaseTypeOK, Go, NewG, Statuses
  <2>6. allg' \in Seq(G)
    BY <1>Go, <1>inv, SeqTypes DEF BaseTypeOK, Go, NewG
  <2>7. reg' \in [M -> [Registers -> G \cup {None}]]
    BY <2>3 DEF PutRegs
  <2>8. BaseTypeOK'
    BY <1>inv, <2>1, <2>4, <2>5, <2>6, <2>7 DEF BaseTypeOK
  <2>9. FilledAt(m)'
    BY <1>Go, <1>inv, <2>1, <2>3, ZenonT(60) DEF BaseTypeOK, At, Goto, Go, NewG,
       PutRegs, Filled, FilledAt, ReadyPCs, EnqPCs, CallPCs
  <2>10. \A p \in M \ {m} : SameFilled(p)
    BY <1>Go, <1>inv, <2>1, <2>3 DEF Goto, Go, NewG, BaseTypeOK, SameFilled,
       PutRegs
  <2> QED
    BY <1>inv, <2>8, <2>9, <2>10, FilledFrame DEF Inv1, Filled
<1>StartLocked. ASSUME NEW m \in M, NEW g \in G, StartLocked(m, g) PROVE Inv1'
  <2>1. UNCHANGED <<tgt, seen, cand, ret, parking, lockedm, runq, deadq, allm,
                    waitq, sleepers, nsleep, schedLock, togo, found, proc>>
    BY <1>StartLocked, <1>inv DEF StartLocked, NewG, threads, frames, gs,
       lists, waits, scan
  <2>2. reg' = Put(m, "enq", g)
    BY <1>StartLocked, <1>inv DEF StartLocked, NewG
  <2>3. PutRegs(m, "enq", g)
    BY <1>inv, <2>2, PutShape, RegNames
  <2>4. pc' \in [M -> PCs]
    BY <1>StartLocked, <1>inv DEF BaseTypeOK, StartLocked, NewG, PCs,
       ReadyPCs, Goto
  <2>5. status' \in [G -> Statuses]
    BY <1>StartLocked, <1>inv DEF BaseTypeOK, StartLocked, NewG, Statuses
  <2>6. allg' \in Seq(G)
    BY <1>StartLocked, <1>inv, SeqTypes DEF BaseTypeOK, StartLocked, NewG
  <2>7. reg' \in [M -> [Registers -> G \cup {None}]]
    BY <2>3 DEF PutRegs
  <2>8. BaseTypeOK'
    BY <1>inv, <2>1, <2>4, <2>5, <2>6, <2>7 DEF BaseTypeOK
  <2>9. FilledAt(m)'
    BY <1>StartLocked, <1>inv, <2>1, <2>3, ZenonT(60) DEF BaseTypeOK, At, Goto,
       StartLocked, NewG, PutRegs, Filled, FilledAt, ReadyPCs, EnqPCs,
       CallPCs
  <2>10. \A p \in M \ {m} : SameFilled(p)
    BY <1>StartLocked, <1>inv, <2>1, <2>3 DEF Goto, StartLocked, NewG,
       BaseTypeOK, SameFilled, PutRegs
  <2> QED
    BY <1>inv, <2>8, <2>9, <2>10, FilledFrame DEF Inv1, Filled
<1>Wake. ASSUME NEW m \in M, NEW g \in G, Wake(m, g) PROVE Inv1'
  <2>1. UNCHANGED <<reg, seen, cand, status, parking, lockedm, runq, allg,
                    deadq, allm, sleepers, nsleep, schedLock, togo, found,
                    proc>>
    BY <1>Wake, <1>inv DEF Wake, CallReady, threads, frames, gs, lists,
       waits, scan
  <2>2. pc' \in [M -> PCs]
    BY <1>Wake, <1>inv DEF BaseTypeOK, Wake, CallReady, PCs, ReadyPCs, Goto
  <2>3. tgt' \in [M -> G \cup {None}]
    BY <1>Wake, <1>inv DEF BaseTypeOK, Wake, CallReady
  <2>4. ret' \in [M -> {"app", "take", "poll", "polled"}]
    BY <1>Wake, <1>inv DEF BaseTypeOK, Wake, CallReady
  <2>5. waitq' \subseteq G
    BY <1>Wake, <1>inv DEF BaseTypeOK, Wake, CallReady
  <2>6. BaseTypeOK'
    BY <1>inv, <2>1, <2>2, <2>3, <2>4, <2>5 DEF BaseTypeOK
  <2>7. FilledAt(m)'
    BY <1>Wake, <1>inv, <2>1 DEF BaseTypeOK, At, Goto, Wake, CallReady,
       Filled, FilledAt, ReadyPCs, EnqPCs, CallPCs
  <2>8. \A p \in M \ {m} : SameFilled(p)
    BY <1>Wake, <1>inv, <2>1 DEF Goto, Wake, CallReady, BaseTypeOK, SameFilled
  <2> QED
    BY <1>inv, <2>6, <2>7, <2>8, FilledFrame DEF Inv1, Filled
<1>SpawnThread. ASSUME NEW m \in M, NEW n \in M, SpawnThread(m, n) PROVE Inv1'
  <2>1. reg[m]["enq"] \in G
    BY <1>SpawnThread, <1>inv, Pointers DEF SpawnThread, At
  <2>2. UNCHANGED <<tgt, seen, cand, ret, status, parking, runq, allg, deadq,
                    allm, waitq, sleepers, nsleep, schedLock, togo, found,
                    proc>>
    BY <1>SpawnThread, <1>inv, <2>1 DEF SpawnThread, threads, frames, gs,
       lists, waits, scan
  <2>3. reg' = Move(m, "enq", n, "start")
    BY <1>SpawnThread, <1>inv, <2>1 DEF SpawnThread
  <2>4. HandRegs(m, "enq", n, "start")
    BY <1>inv, <2>1, <2>3, HandShape, RegNames
  <2>5. pc' \in [M -> PCs]
    BY <1>SpawnThread, <1>inv, <2>1 DEF BaseTypeOK, SpawnThread, PCs,
       ReadyPCs, Goto, At
  <2>6. reg' \in [M -> [Registers -> G \cup {None}]]
    BY <2>4 DEF HandRegs
  <2>7. lockedm' \in [G -> M \cup {None}]
    BY <1>SpawnThread, <1>inv, <2>1 DEF BaseTypeOK, SpawnThread
  <2>8. BaseTypeOK'
    BY <1>inv, <2>2, <2>5, <2>6, <2>7 DEF BaseTypeOK
  <2>9. FilledAt(m)'
    BY <1>SpawnThread, <1>inv, <2>1, <2>2, <2>4, RegNames, ZenonT(60)
       DEF BaseTypeOK, At, Goto, SpawnThread, HandRegs, Filled, FilledAt,
           ReadyPCs, EnqPCs, CallPCs
  <2>10. \A p \in M \ {m, n} : SameFilled(p)
    BY <1>SpawnThread, <1>inv, <2>1, <2>2, <2>4, RegNames DEF Goto,
       SpawnThread, BaseTypeOK, SameFilled, HandRegs
  <2>11. n # m => FilledAt(n)'
    BY <1>SpawnThread, <1>inv, <2>1, <2>2, <2>4, RegNames, ZenonT(60)
       DEF At, Goto, SpawnThread, BaseTypeOK, HandRegs, Filled, FilledAt,
           ReadyPCs, EnqPCs, CallPCs
  <2> QED
    BY <1>inv, <2>8, <2>9, <2>10, <2>11, FilledFrame DEF Inv1, Filled
<1>SpawnWorker. ASSUME NEW m \in M, NEW n \in M, SpawnWorker(m, n) PROVE Inv1'
  <2>1. UNCHANGED <<reg, tgt, seen, cand, ret, status, parking, lockedm, runq,
                    allg, deadq, allm, waitq, sleepers, nsleep, schedLock,
                    togo, found, proc>>
    BY <1>SpawnWorker, <1>inv DEF SpawnWorker, threads, frames, gs, lists,
       waits, scan
  <2>2. pc' \in [M -> PCs]
    BY <1>SpawnWorker, <1>inv DEF BaseTypeOK, SpawnWorker, PCs, ReadyPCs,
       Goto, At
  <2>3. BaseTypeOK'
    BY <1>inv, <2>1, <2>2 DEF BaseTypeOK
  <2>4. FilledAt(m)'
    BY <1>SpawnWorker, <1>inv, <2>1 DEF BaseTypeOK, At, Goto, SpawnWorker,
       Filled, FilledAt, ReadyPCs, EnqPCs, CallPCs
  <2>5. \A p \in M \ {m, n} : SameFilled(p)
    BY <1>SpawnWorker, <1>inv, <2>1 DEF Goto, SpawnWorker, BaseTypeOK,
       SameFilled
  <2>6. n # m => FilledAt(n)'
    BY <1>SpawnWorker, <1>inv, <2>1 DEF At, Goto, SpawnWorker, BaseTypeOK,
       Filled, FilledAt, ReadyPCs, EnqPCs, CallPCs
  <2> QED
    BY <1>inv, <2>3, <2>4, <2>5, <2>6, FilledFrame DEF Inv1, Filled
<1>SpawnFail. ASSUME NEW m \in M, SpawnFail(m) PROVE Inv1'
  <2>1. reg[m]["enq"] \in G
    BY <1>SpawnFail, <1>inv, Pointers DEF SpawnFail, At
  <2>2. UNCHANGED <<tgt, seen, cand, ret, parking, lockedm, runq, deadq, allm,
                    waitq, sleepers, nsleep, schedLock, togo, found, proc>>
    BY <1>SpawnFail, <1>inv, <2>1 DEF SpawnFail, threads, frames, gs, lists,
       waits, scan
  <2>3. reg' = Put(m, "enq", None)
    BY <1>SpawnFail, <1>inv, <2>1 DEF SpawnFail
  <2>4. PutRegs(m, "enq", None)
    BY <1>inv, <2>1, <2>3, PutShape, RegNames
  <2>5. pc' \in [M -> PCs]
    BY <1>SpawnFail, <1>inv, <2>1 DEF BaseTypeOK, SpawnFail, PCs, ReadyPCs, Goto
  <2>6. allg' \in Seq(G)
    BY <1>SpawnFail, <1>inv, <2>1, SeqTypes DEF BaseTypeOK, SpawnFail
  <2>7. status' \in [G -> Statuses]
    BY <1>SpawnFail, <1>inv, <2>1 DEF BaseTypeOK, SpawnFail, Statuses
  <2>8. reg' \in [M -> [Registers -> G \cup {None}]]
    BY <2>4 DEF PutRegs
  <2>9. BaseTypeOK'
    BY <1>inv, <2>2, <2>5, <2>6, <2>7, <2>8 DEF BaseTypeOK
  <2>10. FilledAt(m)'
    BY <1>SpawnFail, <1>inv, <2>1, <2>2, <2>4 DEF BaseTypeOK, At, Goto,
       SpawnFail, PutRegs, Filled, FilledAt, ReadyPCs, EnqPCs, CallPCs
  <2>11. \A p \in M \ {m} : SameFilled(p)
    BY <1>SpawnFail, <1>inv, <2>1, <2>2, <2>4 DEF Goto, SpawnFail,
       BaseTypeOK, SameFilled, PutRegs
  <2> QED
    BY <1>inv, <2>9, <2>10, <2>11, FilledFrame DEF Inv1, Filled
<1>Gosched. ASSUME NEW m \in M, Gosched(m) PROVE Inv1'
  <2>1. reg[m]["curg"] \in G
    BY <1>Gosched, <1>inv, Pointers DEF Gosched, At
  <2>2. UNCHANGED <<tgt, seen, cand, ret, parking, lockedm, runq, allg, deadq,
                    allm, waitq, sleepers, nsleep, schedLock, togo, found,
                    proc>>
    BY <1>Gosched, <1>inv, <2>1 DEF Gosched, SwitchToG0, threads, frames,
       gs, lists, waits, scan
  <2>3. reg' = Move(m, "curg", m, "enqg")
    BY <1>Gosched, <1>inv, <2>1 DEF Gosched, SwitchToG0
  <2>4. ShiftRegs(m, "curg", "enqg")
    BY <1>inv, <2>1, <2>3, ShiftShape, RegNames
  <2>5. pc' \in [M -> PCs]
    BY <1>Gosched, <1>inv, <2>1 DEF BaseTypeOK, Gosched, SwitchToG0, PCs,
       ReadyPCs, Goto
  <2>6. status' \in [G -> Statuses]
    BY <1>Gosched, <1>inv, <2>1 DEF BaseTypeOK, Gosched, SwitchToG0, Statuses
  <2>7. reg' \in [M -> [Registers -> G \cup {None}]]
    BY <2>4 DEF ShiftRegs
  <2>8. BaseTypeOK'
    BY <1>inv, <2>2, <2>5, <2>6, <2>7 DEF BaseTypeOK
  <2>9. FilledAt(m)'
    BY <1>Gosched, <1>inv, <2>1, <2>2, <2>4 DEF BaseTypeOK, At, Goto,
       Gosched, SwitchToG0, ShiftRegs, Filled, FilledAt, ReadyPCs, EnqPCs,
       CallPCs
  <2>10. \A p \in M \ {m} : SameFilled(p)
    BY <1>Gosched, <1>inv, <2>1, <2>2, <2>4 DEF Goto, Gosched, SwitchToG0,
       BaseTypeOK, SameFilled, ShiftRegs
  <2> QED
    BY <1>inv, <2>8, <2>9, <2>10, FilledFrame DEF Inv1, Filled
<1>ParkRegister. ASSUME NEW m \in M, ParkRegister(m) PROVE Inv1'
  <2>1. reg[m]["curg"] \in G
    BY <1>ParkRegister, <1>inv, Pointers DEF ParkRegister, At
  <2>2. UNCHANGED <<reg, tgt, seen, cand, ret, lockedm, runq, allg, deadq,
                    allm, sleepers, nsleep, schedLock, togo, found, proc>>
    BY <1>ParkRegister, <1>inv, <2>1 DEF ParkRegister, threads, frames, gs,
       lists, waits, scan
  <2>3. pc' \in [M -> PCs]
    BY <1>ParkRegister, <1>inv, <2>1 DEF BaseTypeOK, ParkRegister, PCs,
       ReadyPCs, Goto
  <2>4. status' \in [G -> Statuses]
    BY <1>ParkRegister, <1>inv, <2>1 DEF BaseTypeOK, ParkRegister, Statuses
  <2>5. parking' \in [G -> 0..3]
    BY <1>ParkRegister, <1>inv, <2>1 DEF BaseTypeOK, ParkRegister
  <2>6. waitq' \subseteq G
    BY <1>ParkRegister, <1>inv, <2>1 DEF BaseTypeOK, ParkRegister
  <2>7. BaseTypeOK'
    BY <1>inv, <2>2, <2>3, <2>4, <2>5, <2>6 DEF BaseTypeOK
  <2>8. FilledAt(m)'
    BY <1>ParkRegister, <1>inv, <2>1, <2>2 DEF BaseTypeOK, At, Goto,
       ParkRegister, Filled, FilledAt, ReadyPCs, EnqPCs, CallPCs
  <2>9. \A p \in M \ {m} : SameFilled(p)
    BY <1>ParkRegister, <1>inv, <2>1, <2>2 DEF Goto, ParkRegister,
       BaseTypeOK, SameFilled
  <2> QED
    BY <1>inv, <2>7, <2>8, <2>9, FilledFrame DEF Inv1, Filled
<1>Sleep. ASSUME NEW m \in M, Sleep(m) PROVE Inv1'
  <2>1. reg[m]["curg"] \in G
    BY <1>Sleep, <1>inv, Pointers DEF Sleep, At
  <2>2. UNCHANGED <<reg, tgt, seen, cand, ret, lockedm, runq, allg, deadq,
                    allm, waitq, schedLock, togo, found, proc>>
    BY <1>Sleep, <1>inv, <2>1 DEF Sleep, threads, frames, gs, lists, waits, scan
  <2>3. pc' \in [M -> PCs]
    BY <1>Sleep, <1>inv, <2>1 DEF BaseTypeOK, Sleep, PCs, ReadyPCs, Goto
  <2>4. status' \in [G -> Statuses]
    BY <1>Sleep, <1>inv, <2>1 DEF BaseTypeOK, Sleep, Statuses
  <2>5. parking' \in [G -> 0..3]
    BY <1>Sleep, <1>inv, <2>1 DEF BaseTypeOK, Sleep
  <2>6. sleepers' \subseteq G
    BY <1>Sleep, <1>inv, <2>1 DEF BaseTypeOK, Sleep
  <2>7. nsleep' \in Int
    BY <1>Sleep, <1>inv, <2>1 DEF BaseTypeOK, Sleep
  <2>8. BaseTypeOK'
    BY <1>inv, <2>2, <2>3, <2>4, <2>5, <2>6, <2>7 DEF BaseTypeOK
  <2>9. FilledAt(m)'
    BY <1>Sleep, <1>inv, <2>1, <2>2 DEF BaseTypeOK, At, Goto, Sleep, Filled,
       FilledAt, ReadyPCs, EnqPCs, CallPCs
  <2>10. \A p \in M \ {m} : SameFilled(p)
    BY <1>Sleep, <1>inv, <2>1, <2>2 DEF Goto, Sleep, BaseTypeOK, SameFilled
  <2> QED
    BY <1>inv, <2>8, <2>9, <2>10, FilledFrame DEF Inv1, Filled
<1>ParkSwitch. ASSUME NEW m \in M, ParkSwitch(m) PROVE Inv1'
  <2>1. reg[m]["curg"] \in G
    BY <1>ParkSwitch, <1>inv, Pointers DEF ParkSwitch, At
  <2>2. CASE parking[reg[m]["curg"]] = 1
    <3>1. UNCHANGED <<tgt, seen, cand, ret, status, lockedm, runq, allg,
                      deadq, allm, waitq, sleepers, nsleep, schedLock, togo,
                      found, proc>>
      BY <1>ParkSwitch, <1>inv, <2>1, <2>2 DEF ParkSwitch, SwitchToG0,
         threads, frames, gs, lists, waits, scan
    <3>2. reg' = Move(m, "curg", m, "park_g")
      BY <1>ParkSwitch, <1>inv, <2>1, <2>2 DEF ParkSwitch, SwitchToG0
    <3>3. ShiftRegs(m, "curg", "park_g")
      BY <1>inv, <2>1, <3>2, ShiftShape, RegNames
    <3>4. pc' \in [M -> PCs]
      BY <1>ParkSwitch, <1>inv, <2>1, <2>2 DEF BaseTypeOK, ParkSwitch,
         SwitchToG0, PCs, ReadyPCs, Goto
    <3>5. reg' \in [M -> [Registers -> G \cup {None}]]
      BY <3>3 DEF ShiftRegs
    <3>6. parking' = [parking EXCEPT ![reg[m]["curg"]] = 2]
      BY <1>ParkSwitch, <1>inv, <2>1, <2>2 DEF ParkSwitch, SwitchToG0, Goto
    <3>7. parking \in [G -> 0..3]
      BY <1>inv, RegNames DEF BaseTypeOK, PCs, ReadyPCs, Statuses
    <3>8. parking' \in [G -> 0..3]
      BY <3>6, <3>7, <2>1 DEF Statuses
    <3>9. BaseTypeOK'
      BY <1>inv, <3>1, <3>4, <3>5, <3>8 DEF BaseTypeOK
    <3>10. FilledAt(m)'
      BY <1>ParkSwitch, <1>inv, <2>1, <2>2, <3>1, <3>3 DEF BaseTypeOK, At,
         Goto, ParkSwitch, SwitchToG0, ShiftRegs, Filled, FilledAt,
         ReadyPCs, EnqPCs, CallPCs
    <3>11. \A p \in M \ {m} : SameFilled(p)
      BY <1>ParkSwitch, <1>inv, <2>1, <2>2, <3>1, <3>3 DEF Goto,
         ParkSwitch, SwitchToG0, BaseTypeOK, SameFilled, ShiftRegs
    <3> QED
      BY <1>inv, <3>9, <3>10, <3>11, FilledFrame DEF Inv1, Filled
  <2>3. CASE parking[reg[m]["curg"]] # 1
    <3>1. UNCHANGED <<reg, tgt, seen, cand, ret, parking, lockedm, runq,
                      allg, deadq, allm, waitq, sleepers, nsleep, schedLock,
                      togo, found, proc>>
      BY <1>ParkSwitch, <1>inv, <2>1, <2>3 DEF ParkSwitch, SwitchToG0,
         threads, frames, gs, lists, waits, scan
    <3>2. pc' \in [M -> PCs]
      BY <1>ParkSwitch, <1>inv, <2>1, <2>3 DEF BaseTypeOK, ParkSwitch,
         SwitchToG0, PCs, ReadyPCs, Goto
    <3>3. status' \in [G -> Statuses]
      BY <1>ParkSwitch, <1>inv, <2>1, <2>3 DEF BaseTypeOK, ParkSwitch,
         SwitchToG0, Statuses
    <3>4. BaseTypeOK'
      BY <1>inv, <3>1, <3>2, <3>3 DEF BaseTypeOK
    <3>5. FilledAt(m)'
      BY <1>ParkSwitch, <1>inv, <2>1, <2>3, <3>1, ZenonT(60)
         DEF BaseTypeOK, At, Goto, ParkSwitch, SwitchToG0, Filled, FilledAt,
             ReadyPCs, EnqPCs, CallPCs
    <3>6. \A p \in M \ {m} : SameFilled(p)
      BY <1>ParkSwitch, <1>inv, <2>1, <2>3, <3>1 DEF Goto, ParkSwitch,
         SwitchToG0, BaseTypeOK, SameFilled
    <3> QED
      BY <1>inv, <3>4, <3>5, <3>6, FilledFrame DEF Inv1, Filled
  <2> QED
    BY <2>2, <2>3
<1>LockOSThread. ASSUME NEW m \in M, LockOSThread(m) PROVE Inv1'
  <2>1. reg[m]["curg"] \in G
    BY <1>LockOSThread, <1>inv, Pointers DEF LockOSThread, At
  <2>2. UNCHANGED <<pc, reg, tgt, seen, cand, ret, status, parking, runq,
                    allg, deadq, allm, waitq, sleepers, nsleep, schedLock,
                    togo, found, proc>>
    BY <1>LockOSThread, <1>inv, <2>1 DEF LockOSThread, threads, frames, gs,
       lists, waits, scan
  <2>3. lockedm' \in [G -> M \cup {None}]
    BY <1>LockOSThread, <1>inv, <2>1 DEF BaseTypeOK, LockOSThread
  <2>4. BaseTypeOK'
    BY <1>inv, <2>2, <2>3 DEF BaseTypeOK
  <2>5. Filled'
    BY <1>inv, <2>2 DEF Filled, FilledAt
  <2> QED
    BY <1>inv, <2>4, <2>5, FilledFrame DEF Inv1, Filled
<1>UnlockOSThread. ASSUME NEW m \in M, UnlockOSThread(m) PROVE Inv1'
  <2>1. reg[m]["curg"] \in G
    BY <1>UnlockOSThread, <1>inv, Pointers DEF UnlockOSThread, At
  <2>2. UNCHANGED <<pc, reg, tgt, seen, cand, ret, status, parking, runq,
                    allg, deadq, allm, waitq, sleepers, nsleep, schedLock,
                    togo, found, proc>>
    BY <1>UnlockOSThread, <1>inv, <2>1 DEF UnlockOSThread, threads, frames,
       gs, lists, waits, scan
  <2>3. lockedm' \in [G -> M \cup {None}]
    BY <1>UnlockOSThread, <1>inv, <2>1 DEF BaseTypeOK, UnlockOSThread
  <2>4. BaseTypeOK'
    BY <1>inv, <2>2, <2>3 DEF BaseTypeOK
  <2>5. Filled'
    BY <1>inv, <2>2 DEF Filled, FilledAt
  <2> QED
    BY <1>inv, <2>4, <2>5, FilledFrame DEF Inv1, Filled
<1>Goexit. ASSUME NEW m \in M, Goexit(m) PROVE Inv1'
  <2>1. reg[m]["curg"] \in G
    BY <1>Goexit, <1>inv, Pointers DEF Goexit, At
  <2>2. UNCHANGED <<tgt, seen, cand, ret, parking, lockedm, runq, allg, deadq,
                    allm, waitq, sleepers, nsleep, schedLock, togo, found,
                    proc>>
    BY <1>Goexit, <1>inv, <2>1 DEF Goexit, SwitchToG0, threads, frames, gs,
       lists, waits, scan
  <2>3. reg' = Move(m, "curg", m, "deadg")
    BY <1>Goexit, <1>inv, <2>1 DEF Goexit, SwitchToG0
  <2>4. ShiftRegs(m, "curg", "deadg")
    BY <1>inv, <2>1, <2>3, ShiftShape, RegNames
  <2>5. pc' \in [M -> PCs]
    BY <1>Goexit, <1>inv, <2>1 DEF BaseTypeOK, Goexit, SwitchToG0, PCs,
       ReadyPCs, Goto
  <2>6. reg' \in [M -> [Registers -> G \cup {None}]]
    BY <2>4 DEF ShiftRegs
  <2>7. status' \in [G -> Statuses]
    BY <1>Goexit, <1>inv, <2>1 DEF BaseTypeOK, Goexit, SwitchToG0, Statuses
  <2>8. BaseTypeOK'
    BY <1>inv, <2>2, <2>5, <2>6, <2>7 DEF BaseTypeOK
  <2>9. FilledAt(m)'
    BY <1>Goexit, <1>inv, <2>1, <2>2, <2>4 DEF BaseTypeOK, At, Goto, Goexit,
       SwitchToG0, ShiftRegs, Filled, FilledAt, ReadyPCs, EnqPCs, CallPCs
  <2>10. \A p \in M \ {m} : SameFilled(p)
    BY <1>Goexit, <1>inv, <2>1, <2>2, <2>4 DEF Goto, Goexit, SwitchToG0,
       BaseTypeOK, SameFilled, ShiftRegs
  <2> QED
    BY <1>inv, <2>8, <2>9, <2>10, FilledFrame DEF Inv1, Filled
<1>MainReturn. ASSUME NEW m \in M, MainReturn(m) PROVE Inv1'
  <2>1. UNCHANGED <<pc, reg, tgt, seen, cand, ret, status, parking, lockedm,
                    runq, allg, deadq, allm, waitq, sleepers, nsleep,
                    schedLock, togo, found>>
    BY <1>MainReturn, <1>inv DEF MainReturn, threads, frames, gs, lists,
       waits, scan
  <2>2. proc' \in {"running", "exited", "deadlock"}
    BY <1>MainReturn, <1>inv DEF BaseTypeOK, MainReturn
  <2>3. BaseTypeOK'
    BY <1>inv, <2>1, <2>2 DEF BaseTypeOK
  <2>4. Filled'
    BY <1>inv, <2>1 DEF Filled, FilledAt
  <2> QED
    BY <1>inv, <2>3, <2>4, FilledFrame DEF Inv1, Filled
<1>ExitThread. ASSUME NEW m \in M, ExitThread(m) PROVE Inv1'
  <2>1. CASE m = M0
    <3>1. UNCHANGED <<pc, reg, tgt, seen, cand, ret, status, parking,
                      lockedm, runq, allg, deadq, allm, waitq, sleepers,
                      nsleep, schedLock, togo, found>>
      BY <1>ExitThread, <1>inv, <2>1 DEF ExitThread, threads, frames, gs,
         lists, waits, scan
    <3>2. proc' \in {"running", "exited", "deadlock"}
      BY <1>ExitThread, <1>inv, <2>1 DEF BaseTypeOK, ExitThread
    <3>3. BaseTypeOK'
      BY <1>inv, <3>1, <3>2 DEF BaseTypeOK
    <3>4. Filled'
      BY <1>inv, <3>1 DEF Filled, FilledAt
    <3> QED
      BY <1>inv, <3>3, <3>4, FilledFrame DEF Inv1, Filled
  <2>2. CASE m # M0
    <3>1. UNCHANGED <<reg, tgt, seen, cand, ret, status, parking, lockedm,
                      runq, allg, deadq, waitq, sleepers, nsleep, schedLock,
                      togo, found, proc>>
      BY <1>ExitThread, <1>inv, <2>2 DEF ExitThread, threads, frames, gs,
         lists, waits, scan
    <3>2. pc' \in [M -> PCs]
      BY <1>ExitThread, <1>inv, <2>2 DEF BaseTypeOK, ExitThread, PCs,
         ReadyPCs, Goto
    <3>3. allm' \subseteq M
      BY <1>ExitThread, <1>inv, <2>2 DEF BaseTypeOK, ExitThread
    <3>4. BaseTypeOK'
      BY <1>inv, <3>1, <3>2, <3>3 DEF BaseTypeOK
    <3>5. FilledAt(m)'
      BY <1>ExitThread, <1>inv, <2>2, <3>1, SMTT(30) DEF BaseTypeOK, At, Goto,
         ExitThread, Filled, FilledAt, ReadyPCs, EnqPCs, CallPCs
    <3>6. \A p \in M \ {m} : SameFilled(p)
      BY <1>ExitThread, <1>inv, <2>2, <3>1 DEF Goto, ExitThread,
         BaseTypeOK, SameFilled
    <3> QED
      BY <1>inv, <3>4, <3>5, <3>6, FilledFrame DEF Inv1, Filled
  <2> QED
    BY <2>1, <2>2
<1>MPublish. ASSUME NEW m \in M, MPublish(m) PROVE Inv1'
  <2>1. UNCHANGED <<reg, tgt, seen, cand, ret, status, parking, lockedm, runq,
                    allg, deadq, waitq, sleepers, nsleep, schedLock, togo,
                    found, proc>>
    BY <1>MPublish, <1>inv DEF MPublish, threads, frames, gs, lists, waits, scan
  <2>2. pc' \in [M -> PCs]
    BY <1>MPublish, <1>inv DEF BaseTypeOK, MPublish, PCs, ReadyPCs, Goto
  <2>3. allm' \subseteq M
    BY <1>MPublish, <1>inv DEF BaseTypeOK, MPublish
  <2>4. BaseTypeOK'
    BY <1>inv, <2>1, <2>2, <2>3 DEF BaseTypeOK
  <2>5. FilledAt(m)'
    BY <1>MPublish, <1>inv, <2>1 DEF BaseTypeOK, At, Goto, MPublish, Filled,
       FilledAt, ReadyPCs, EnqPCs, CallPCs
  <2>6. \A p \in M \ {m} : SameFilled(p)
    BY <1>MPublish, <1>inv, <2>1 DEF Goto, MPublish, BaseTypeOK, SameFilled
  <2> QED
    BY <1>inv, <2>4, <2>5, <2>6, FilledFrame DEF Inv1, Filled
<1>MFirst. ASSUME NEW m \in M, MFirst(m) PROVE Inv1'
  <2>1. CASE reg[m]["start"] # None
    <3>1. UNCHANGED <<tgt, seen, cand, ret, runq, allg, deadq, allm, waitq,
                      sleepers, nsleep, schedLock, togo, found, proc>>
      BY <1>MFirst, <1>inv, <2>1 DEF MFirst, threads, frames, gs, lists,
         waits, scan
    <3>2. reg' = Move(m, "start", m, "nextg")
      BY <1>MFirst, <1>inv, <2>1 DEF MFirst
    <3>3. ShiftRegs(m, "start", "nextg")
      BY <1>inv, <3>2, ShiftShape, RegNames
    <3>4. pc' \in [M -> PCs]
      BY <1>MFirst, <1>inv, <2>1 DEF BaseTypeOK, MFirst, PCs, ReadyPCs, Goto
    <3>5. reg' \in [M -> [Registers -> G \cup {None}]]
      BY <3>3 DEF ShiftRegs
    <3>6. lockedm' \in [G -> M \cup {None}]
      BY <1>MFirst, <1>inv, <2>1, ZenonT(60) DEF BaseTypeOK, MFirst
    <3>7. status' \in [G -> Statuses]
      BY <1>MFirst, <1>inv, <2>1, SMTT(30) DEF BaseTypeOK, MFirst, Statuses
    <3>8. parking' = [parking EXCEPT ![reg[m]["start"]] = 0]
      BY <1>MFirst, <1>inv, <2>1 DEF MFirst, Goto
    <3>9. parking \in [G -> 0..3] /\ reg[m]["start"] \in G \cup {None}
      BY <1>inv, RegNames DEF BaseTypeOK, PCs, ReadyPCs, Statuses
    <3>10. parking' \in [G -> 0..3]
      BY <3>8, <3>9, <2>1 DEF Statuses
    <3>11. BaseTypeOK'
      BY <1>inv, <3>1, <3>4, <3>5, <3>6, <3>7, <3>10 DEF BaseTypeOK
    <3>12. FilledAt(m)'
      BY <1>MFirst, <1>inv, <2>1, <3>1, <3>3 DEF BaseTypeOK, At, Goto,
         MFirst, ShiftRegs, Filled, FilledAt, ReadyPCs, EnqPCs, CallPCs
    <3>13. \A p \in M \ {m} : SameFilled(p)
      BY <1>MFirst, <1>inv, <2>1, <3>1, <3>3 DEF Goto, MFirst, BaseTypeOK,
         SameFilled, ShiftRegs
    <3> QED
      BY <1>inv, <3>11, <3>12, <3>13, FilledFrame DEF Inv1, Filled
  <2>2. CASE reg[m]["start"] = None
    <3>1. UNCHANGED <<reg, tgt, seen, cand, ret, status, parking, lockedm,
                      runq, allg, deadq, allm, waitq, sleepers, nsleep,
                      schedLock, togo, found, proc>>
      BY <1>MFirst, <1>inv, <2>2 DEF MFirst, threads, frames, gs, lists,
         waits, scan
    <3>2. pc' \in [M -> PCs]
      BY <1>MFirst, <1>inv, <2>2 DEF BaseTypeOK, MFirst, PCs, ReadyPCs, Goto
    <3>3. BaseTypeOK'
      BY <1>inv, <3>1, <3>2 DEF BaseTypeOK
    <3>4. FilledAt(m)'
      BY <1>MFirst, <1>inv, <2>2, <3>1 DEF BaseTypeOK, At, Goto, MFirst,
         Filled, FilledAt, ReadyPCs, EnqPCs, CallPCs
    <3>5. \A p \in M \ {m} : SameFilled(p)
      BY <1>MFirst, <1>inv, <2>2, <3>1 DEF Goto, MFirst, BaseTypeOK, SameFilled
    <3> QED
      BY <1>inv, <3>3, <3>4, <3>5, FilledFrame DEF Inv1, Filled
  <2> QED
    BY <2>1, <2>2
<1> QED
  BY <1>ReadyLoad, <1>ReadyCancel, <1>ReadyMark, <1>ReadyPend, <1>ReadyParked,
     <1>EnqueueFind, <1>EnqueueHand, <1>EnqueuePush, <1>SchedReap,
     <1>SchedRequeue, <1>SchedTake, <1>SchedCommit, <1>SchedWake, <1>PollDue,
     <1>PollDrop, <1>PollDone, <1>SchedRun, <1>FreeDead, <1>Dequeue,
     <1>DequeueNone, <1>ScanBegin, <1>ScanRead, <1>ScanEnd, <1>Go,
     <1>StartLocked, <1>Wake, <1>SpawnThread, <1>SpawnWorker, <1>SpawnFail,
     <1>Gosched, <1>ParkRegister, <1>Sleep, <1>ParkSwitch, <1>LockOSThread,
     <1>UnlockOSThread, <1>Goexit, <1>MainReturn, <1>ExitThread, <1>MPublish,
     <1>MFirst, StutterInv1
     DEF Next, Step, Ready, Enqueue, Schedule, Goroutine, Ended

\* Layer 1 is an invariant: types, and filled registers.
THEOREM Inv1Holds == Spec => []Inv1
<1>1. Init => Inv1
  BY Inv1Init
<1>2. Inv1 /\ [Next]_vars => Inv1'
  BY Inv1Step
<1> QED
  BY <1>1, <1>2, PTL DEF Spec

-----------------------------------------------------------------------------
(***************************************************************************)
(* Layer 2: where a goroutine is, and who may wake it.  The lemmas say     *)
(* what each kind of move does to SingleOwner, to the parking handshake    *)
(* and to the rights to wake; Inv2Step goes through the actions.           *)
(***************************************************************************)

\* What the run queue loses when a goroutine is unlinked.
LEMMA UnlinkQueued ==
    ASSUME NEW q \in Seq(G), NEW i \in DOMAIN q,
           \A j, k \in DOMAIN q : q[j] = q[k] => j = k
    PROVE  /\ Unlink(q, i) \in Seq(G) /\ q[i] \in G
           /\ \A j, k \in DOMAIN Unlink(q, i) :
                Unlink(q, i)[j] = Unlink(q, i)[k] => j = k
           /\ \A g : (\E j \in DOMAIN Unlink(q, i) : Unlink(q, i)[j] = g)
                    <=> (\E j \in DOMAIN q : q[j] = g) /\ g # q[i]
BY RemovedQueue DEF Unlink

\* What the run queue gains when a goroutine is appended.
LEMMA PutQueued ==
    ASSUME NEW q \in Seq(G), NEW h \in G,
           \A j, k \in DOMAIN q : q[j] = q[k] => j = k,
           \A j \in DOMAIN q : q[j] # h
    PROVE  /\ PutAtTail(q, h) \in Seq(G)
           /\ \A j, k \in DOMAIN PutAtTail(q, h) :
                PutAtTail(q, h)[j] = PutAtTail(q, h)[k] => j = k
           /\ \A g : (\E j \in DOMAIN PutAtTail(q, h) : PutAtTail(q, h)[j] = g)
                    <=> (\E j \in DOMAIN q : q[j] = g) \/ g = h
BY AppendedQueue DEF PutAtTail

\* In no register and not queued; a step that keeps a goroutine so.
Loose(g) == ~Held(g) /\ ~Queued(g)
LoosenessKept(h) == Loose(h) => Loose(h)'

\* Nothing moves.
LEMMA OwnerSame ==
    ASSUME SingleOwner, UNCHANGED <<reg, runq>>
    PROVE  SingleOwner' /\ \A h \in G : LoosenessKept(h)
BY
   DEF SingleOwner, OneRegister, HeldNotQueued, QueuedOnce, LoosenessKept,
       Loose, Held, Queued

\* A register is cleared, or filled with a goroutine that was nowhere.
LEMMA OwnerPut ==
    ASSUME BaseTypeOK, SingleOwner, NEW m \in M, NEW r \in Registers,
           NEW g \in G \cup {None}, PutRegs(m, r, g), UNCHANGED runq,
           g # None => Loose(g)
    PROVE  SingleOwner' /\ \A h \in G : h # g => LoosenessKept(h)
<1>1. \A p \in M, s \in Registers :
        reg'[p][s] = reg[p][s] \/ (p = m /\ s = r /\ reg'[p][s] = g)
  BY DEF PutRegs
<1>2. \A h \in G : h # g => LoosenessKept(h)
  BY <1>1 DEF LoosenessKept, Loose, Held, Queued
<1>3. \A p, n \in M : \A s, t \in Registers :
         reg'[p][s] # None /\ reg'[p][s] = reg'[n][t] => p = n /\ s = t
  <2> SUFFICES ASSUME NEW p \in M, NEW n \in M,
                      NEW s \in Registers, NEW t \in Registers,
                      reg'[p][s] # None, reg'[p][s] = reg'[n][t]
               PROVE  p = n /\ s = t
    OBVIOUS
  <2>1. CASE reg'[p][s] = reg[p][s] /\ reg'[n][t] = reg[n][t]
    <3>1. reg[p][s] # None /\ reg[p][s] = reg[n][t]
      BY <2>1
    <3> QED
      BY <3>1 DEF SingleOwner, OneRegister
  <2>2. CASE p = m /\ s = r /\ reg'[p][s] = g
    BY <1>1, <2>2 DEF Loose, Held
  <2>3. CASE n = m /\ t = r /\ reg'[n][t] = g
    BY <1>1, <2>3 DEF Loose, Held
  <2> QED
    BY <1>1, <2>1, <2>2, <2>3
<1>4. \A h : Queued(h)' <=> Queued(h)
  BY DEF Queued
<1>5. HeldNotQueued'
  BY <1>1, <1>4 DEF SingleOwner, HeldNotQueued, Loose
<1>6. OneRegister'
  BY <1>3 DEF OneRegister
<1>7. QueuedOnce'
  BY DEF SingleOwner, QueuedOnce
<1> QED
  BY <1>2, <1>5, <1>6, <1>7 DEF SingleOwner

\* A goroutine moves from a register of one thread to one of another.
LEMMA OwnerHand ==
    ASSUME BaseTypeOK, SingleOwner, NEW m \in M, NEW a \in Registers,
           NEW n \in M, NEW b \in Registers, a # b,
           HandRegs(m, a, n, b), UNCHANGED runq
    PROVE  SingleOwner' /\ \A h \in G : LoosenessKept(h)
<1>1. \A p \in M, s \in Registers :
        \/ reg'[p][s] = reg[p][s] /\ (p # m \/ s # a) /\ (p # n \/ s # b)
        \/ p = m /\ s = a /\ reg'[p][s] = None
        \/ p = n /\ s = b /\ reg'[p][s] = reg[m][a]
  BY DEF HandRegs
<1>2. \A h \in G : LoosenessKept(h)
  BY <1>1, Consts DEF LoosenessKept, Loose, Held, Queued
<1>3. \A p, q \in M : \A s, t \in Registers :
         reg'[p][s] # None /\ reg'[p][s] = reg'[q][t] => p = q /\ s = t
  <2> SUFFICES ASSUME NEW p \in M, NEW q \in M,
                      NEW s \in Registers, NEW t \in Registers,
                      reg'[p][s] # None, reg'[p][s] = reg'[q][t]
               PROVE  p = q /\ s = t
    OBVIOUS
  <2>1. CASE reg'[p][s] = reg[p][s] /\ reg'[q][t] = reg[q][t]
    <3>1. reg[p][s] # None /\ reg[p][s] = reg[q][t]
      BY <2>1
    <3> QED
      BY <3>1 DEF SingleOwner, OneRegister
  <2>2. CASE p = n /\ s = b /\ reg'[p][s] = reg[m][a]
    BY <1>1, <2>2 DEF SingleOwner, OneRegister
  <2>3. CASE q = n /\ t = b /\ reg'[q][t] = reg[m][a]
    BY <1>1, <2>3 DEF SingleOwner, OneRegister
  <2> QED
    BY <1>1, <2>1, <2>2, <2>3
<1>4. \A h : Queued(h)' <=> Queued(h)
  BY DEF Queued
<1>5. HeldNotQueued'
  BY <1>1, <1>4 DEF SingleOwner, HeldNotQueued, Loose
<1>6. OneRegister'
  BY <1>3 DEF OneRegister
<1>7. QueuedOnce'
  BY DEF SingleOwner, QueuedOnce
<1> QED
  BY <1>2, <1>5, <1>6, <1>7 DEF SingleOwner

\* A goroutine moves between two registers of a thread.
LEMMA OwnerShift ==
    ASSUME BaseTypeOK, SingleOwner, NEW m \in M,
           NEW a \in Registers, NEW b \in Registers, a # b,
           ShiftRegs(m, a, b), UNCHANGED runq
    PROVE  SingleOwner' /\ \A h \in G : LoosenessKept(h)
BY OwnerHand DEF HandRegs, ShiftRegs

\* A goroutine moves from a register to the run queue.
LEMMA OwnerPush ==
   ASSUME BaseTypeOK, SingleOwner, NEW m \in M, reg[m]["enq"] \in G,
          PutRegs(m, "enq", None), runq' = PutAtTail(runq, reg[m]["enq"])
   PROVE SingleOwner' /\ \A h \in G : LoosenessKept(h)
<1> DEFINE g == reg[m]["enq"]
<1>0. "enq" \in Registers /\ None \notin G
  BY RegNames, Consts
<1>1. \A p \in M, s \in Registers :
         \/ reg'[p][s] = reg[p][s] /\ (p # m \/ s # "enq")
         \/ p = m /\ s = "enq" /\ reg'[p][s] = None
  BY DEF PutRegs
<1>2. /\ \A j, k \in DOMAIN runq : runq[j] = runq[k] => j = k
      /\ runq \in Seq(G) /\ ~Queued(g)
  BY <1>0, Consts DEF SingleOwner, QueuedOnce, HeldNotQueued, BaseTypeOK
<1>3. \A j \in DOMAIN runq : runq[j] # g
  BY <1>2 DEF Queued
<1>4. /\ \A j, k \in DOMAIN runq' : runq'[j] = runq'[k] => j = k
      /\ \A h : (\E j \in DOMAIN runq' : runq'[j] = h)
                    <=> (\E j \in DOMAIN runq : runq[j] = h) \/ h = g
  <2> DEFINE q == PutAtTail(runq, g)
  <2>1. /\ \A j, k \in DOMAIN q : q[j] = q[k] => j = k
        /\ \A h : (\E j \in DOMAIN q : q[j] = h)
                    <=> (\E j \in DOMAIN runq : runq[j] = h) \/ h = g
    <3> HIDE DEF g
    <3> QED
      BY <1>2, <1>3, PutQueued, g \in G DEF g
  <2> QED
    BY <2>1
<1>5. \A h : Queued(h)' <=> Queued(h) \/ h = g
  BY <1>4 DEF Queued
<1>6. \A h \in G : LoosenessKept(h)
  BY <1>0, <1>1, <1>5, Consts DEF LoosenessKept, Loose, Held
<1>7. OneRegister'
  <2> SUFFICES ASSUME NEW p \in M, NEW q \in M,
                      NEW s \in Registers, NEW t \in Registers,
                      reg'[p][s] # None, reg'[p][s] = reg'[q][t]
               PROVE  p = q /\ s = t
    BY DEF OneRegister
  <2>1. reg[p][s] # None /\ reg[p][s] = reg[q][t]
    BY <1>1
  <2> QED
    BY <2>1 DEF SingleOwner, OneRegister
<1>8. HeldNotQueued'
  <2> SUFFICES ASSUME NEW p \in M, NEW s \in Registers, reg'[p][s] # None
               PROVE ~\E j \in DOMAIN runq' : runq'[j] = reg'[p][s]
    BY DEF HeldNotQueued, Queued
  <2>1. reg'[p][s] = reg[p][s] /\ (p # m \/ s # "enq")
    BY <1>1
  <2>2. reg[p][s] # g
    BY <1>0, <2>1, Consts DEF SingleOwner, OneRegister
  <2>3. ~Queued(reg[p][s])
    BY <2>1 DEF SingleOwner, HeldNotQueued
  <2> QED
    BY <1>4, <2>1, <2>2, <2>3 DEF Queued
<1>9. QueuedOnce'
  BY <1>4 DEF QueuedOnce
<1> QED
  BY <1>6, <1>7, <1>8, <1>9 DEF SingleOwner

\* A goroutine moves from the run queue to a register.
LEMMA OwnerUnlink ==
   ASSUME BaseTypeOK, SingleOwner, NEW m \in M, NEW i \in DOMAIN runq,
          PutRegs(m, "next", runq[i]), runq' = Unlink(runq, i)
   PROVE SingleOwner' /\ \A h \in G : LoosenessKept(h)
<1> DEFINE g == runq[i]
<1>0. "next" \in Registers
  BY RegNames
<1>1. \A p \in M, s \in Registers :
         \/ reg'[p][s] = reg[p][s] /\ (p # m \/ s # "next")
         \/ p = m /\ s = "next" /\ reg'[p][s] = g
  BY DEF PutRegs
<1>2. /\ \A j, k \in DOMAIN runq : runq[j] = runq[k] => j = k
      /\ runq \in Seq(G) /\ Queued(g)
  BY DEF SingleOwner, QueuedOnce, BaseTypeOK, Queued
<1>3. \A p \in M, s \in Registers : reg[p][s] # None => reg[p][s] # g
  BY <1>2 DEF SingleOwner, HeldNotQueued
<1>4. /\ \A j, k \in DOMAIN runq' : runq'[j] = runq'[k] => j = k
      /\ \A h : (\E j \in DOMAIN runq' : runq'[j] = h)
                    <=> (\E j \in DOMAIN runq : runq[j] = h) /\ h # g
  <2> DEFINE q == Unlink(runq, i)
  <2>1. /\ \A j, k \in DOMAIN q : q[j] = q[k] => j = k
        /\ \A h : (\E j \in DOMAIN q : q[j] = h)
                    <=> (\E j \in DOMAIN runq : runq[j] = h) /\ h # g
    BY <1>2, UnlinkQueued
  <2> QED
    BY <2>1
<1>5. \A h : Queued(h)' <=> Queued(h) /\ h # g
  BY <1>4 DEF Queued
<1>6. \A h \in G : LoosenessKept(h)
  BY <1>1, <1>2, <1>5 DEF LoosenessKept, Loose, Held
<1>7. OneRegister'
  <2> SUFFICES ASSUME NEW p \in M, NEW q \in M,
                      NEW s \in Registers, NEW t \in Registers,
                      reg'[p][s] # None, reg'[p][s] = reg'[q][t]
               PROVE  p = q /\ s = t
    BY DEF OneRegister
  <2>1. CASE reg'[p][s] = reg[p][s] /\ reg'[q][t] = reg[q][t]
    <3>1. reg[p][s] # None /\ reg[p][s] = reg[q][t]
      BY <2>1
    <3> QED
      BY <3>1 DEF SingleOwner, OneRegister
  <2>2. CASE p = m /\ s = "next" /\ reg'[p][s] = g
    BY <1>1, <1>3, <2>2
  <2>3. CASE q = m /\ t = "next" /\ reg'[q][t] = g
    BY <1>1, <1>3, <2>3
  <2> QED
    BY <1>1, <2>1, <2>2, <2>3
<1>8. HeldNotQueued'
  <2> SUFFICES ASSUME NEW p \in M, NEW s \in Registers, reg'[p][s] # None
               PROVE ~\E j \in DOMAIN runq' : runq'[j] = reg'[p][s]
    BY DEF HeldNotQueued, Queued
  <2>1. CASE reg'[p][s] = g
    BY <1>4, <2>1
  <2>2. CASE reg'[p][s] = reg[p][s]
    <3>1. ~Queued(reg[p][s])
      BY <2>2 DEF SingleOwner, HeldNotQueued
    <3> QED
      BY <1>4, <2>2, <3>1 DEF Queued
  <2> QED
    BY <1>1, <2>1, <2>2
<1>9. QueuedOnce'
  BY <1>4 DEF QueuedOnce
<1> QED
  BY <1>6, <1>7, <1>8, <1>9 DEF SingleOwner
-----------------------------------------------------------------------------
\* The three places of ParkHandshake, for one goroutine; what keeps a goroutine
\* in its place; and the other parts of Inv2, for one thread or goroutine.
Parked(g) ==
    \/ parking[g] = 1 /\ \E m \in M : pc[m] = "park" /\ reg[m]["curg"] = g
    \/ parking[g] = 2 /\ \E m \in M : reg[m]["park_g"] = g
    \/ parking[g] = 0 /\ Loose(g)

Kept(h) ==
    /\ CanBeWoken(h) /\ parking'[h] = parking[h] /\ LoosenessKept(h)
    /\ \A n \in M : pc[n] = "park" /\ reg[n]["curg"] = h =>
                        pc'[n] = "park" /\ reg'[n]["curg"] = h
    /\ \A n \in M : reg[n]["park_g"] = h => reg'[n]["park_g"] = h

SeenAt(m) ==
    /\ pc[m] = "cas2" =>
         /\ parking[tgt[m]] # 1 /\ seen[m] # 1
         /\ seen[m] = 0 => parking[tgt[m]] = 0
    /\ pc[m] = "store" => parking[tgt[m]] = 0

SeenKept(n) ==
    /\ pc'[n] = pc[n] /\ tgt'[n] = tgt[n] /\ seen'[n] = seen[n]
    /\ pc[n] \in {"cas2", "store"} =>
         tgt[n] \in G /\ parking'[tgt[n]] = parking[tgt[n]]

GoneAt(h) == h \in deadq \/ status[h] = "free" => Loose(h) /\ ~CanBeWoken(h)

\* Inv2 goroutine by goroutine and thread by thread ...
LEMMA SplitInv2 ==
    Inv2 <=> /\ SingleOwner /\ OneWaker /\ DeadNotFree
             /\ \A h \in G : CanBeWoken(h) => Parked(h)
             /\ \A n \in M : SeenAt(n)
             /\ \A h \in G : GoneAt(h)
BY
   DEF Inv2, ParkHandshake, SeenIsSafe, GoneForGood, Parked, SeenAt, GoneAt,
       Loose

\* ... and the same of the next state.
LEMMA SplitInv2Next ==
    ASSUME SingleOwner', OneWaker', DeadNotFree',
           \A h \in G : CanBeWoken(h)' => Parked(h)',
           \A n \in M : SeenAt(n)',
           \A h \in G : GoneAt(h)'
    PROVE  Inv2'
<1>1. ParkHandshake'
  BY DEF ParkHandshake, Parked, Loose
<1>2. SeenIsSafe'
  BY DEF SeenIsSafe, SeenAt
<1>3. GoneForGood'
  BY DEF GoneForGood, GoneAt, Loose
<1> QED
  BY <1>1, <1>2, <1>3 DEF Inv2

\* A goroutine that is left alone stays parked as it was.
LEMMA KeptParked ==
    ASSUME NEW h \in G, Parked(h), Kept(h)
    PROVE  Parked(h)'
BY DEF Parked, Kept, LoosenessKept

\* A runtime_ready whose goroutine is left alone stays safe.
LEMMA KeptSeen ==
    ASSUME NEW n \in M, SeenAt(n), SeenKept(n)
    PROVE  SeenAt(n)'
BY DEF SeenAt, SeenKept

\* What is left to show of a step: only what it does not keep.
LEMMA Keep ==
    ASSUME Inv2, SingleOwner', OneWaker', DeadNotFree',
           \A h \in G : CanBeWoken(h)' => Parked(h)' \/ Kept(h),
           \A n \in M : SeenAt(n)' \/ SeenKept(n),
           \A h \in G : GoneAt(h)'
    PROVE  Inv2'
<1>1. \A h \in G : CanBeWoken(h)' => Parked(h)'
  <2> SUFFICES ASSUME NEW h \in G, CanBeWoken(h)', Kept(h) PROVE Parked(h)'
    OBVIOUS
  <2>1. CanBeWoken(h)
    BY DEF Kept
  <2>2. Parked(h)
    BY <2>1, SplitInv2
  <2> QED
    BY <2>2, KeptParked
<1>2. \A n \in M : SeenAt(n)'
  BY SplitInv2, KeptSeen
<1> QED
  BY <1>1, <1>2, SplitInv2Next

\* A goroutine on a thread, and not parking, is not woken by anybody.
LEMMA HeldNotWoken ==
    ASSUME Inv1, Inv2, NEW m \in M, NEW r \in Registers, reg[m][r] \in G,
           r # "park_g", r = "curg" => pc[m] # "park"
    PROVE  ~CanBeWoken(reg[m][r])
<1> DEFINE h == reg[m][r]
<1>1. SUFFICES ASSUME CanBeWoken(h) PROVE FALSE
  OBVIOUS
<1>2. Parked(h)
  BY <1>1, SplitInv2
<1>3. OneRegister /\ "curg" \in Registers /\ "park_g" \in Registers /\ h # None
  BY RegNames, Consts, SplitInv2 DEF SingleOwner
<1>4. Held(h)
  BY DEF Held
<1> QED
  BY <1>2, <1>3, <1>4 DEF Parked, Loose, OneRegister

\* A goroutine on a thread is neither on the list of the dead nor free.
LEMMA HeldNotGone ==
    ASSUME Inv1, Inv2, NEW m \in M, NEW r \in Registers, reg[m][r] \in G
    PROVE  reg[m][r] \notin deadq /\ status[reg[m][r]] # "free"
BY DEF Inv2, GoneForGood, Held

\* A free address, or a goroutine on the list of the dead, is nowhere else.
LEMMA FreshG ==
    ASSUME Inv1, Inv2, NEW g \in G, status[g] = "free" \/ g \in deadq
    PROVE  /\ Loose(g) /\ ~CanBeWoken(g)
           /\ status[g] = "free" => g \notin deadq
BY DEF Inv2, GoneForGood, DeadNotFree, Loose

\* A step that adds no right to wake leaves each of them held once.
LEMMA WakeFrame ==
    ASSUME OneWaker, waitq' \subseteq waitq, sleepers' \subseteq sleepers,
           \A p \in M, h \in G : Waking(p, h)' => Waking(p, h)
    PROVE  OneWaker' /\ \A h \in G : CanBeWoken(h)' => CanBeWoken(h)
<1>1. OneWaker'
  BY DEF OneWaker
<1>2. \A h \in G : CanBeWoken(h)' => CanBeWoken(h)
  BY DEF CanBeWoken
<1> QED
  BY <1>1, <1>2

\* A goroutine dropped from its register is nowhere.
LEMMA DropLoose ==
    ASSUME Inv1, Inv2, NEW m \in M, NEW r \in Registers, NEW g \in G,
           reg[m][r] = g, PutRegs(m, r, None), UNCHANGED runq
    PROVE  Loose(g)'
<1>1. OneRegister /\ HeldNotQueued /\ g # None
  BY Consts DEF Inv2, SingleOwner
<1>2. \A p \in M, s \in Registers :
        \/ reg'[p][s] = None
        \/ reg'[p][s] = reg[p][s] /\ (p # m \/ s # r)
  BY DEF PutRegs
<1>3. \A p \in M, s \in Registers : reg'[p][s] # g
  BY <1>1, <1>2 DEF OneRegister
<1>4. \A i \in DOMAIN runq : runq[i] # g
  BY <1>1 DEF HeldNotQueued, Queued
<1>5. \A i \in DOMAIN runq' : runq'[i] # g
  BY <1>4
<1> QED
  BY <1>3, <1>5 DEF Loose, Held, Queued

\* The end of a runtime_ready ends the only right to wake its goroutine.
LEMMA WakerLeaves ==
    ASSUME OneWaker, NEW m \in M, NEW g \in G, Waking(m, g),
           UNCHANGED <<waitq, sleepers>>,
           \A p \in M, h \in G : Waking(p, h)' => p # m /\ Waking(p, h)
    PROVE  ~CanBeWoken(g)'
BY DEF OneWaker, CanBeWoken

\* Unlinking a waiter moves the right to wake it to the calling thread.
LEMMA WakerMoves ==
    ASSUME OneWaker, NEW m \in M, NEW g \in G, g \in waitq \cup sleepers,
           waitq' = waitq \ {g}, sleepers' = sleepers \ {g},
           \A p \in M, h \in G :
               Waking(p, h)' => Waking(p, h) \/ (p = m /\ h = g)
    PROVE  OneWaker' /\ \A h \in G : CanBeWoken(h)' => CanBeWoken(h)
<1>1. OneWaker'
  BY DEF OneWaker
<1>2. \A h \in G : CanBeWoken(h)' => CanBeWoken(h)
  BY DEF CanBeWoken
<1> QED
  BY <1>1, <1>2

\* A goroutine that starts to wait gives one right to wake it.
LEMMA WaiterAdded ==
    ASSUME OneWaker, NEW g \in G, ~CanBeWoken(g),
           \/ waitq' = waitq \cup {g} /\ sleepers' = sleepers
           \/ sleepers' = sleepers \cup {g} /\ waitq' = waitq,
           \A p \in M, h \in G : Waking(p, h)' => Waking(p, h)
    PROVE  OneWaker' /\ \A h \in G : CanBeWoken(h)' => CanBeWoken(h) \/ h = g
<1>1. OneWaker'
  BY DEF OneWaker, CanBeWoken
<1>2. \A h \in G : CanBeWoken(h)' => CanBeWoken(h) \/ h = g
  BY DEF CanBeWoken
<1> QED
  BY <1>1, <1>2

-----------------------------------------------------------------------------
\* Every step keeps the second layer, given the first before and after it.
LEMMA Inv2Step == Inv1 /\ Inv1' /\ Inv2 /\ [Next]_vars => Inv2'
<1> SUFFICES ASSUME Inv1, Inv1', Inv2, [Next]_vars PROVE Inv2'
  OBVIOUS
<1>inv. BaseTypeOK /\ Inv1 /\ Inv2
  BY DEF Inv1
<1>ReadyLoad. ASSUME NEW m \in M, ReadyLoad(m) PROVE Inv2'
  <2>1. tgt[m] \in G
    BY <1>ReadyLoad, <1>inv, Pointers DEF ReadyLoad, At
  <2>2. CASE status[tgt[m]] = "dead"
    <3>1. UNCHANGED <<reg, seen, cand, status, parking, lockedm, runq, allg,
                      deadq, allm, waitq, sleepers, nsleep, schedLock, togo,
                      found, proc>>
      BY <1>ReadyLoad, <1>inv, <2>1, <2>2
         DEF ReadyLoad, Return, threads, frames, gs, lists, waits, scan
    <3>2. SingleOwner' /\ \A h \in G : LoosenessKept(h)
      BY <1>inv, <3>1, OwnerSame DEF Inv2
    <3>3. \A p \in M, h \in G : Waking(p, h)' => Waking(p, h)
      BY <1>ReadyLoad, <1>inv, <2>1, <2>2, <3>1, Consts
         DEF Waking, ReadyPCs, Goto, At, BaseTypeOK, ReadyLoad, Return
    <3>4. OneWaker' /\ \A h \in G : CanBeWoken(h)' => CanBeWoken(h)
      BY <1>inv, <3>3, <3>1, WakeFrame DEF Inv2
    <3>5. \A n \in M :
          /\ pc[n] = "park" =>
               pc'[n] = "park" /\ reg'[n]["curg"] = reg[n]["curg"]
          /\ reg'[n]["park_g"] = reg[n]["park_g"]
      BY <1>ReadyLoad, <1>inv, <2>1, <2>2, <3>1, RegNames
         DEF Goto, At, BaseTypeOK, ReadyLoad, Return
    <3>6. \A h \in G : CanBeWoken(h)' => Parked(h)' \/ Kept(h)
      BY <2>1, <2>2, <3>2, <3>4, <3>5, <3>1 DEF Kept
    <3>7. SeenAt(m)'
      BY <1>ReadyLoad, <1>inv, <2>1, <2>2, <3>1, Consts
         DEF SeenAt, At, Goto, BaseTypeOK, ReadyLoad, Return
    <3>8. \A n \in M : pc[n] \in {"cas2", "store"} =>
        tgt[n] \in G /\ CanBeWoken(tgt[n])
      BY <1>inv, Pointers DEF CanBeWoken, Waking, ReadyPCs
    <3>9. \A n \in M : SeenAt(n)' \/ SeenKept(n)
      BY <1>ReadyLoad, <1>inv, <2>1, <2>2, <3>1, <3>7, <3>8
         DEF SeenAt, SeenKept, At, Goto, BaseTypeOK, ReadyLoad, Return
    <3>10. \A h \in G : (h \in deadq' \/ status'[h] = "free" =>
        (h \in deadq \/ status[h] = "free"))
      BY <1>ReadyLoad, <1>inv, <2>1, <2>2, <3>1
         DEF ReadyLoad, Return, BaseTypeOK, Statuses
    <3>11. DeadNotFree'
      BY <1>ReadyLoad, <1>inv, <2>1, <2>2, <3>1, <3>10
         DEF DeadNotFree, Inv2, ReadyLoad, Return, BaseTypeOK
    <3>12. \A h \in G : GoneAt(h)'
      BY <1>inv, <2>1, <2>2, <3>2, <3>4, <3>10, <3>1, SplitInv2
         DEF GoneAt, LoosenessKept
    <3> QED
      BY <1>inv, <3>2, <3>4, <3>6, <3>9, <3>11, <3>12, Keep
  <2>3. CASE status[tgt[m]] # "dead"
    <3>1. UNCHANGED <<reg, tgt, cand, ret, status, parking, lockedm, runq, allg,
                      deadq, allm, waitq, sleepers, nsleep, schedLock, togo,
                      found, proc>>
      BY <1>ReadyLoad, <1>inv, <2>1, <2>3
         DEF ReadyLoad, Return, threads, frames, gs, lists, waits, scan
    <3>2. PICK x \in G : x = tgt[m]
      BY <2>1, <2>3
    <3>3. Waking(m, x) /\ CanBeWoken(x)
      BY <1>ReadyLoad, <1>inv, <2>1, <2>3, <3>2
         DEF ReadyLoad, At, Waking, CanBeWoken, ReadyPCs
    <3>4. SingleOwner' /\ \A h \in G : LoosenessKept(h)
      BY <1>inv, <3>1, OwnerSame DEF Inv2
    <3>5. \A p \in M, h \in G : Waking(p, h)' => Waking(p, h)
      BY <1>ReadyLoad, <1>inv, <2>1, <2>3, <3>2, <3>3, <3>1, Consts
         DEF Waking, ReadyPCs, Goto, At, BaseTypeOK, ReadyLoad, Return
    <3>6. OneWaker' /\ \A h \in G : CanBeWoken(h)' => CanBeWoken(h)
      BY <1>inv, <3>5, <3>1, WakeFrame DEF Inv2
    <3>7. \A n \in M :
          /\ pc[n] = "park" =>
               pc'[n] = "park" /\ reg'[n]["curg"] = reg[n]["curg"]
          /\ reg'[n]["park_g"] = reg[n]["park_g"]
      BY <1>ReadyLoad, <1>inv, <2>1, <2>3, <3>2, <3>3, <3>1, RegNames
         DEF Goto, At, BaseTypeOK, ReadyLoad, Return
    <3>8. \A h \in G : CanBeWoken(h)' => Parked(h)' \/ Kept(h)
      BY <2>1, <2>3, <3>2, <3>3, <3>4, <3>6, <3>7, <3>1 DEF Kept
    <3>9. SeenAt(m)'
      BY <1>ReadyLoad, <1>inv, <2>1, <2>3, <3>2, <3>3, <3>1
         DEF SeenAt, At, Goto, BaseTypeOK, ReadyLoad, Return, Inv2, SeenIsSafe
    <3>10. \A n \in M : pc[n] \in {"cas2", "store"} =>
        tgt[n] \in G /\ CanBeWoken(tgt[n])
      BY <1>inv, Pointers DEF CanBeWoken, Waking, ReadyPCs
    <3>11. \A n \in M : SeenAt(n)' \/ SeenKept(n)
      BY <1>ReadyLoad, <1>inv, <2>1, <2>3, <3>2, <3>3, <3>1, <3>9, <3>10
         DEF SeenAt, SeenKept, At, Goto, BaseTypeOK, ReadyLoad, Return
    <3>12. \A h \in G : (h \in deadq' \/ status'[h] = "free" =>
        (h \in deadq \/ status[h] = "free"))
      BY <1>ReadyLoad, <1>inv, <2>1, <2>3, <3>2, <3>3, <3>1
         DEF ReadyLoad, Return, BaseTypeOK, Statuses
    <3>13. DeadNotFree'
      BY <1>ReadyLoad, <1>inv, <2>1, <2>3, <3>2, <3>3, <3>1, <3>12
         DEF DeadNotFree, Inv2, ReadyLoad, Return, BaseTypeOK
    <3>14. \A h \in G : GoneAt(h)'
      BY <1>inv, <2>1, <2>3, <3>2, <3>3, <3>4, <3>6, <3>12, <3>1, SplitInv2
         DEF GoneAt, LoosenessKept
    <3> QED
      BY <1>inv, <3>4, <3>6, <3>8, <3>11, <3>13, <3>14, Keep
  <2> QED
    BY <2>2, <2>3
<1>ReadyCancel. ASSUME NEW m \in M, ReadyCancel(m) PROVE Inv2'
  <2>1. tgt[m] \in G
    BY <1>ReadyCancel, <1>inv, Pointers DEF ReadyCancel, At
  <2>2. CASE parking[tgt[m]] = 1
    <3>1. UNCHANGED <<reg, tgt, cand, ret, status, lockedm, runq, allg, deadq,
                      allm, waitq, sleepers, nsleep, schedLock, togo, found,
                      proc>>
      BY <1>ReadyCancel, <1>inv, <2>1, <2>2
         DEF ReadyCancel, threads, frames, gs, lists, waits, scan
    <3>2. PICK x \in G : x = tgt[m]
      BY <2>1, <2>2
    <3>3. Waking(m, x) /\ CanBeWoken(x)
      BY <1>ReadyCancel, <1>inv, <2>1, <2>2, <3>2
         DEF ReadyCancel, At, Waking, CanBeWoken, ReadyPCs
    <3>4. SingleOwner' /\ \A h \in G : LoosenessKept(h)
      BY <1>inv, <3>1, OwnerSame DEF Inv2
    <3>5. \A p \in M, h \in G : Waking(p, h)' => p # m /\ Waking(p, h)
      BY <1>ReadyCancel, <1>inv, <2>1, <2>2, <3>2, <3>3, <3>1, Consts
         DEF Waking, ReadyPCs, Goto, At, BaseTypeOK, ReadyCancel
    <3>6. ~CanBeWoken(x)'
      BY <1>inv, <2>1, <2>2, <3>2, <3>3, <3>5, <3>1, WakerLeaves DEF Inv2
    <3>7. OneWaker' /\ \A h \in G : CanBeWoken(h)' => CanBeWoken(h)
      BY <1>inv, <3>5, <3>1, WakeFrame DEF Inv2
    <3>8. \A n \in M :
          /\ pc[n] = "park" =>
               pc'[n] = "park" /\ reg'[n]["curg"] = reg[n]["curg"]
          /\ reg'[n]["park_g"] = reg[n]["park_g"]
      BY <1>ReadyCancel, <1>inv, <2>1, <2>2, <3>2, <3>3, <3>1, RegNames
         DEF Goto, At, BaseTypeOK, ReadyCancel
    <3>9. \A h \in G : h # x => parking'[h] = parking[h]
      BY <1>ReadyCancel, <1>inv, <2>1, <2>2, <3>2, <3>3
         DEF BaseTypeOK, ReadyCancel
    <3>10. \A h \in G : CanBeWoken(h)' => Parked(h)' \/ Kept(h)
      BY <2>1, <2>2, <3>2, <3>3, <3>4, <3>7, <3>6, <3>8, <3>9, <3>1 DEF Kept
    <3>11. SeenAt(m)'
      BY <1>ReadyCancel, <1>inv, <2>1, <2>2, <3>2, <3>3, <3>1, Consts
         DEF SeenAt, At, Goto, BaseTypeOK, ReadyCancel
    <3>12. \A n \in M : pc[n] \in {"cas2", "store"} =>
        tgt[n] \in G /\ CanBeWoken(tgt[n])
      BY <1>inv, Pointers DEF CanBeWoken, Waking, ReadyPCs
    <3>13. \A n \in M : pc[n] \in {"cas2", "store"} /\ n # m => tgt[n] # x
      BY <1>ReadyCancel, <1>inv, <2>1, <2>2, <3>2, <3>3
         DEF Inv2, OneWaker, Waking, ReadyPCs
    <3>14. \A n \in M : SeenAt(n)' \/ SeenKept(n)
      BY <1>ReadyCancel, <1>inv, <2>1, <2>2, <3>2, <3>3, <3>1, <3>11, <3>12,
         <3>9, <3>13
         DEF SeenAt, SeenKept, At, Goto, BaseTypeOK, ReadyCancel
    <3>15. \A h \in G : (h \in deadq' \/ status'[h] = "free" =>
        (h \in deadq \/ status[h] = "free"))
      BY <1>ReadyCancel, <1>inv, <2>1, <2>2, <3>2, <3>3, <3>1
         DEF ReadyCancel, BaseTypeOK, Statuses
    <3>16. DeadNotFree'
      BY <1>ReadyCancel, <1>inv, <2>1, <2>2, <3>2, <3>3, <3>1, <3>15
         DEF DeadNotFree, Inv2, ReadyCancel, BaseTypeOK
    <3>17. \A h \in G : GoneAt(h)'
      BY <1>inv, <2>1, <2>2, <3>2, <3>3, <3>4, <3>7, <3>15, <3>1, SplitInv2
         DEF GoneAt, LoosenessKept
    <3> QED
      BY <1>inv, <3>4, <3>7, <3>10, <3>14, <3>16, <3>17, Keep
  <2>3. CASE parking[tgt[m]] # 1
    <3>1. UNCHANGED <<reg, tgt, cand, ret, status, parking, lockedm, runq, allg,
                      deadq, allm, waitq, sleepers, nsleep, schedLock, togo,
                      found, proc>>
      BY <1>ReadyCancel, <1>inv, <2>1, <2>3
         DEF ReadyCancel, threads, frames, gs, lists, waits, scan
    <3>2. PICK x \in G : x = tgt[m]
      BY <2>1, <2>3
    <3>3. Waking(m, x) /\ CanBeWoken(x)
      BY <1>ReadyCancel, <1>inv, <2>1, <2>3, <3>2
         DEF ReadyCancel, At, Waking, CanBeWoken, ReadyPCs
    <3>4. SingleOwner' /\ \A h \in G : LoosenessKept(h)
      BY <1>inv, <3>1, OwnerSame DEF Inv2
    <3>5. \A p \in M, h \in G : Waking(p, h)' => Waking(p, h)
      BY <1>ReadyCancel, <1>inv, <2>1, <2>3, <3>2, <3>3, <3>1, Consts
         DEF Waking, ReadyPCs, Goto, At, BaseTypeOK, ReadyCancel
    <3>6. OneWaker' /\ \A h \in G : CanBeWoken(h)' => CanBeWoken(h)
      BY <1>inv, <3>5, <3>1, WakeFrame DEF Inv2
    <3>7. \A n \in M :
          /\ pc[n] = "park" =>
               pc'[n] = "park" /\ reg'[n]["curg"] = reg[n]["curg"]
          /\ reg'[n]["park_g"] = reg[n]["park_g"]
      BY <1>ReadyCancel, <1>inv, <2>1, <2>3, <3>2, <3>3, <3>1, RegNames
         DEF Goto, At, BaseTypeOK, ReadyCancel
    <3>8. \A h \in G : CanBeWoken(h)' => Parked(h)' \/ Kept(h)
      BY <2>1, <2>3, <3>2, <3>3, <3>4, <3>6, <3>7, <3>1 DEF Kept
    <3>9. SeenAt(m)'
      BY <1>ReadyCancel, <1>inv, <2>1, <2>3, <3>2, <3>3, <3>1
         DEF SeenAt, At, Goto, BaseTypeOK, ReadyCancel, Inv2, SeenIsSafe
    <3>10. \A n \in M : pc[n] \in {"cas2", "store"} =>
        tgt[n] \in G /\ CanBeWoken(tgt[n])
      BY <1>inv, Pointers DEF CanBeWoken, Waking, ReadyPCs
    <3>11. \A n \in M : SeenAt(n)' \/ SeenKept(n)
      BY <1>ReadyCancel, <1>inv, <2>1, <2>3, <3>2, <3>3, <3>1, <3>9, <3>10
         DEF SeenAt, SeenKept, At, Goto, BaseTypeOK, ReadyCancel
    <3>12. \A h \in G : (h \in deadq' \/ status'[h] = "free" =>
        (h \in deadq \/ status[h] = "free"))
      BY <1>ReadyCancel, <1>inv, <2>1, <2>3, <3>2, <3>3, <3>1
         DEF ReadyCancel, BaseTypeOK, Statuses
    <3>13. DeadNotFree'
      BY <1>ReadyCancel, <1>inv, <2>1, <2>3, <3>2, <3>3, <3>1, <3>12
         DEF DeadNotFree, Inv2, ReadyCancel, BaseTypeOK
    <3>14. \A h \in G : GoneAt(h)'
      BY <1>inv, <2>1, <2>3, <3>2, <3>3, <3>4, <3>6, <3>12, <3>1, SplitInv2
         DEF GoneAt, LoosenessKept
    <3> QED
      BY <1>inv, <3>4, <3>6, <3>8, <3>11, <3>13, <3>14, Keep
  <2> QED
    BY <2>2, <2>3
<1>ReadyMark. ASSUME NEW m \in M, ReadyMark(m) PROVE Inv2'
  <2>1. tgt[m] \in G
    BY <1>ReadyMark, <1>inv, Pointers DEF ReadyMark, At
  <2>2. UNCHANGED <<reg, seen, cand, parking, lockedm, runq, allg, deadq, allm,
                    waitq, sleepers, nsleep, schedLock, togo, found, proc>>
    BY <1>ReadyMark, <1>inv, <2>1
       DEF ReadyMark, Return, threads, frames, gs, lists, waits, scan
  <2>3. SingleOwner' /\ \A h \in G : LoosenessKept(h)
    BY <1>inv, <2>2, OwnerSame DEF Inv2
  <2>4. \A p \in M, h \in G : Waking(p, h)' => Waking(p, h)
    BY <1>ReadyMark, <1>inv, <2>1, <2>2, Consts
       DEF Waking, ReadyPCs, Goto, At, BaseTypeOK, ReadyMark, Return
  <2>5. OneWaker' /\ \A h \in G : CanBeWoken(h)' => CanBeWoken(h)
    BY <1>inv, <2>4, <2>2, WakeFrame DEF Inv2
  <2>6. \A n \in M :
        /\ pc[n] = "park" => pc'[n] = "park" /\ reg'[n]["curg"] = reg[n]["curg"]
        /\ reg'[n]["park_g"] = reg[n]["park_g"]
    BY <1>ReadyMark, <1>inv, <2>1, <2>2, RegNames
       DEF Goto, At, BaseTypeOK, ReadyMark, Return
  <2>7. \A h \in G : CanBeWoken(h)' => Parked(h)' \/ Kept(h)
    BY <2>1, <2>3, <2>5, <2>6, <2>2 DEF Kept
  <2>8. SeenAt(m)'
    BY <1>ReadyMark, <1>inv, <2>1, <2>2, Consts
       DEF SeenAt, At, Goto, BaseTypeOK, ReadyMark, Return
  <2>9. \A n \in M : pc[n] \in {"cas2", "store"} =>
      tgt[n] \in G /\ CanBeWoken(tgt[n])
    BY <1>inv, Pointers DEF CanBeWoken, Waking, ReadyPCs
  <2>10. \A n \in M : SeenAt(n)' \/ SeenKept(n)
    BY <1>ReadyMark, <1>inv, <2>1, <2>2, <2>8, <2>9
       DEF SeenAt, SeenKept, At, Goto, BaseTypeOK, ReadyMark, Return
  <2>11. \A h \in G : (h \in deadq' \/ status'[h] = "free" =>
      (h \in deadq \/ status[h] = "free"))
    BY <1>ReadyMark, <1>inv, <2>1, <2>2
       DEF ReadyMark, Return, BaseTypeOK, Statuses
  <2>12. DeadNotFree'
    BY <1>ReadyMark, <1>inv, <2>1, <2>2, <2>11
       DEF DeadNotFree, Inv2, ReadyMark, Return, BaseTypeOK
  <2>13. \A h \in G : GoneAt(h)'
    BY <1>inv, <2>1, <2>3, <2>5, <2>11, <2>2, SplitInv2
       DEF GoneAt, LoosenessKept
  <2> QED
    BY <1>inv, <2>3, <2>5, <2>7, <2>10, <2>12, <2>13, Keep
<1>ReadyPend. ASSUME NEW m \in M, ReadyPend(m) PROVE Inv2'
  <2>1. tgt[m] \in G
    BY <1>ReadyPend, <1>inv, Pointers DEF ReadyPend, At
  <2>2. CASE seen[m] = 2 /\ parking[tgt[m]] = 2
    <3>1. UNCHANGED <<reg, cand, status, lockedm, runq, allg, deadq, allm,
                      waitq, sleepers, nsleep, schedLock, togo, found, proc>>
      BY <1>ReadyPend, <1>inv, <2>1, <2>2
         DEF ReadyPend, Return, threads, frames, gs, lists, waits, scan
    <3>2. PICK x \in G : x = tgt[m]
      BY <2>1, <2>2
    <3>3. Waking(m, x) /\ CanBeWoken(x)
      BY <1>ReadyPend, <1>inv, <2>1, <2>2, <3>2
         DEF ReadyPend, At, Waking, CanBeWoken, ReadyPCs
    <3>4. SingleOwner' /\ \A h \in G : LoosenessKept(h)
      BY <1>inv, <3>1, OwnerSame DEF Inv2
    <3>5. \A p \in M, h \in G : Waking(p, h)' => p # m /\ Waking(p, h)
      BY <1>ReadyPend, <1>inv, <2>1, <2>2, <3>2, <3>3, <3>1, Consts
         DEF Waking, ReadyPCs, Goto, At, BaseTypeOK, ReadyPend, Return
    <3>6. ~CanBeWoken(x)'
      BY <1>inv, <2>1, <2>2, <3>2, <3>3, <3>5, <3>1, WakerLeaves DEF Inv2
    <3>7. OneWaker' /\ \A h \in G : CanBeWoken(h)' => CanBeWoken(h)
      BY <1>inv, <3>5, <3>1, WakeFrame DEF Inv2
    <3>8. \A n \in M :
          /\ pc[n] = "park" =>
               pc'[n] = "park" /\ reg'[n]["curg"] = reg[n]["curg"]
          /\ reg'[n]["park_g"] = reg[n]["park_g"]
      BY <1>ReadyPend, <1>inv, <2>1, <2>2, <3>2, <3>3, <3>1, RegNames
         DEF Goto, At, BaseTypeOK, ReadyPend, Return
    <3>9. \A h \in G : h # x => parking'[h] = parking[h]
      BY <1>ReadyPend, <1>inv, <2>1, <2>2, <3>2, <3>3
         DEF BaseTypeOK, ReadyPend, Return
    <3>10. \A h \in G : CanBeWoken(h)' => Parked(h)' \/ Kept(h)
      BY <2>1, <2>2, <3>2, <3>3, <3>4, <3>7, <3>6, <3>8, <3>9, <3>1 DEF Kept
    <3>11. SeenAt(m)'
      BY <1>ReadyPend, <1>inv, <2>1, <2>2, <3>2, <3>3, <3>1, Consts
         DEF SeenAt, At, Goto, BaseTypeOK, ReadyPend, Return
    <3>12. \A n \in M : pc[n] \in {"cas2", "store"} =>
        tgt[n] \in G /\ CanBeWoken(tgt[n])
      BY <1>inv, Pointers DEF CanBeWoken, Waking, ReadyPCs
    <3>13. \A n \in M : pc[n] \in {"cas2", "store"} /\ n # m => tgt[n] # x
      BY <1>ReadyPend, <1>inv, <2>1, <2>2, <3>2, <3>3
         DEF Inv2, OneWaker, Waking, ReadyPCs
    <3>14. \A n \in M : SeenAt(n)' \/ SeenKept(n)
      BY <1>ReadyPend, <1>inv, <2>1, <2>2, <3>2, <3>3, <3>1, <3>11, <3>12, <3>9,
         <3>13
         DEF SeenAt, SeenKept, At, Goto, BaseTypeOK, ReadyPend, Return
    <3>15. \A h \in G : (h \in deadq' \/ status'[h] = "free" =>
        (h \in deadq \/ status[h] = "free"))
      BY <1>ReadyPend, <1>inv, <2>1, <2>2, <3>2, <3>3, <3>1
         DEF ReadyPend, Return, BaseTypeOK, Statuses
    <3>16. DeadNotFree'
      BY <1>ReadyPend, <1>inv, <2>1, <2>2, <3>2, <3>3, <3>1, <3>15
         DEF DeadNotFree, Inv2, ReadyPend, Return, BaseTypeOK
    <3>17. \A h \in G : GoneAt(h)'
      BY <1>inv, <2>1, <2>2, <3>2, <3>3, <3>4, <3>7, <3>15, <3>1, SplitInv2
         DEF GoneAt, LoosenessKept
    <3> QED
      BY <1>inv, <3>4, <3>7, <3>10, <3>14, <3>16, <3>17, Keep
  <2>3. CASE (~(seen[m] = 2 /\ parking[tgt[m]] = 2)) /\ (IF seen[m] =
      2 THEN parking[tgt[m]] ELSE seen[m]) = 3
    <3>1. UNCHANGED <<reg, cand, status, parking, lockedm, runq, allg, deadq,
                      allm, waitq, sleepers, nsleep, schedLock, togo, found,
                      proc>>
      BY <1>ReadyPend, <1>inv, <2>1, <2>3
         DEF ReadyPend, Return, threads, frames, gs, lists, waits, scan
    <3>2. SingleOwner' /\ \A h \in G : LoosenessKept(h)
      BY <1>inv, <3>1, OwnerSame DEF Inv2
    <3>3. \A p \in M, h \in G : Waking(p, h)' => Waking(p, h)
      BY <1>ReadyPend, <1>inv, <2>1, <2>3, <3>1, Consts
         DEF Waking, ReadyPCs, Goto, At, BaseTypeOK, ReadyPend, Return
    <3>4. OneWaker' /\ \A h \in G : CanBeWoken(h)' => CanBeWoken(h)
      BY <1>inv, <3>3, <3>1, WakeFrame DEF Inv2
    <3>5. \A n \in M :
          /\ pc[n] = "park" =>
               pc'[n] = "park" /\ reg'[n]["curg"] = reg[n]["curg"]
          /\ reg'[n]["park_g"] = reg[n]["park_g"]
      BY <1>ReadyPend, <1>inv, <2>1, <2>3, <3>1, RegNames
         DEF Goto, At, BaseTypeOK, ReadyPend, Return
    <3>6. \A h \in G : CanBeWoken(h)' => Parked(h)' \/ Kept(h)
      BY <2>1, <2>3, <3>2, <3>4, <3>5, <3>1 DEF Kept
    <3>7. SeenAt(m)'
      BY <1>ReadyPend, <1>inv, <2>1, <2>3, <3>1, Consts
         DEF SeenAt, At, Goto, BaseTypeOK, ReadyPend, Return
    <3>8. \A n \in M : pc[n] \in {"cas2", "store"} =>
        tgt[n] \in G /\ CanBeWoken(tgt[n])
      BY <1>inv, Pointers DEF CanBeWoken, Waking, ReadyPCs
    <3>9. \A n \in M : SeenAt(n)' \/ SeenKept(n)
      BY <1>ReadyPend, <1>inv, <2>1, <2>3, <3>1, <3>7, <3>8
         DEF SeenAt, SeenKept, At, Goto, BaseTypeOK, ReadyPend, Return
    <3>10. \A h \in G : (h \in deadq' \/ status'[h] = "free" =>
        (h \in deadq \/ status[h] = "free"))
      BY <1>ReadyPend, <1>inv, <2>1, <2>3, <3>1
         DEF ReadyPend, Return, BaseTypeOK, Statuses
    <3>11. DeadNotFree'
      BY <1>ReadyPend, <1>inv, <2>1, <2>3, <3>1, <3>10
         DEF DeadNotFree, Inv2, ReadyPend, Return, BaseTypeOK
    <3>12. \A h \in G : GoneAt(h)'
      BY <1>inv, <2>1, <2>3, <3>2, <3>4, <3>10, <3>1, SplitInv2
         DEF GoneAt, LoosenessKept
    <3> QED
      BY <1>inv, <3>2, <3>4, <3>6, <3>9, <3>11, <3>12, Keep
  <2>4. CASE (~(seen[m] = 2 /\ parking[tgt[m]] = 2)) /\ (IF seen[m] =
      2 THEN parking[tgt[m]] ELSE seen[m]) # 3
    <3>1. UNCHANGED <<reg, tgt, cand, ret, status, parking, lockedm, runq, allg,
                      deadq, allm, waitq, sleepers, nsleep, schedLock, togo,
                      found, proc>>
      BY <1>ReadyPend, <1>inv, <2>1, <2>4
         DEF ReadyPend, Return, threads, frames, gs, lists, waits, scan
    <3>2. PICK x \in G : x = tgt[m]
      BY <2>1, <2>4
    <3>3. Waking(m, x) /\ CanBeWoken(x)
      BY <1>ReadyPend, <1>inv, <2>1, <2>4, <3>2
         DEF ReadyPend, At, Waking, CanBeWoken, ReadyPCs
    <3>4. SingleOwner' /\ \A h \in G : LoosenessKept(h)
      BY <1>inv, <3>1, OwnerSame DEF Inv2
    <3>5. \A p \in M, h \in G : Waking(p, h)' => Waking(p, h)
      BY <1>ReadyPend, <1>inv, <2>1, <2>4, <3>2, <3>3, <3>1, Consts
         DEF Waking, ReadyPCs, Goto, At, BaseTypeOK, ReadyPend, Return
    <3>6. OneWaker' /\ \A h \in G : CanBeWoken(h)' => CanBeWoken(h)
      BY <1>inv, <3>5, <3>1, WakeFrame DEF Inv2
    <3>7. \A n \in M :
          /\ pc[n] = "park" =>
               pc'[n] = "park" /\ reg'[n]["curg"] = reg[n]["curg"]
          /\ reg'[n]["park_g"] = reg[n]["park_g"]
      BY <1>ReadyPend, <1>inv, <2>1, <2>4, <3>2, <3>3, <3>1, RegNames
         DEF Goto, At, BaseTypeOK, ReadyPend, Return
    <3>8. \A h \in G : CanBeWoken(h)' => Parked(h)' \/ Kept(h)
      BY <2>1, <2>4, <3>2, <3>3, <3>4, <3>6, <3>7, <3>1 DEF Kept
    <3>9. SeenAt(m)'
      BY <1>ReadyPend, <1>inv, <2>1, <2>4, <3>2, <3>3, <3>1
         DEF SeenAt, At, Goto, BaseTypeOK, ReadyPend, Return, Inv2, SeenIsSafe
    <3>10. \A n \in M : pc[n] \in {"cas2", "store"} =>
        tgt[n] \in G /\ CanBeWoken(tgt[n])
      BY <1>inv, Pointers DEF CanBeWoken, Waking, ReadyPCs
    <3>11. \A n \in M : SeenAt(n)' \/ SeenKept(n)
      BY <1>ReadyPend, <1>inv, <2>1, <2>4, <3>2, <3>3, <3>1, <3>9, <3>10
         DEF SeenAt, SeenKept, At, Goto, BaseTypeOK, ReadyPend, Return
    <3>12. \A h \in G : (h \in deadq' \/ status'[h] = "free" =>
        (h \in deadq \/ status[h] = "free"))
      BY <1>ReadyPend, <1>inv, <2>1, <2>4, <3>2, <3>3, <3>1
         DEF ReadyPend, Return, BaseTypeOK, Statuses
    <3>13. DeadNotFree'
      BY <1>ReadyPend, <1>inv, <2>1, <2>4, <3>2, <3>3, <3>1, <3>12
         DEF DeadNotFree, Inv2, ReadyPend, Return, BaseTypeOK
    <3>14. \A h \in G : GoneAt(h)'
      BY <1>inv, <2>1, <2>4, <3>2, <3>3, <3>4, <3>6, <3>12, <3>1, SplitInv2
         DEF GoneAt, LoosenessKept
    <3> QED
      BY <1>inv, <3>4, <3>6, <3>8, <3>11, <3>13, <3>14, Keep
  <2> QED
    BY <2>2, <2>3, <2>4
<1>ReadyParked. ASSUME NEW m \in M, ReadyParked(m) PROVE Inv2'
  <2>1. tgt[m] \in G
    BY <1>ReadyParked, <1>inv, Pointers DEF ReadyParked, At
  <2>2. CASE status[tgt[m]] = "waiting"
    <3>1. UNCHANGED <<seen, cand, ret, lockedm, runq, allg, deadq, allm, waitq,
                      sleepers, nsleep, schedLock, togo, found, proc>>
      BY <1>ReadyParked, <1>inv, <2>1, <2>2
         DEF ReadyParked, Return, threads, frames, gs, lists, waits, scan
    <3>2. PICK x \in G : x = tgt[m]
      BY <2>1, <2>2
    <3>3. Waking(m, x) /\ CanBeWoken(x)
      BY <1>ReadyParked, <1>inv, <2>1, <2>2, <3>2
         DEF ReadyParked, At, Waking, CanBeWoken, ReadyPCs
    <3>4. parking[x] = 0
      BY <1>ReadyParked, <1>inv, <2>1, <2>2, <3>2, <3>3
         DEF ReadyParked, At, Inv2, SeenIsSafe
    <3>5. Loose(x)
      BY <1>inv, <3>4, <3>3, SplitInv2 DEF Parked
    <3>6. reg' = Put(m, "enq", tgt[m])
      BY <1>ReadyParked, <1>inv, <2>1, <2>2, <3>2, <3>3, <3>4, <3>5
         DEF ReadyParked, Return
    <3>7. PutRegs(m, "enq", tgt[m])
      BY <1>inv, <2>1, <3>6, PutShape, RegNames
    <3>8. SingleOwner' /\ \A h \in G : h # x => LoosenessKept(h)
      BY <1>inv, <2>1, <2>2, <3>2, <3>3, <3>4, <3>5, <3>7, <3>1, OwnerPut,
         RegNames, Consts
         DEF Inv2
    <3>9. \A p \in M, h \in G : Waking(p, h)' => p # m /\ Waking(p, h)
      BY <1>ReadyParked, <1>inv, <2>1, <2>2, <3>2, <3>3, <3>4, <3>5, <3>1,
         Consts
         DEF Waking, ReadyPCs, Goto, At, BaseTypeOK, ReadyParked, Return
    <3>10. ~CanBeWoken(x)'
      BY <1>inv, <2>1, <2>2, <3>2, <3>3, <3>4, <3>5, <3>9, <3>1, WakerLeaves
         DEF Inv2
    <3>11. OneWaker' /\ \A h \in G : CanBeWoken(h)' => CanBeWoken(h)
      BY <1>inv, <3>9, <3>1, WakeFrame DEF Inv2
    <3>12. \A n \in M :
          /\ pc[n] = "park" =>
               pc'[n] = "park" /\ reg'[n]["curg"] = reg[n]["curg"]
          /\ reg'[n]["park_g"] = reg[n]["park_g"]
      BY <1>ReadyParked, <1>inv, <2>1, <2>2, <3>2, <3>3, <3>4, <3>5, <3>1, <3>7,
         RegNames
         DEF Goto, At, BaseTypeOK, ReadyParked, Return, PutRegs
    <3>13. \A h \in G : h # x => parking'[h] = parking[h]
      BY <1>ReadyParked, <1>inv, <2>1, <2>2, <3>2, <3>3, <3>4, <3>5
         DEF BaseTypeOK, ReadyParked, Return
    <3>14. \A h \in G : CanBeWoken(h)' => Parked(h)' \/ Kept(h)
      BY <2>1, <2>2, <3>2, <3>3, <3>4, <3>5, <3>8, <3>11, <3>10, <3>12, <3>13,
         <3>1
         DEF Kept
    <3>15. SeenAt(m)'
      BY <1>ReadyParked, <1>inv, <2>1, <2>2, <3>2, <3>3, <3>4, <3>5, <3>1,
         Consts
         DEF SeenAt, At, Goto, BaseTypeOK, ReadyParked, Return
    <3>16. \A n \in M : pc[n] \in {"cas2", "store"} =>
        tgt[n] \in G /\ CanBeWoken(tgt[n])
      BY <1>inv, Pointers DEF CanBeWoken, Waking, ReadyPCs
    <3>17. \A n \in M : pc[n] \in {"cas2", "store"} /\ n # m => tgt[n] # x
      BY <1>ReadyParked, <1>inv, <2>1, <2>2, <3>2, <3>3, <3>4, <3>5
         DEF Inv2, OneWaker, Waking, ReadyPCs
    <3>18. \A n \in M : SeenAt(n)' \/ SeenKept(n)
      BY <1>ReadyParked, <1>inv, <2>1, <2>2, <3>2, <3>3, <3>4, <3>5, <3>1,
         <3>15, <3>16, <3>13, <3>17
         DEF SeenAt, SeenKept, At, Goto, BaseTypeOK, ReadyParked, Return
    <3>19. x \notin deadq /\ status[x] # "free"
      BY <1>ReadyParked, <1>inv, <2>1, <2>2, <3>2, <3>3, <3>4, <3>5
         DEF Inv2, GoneForGood
    <3>20. \A h \in G : (h \in deadq' \/ status'[h] = "free" =>
        (h \in deadq \/ status[h] = "free") /\ h # x)
      BY <1>ReadyParked, <1>inv, <2>1, <2>2, <3>2, <3>3, <3>4, <3>5, <3>19, <3>1
         DEF ReadyParked, Return, BaseTypeOK, Statuses
    <3>21. DeadNotFree'
      BY <1>ReadyParked, <1>inv, <2>1, <2>2, <3>2, <3>3, <3>4, <3>5, <3>19,
         <3>1, <3>20
         DEF DeadNotFree, Inv2, ReadyParked, Return, BaseTypeOK
    <3>22. \A h \in G : GoneAt(h)'
      BY <1>inv, <2>1, <2>2, <3>2, <3>3, <3>4, <3>5, <3>19, <3>8, <3>11, <3>20,
         <3>1, SplitInv2
         DEF GoneAt, LoosenessKept
    <3> QED
      BY <1>inv, <3>8, <3>11, <3>14, <3>18, <3>21, <3>22, Keep
  <2>3. CASE status[tgt[m]] # "waiting"
    <3>1. UNCHANGED <<reg, seen, cand, status, lockedm, runq, allg, deadq, allm,
                      waitq, sleepers, nsleep, schedLock, togo, found, proc>>
      BY <1>ReadyParked, <1>inv, <2>1, <2>3
         DEF ReadyParked, Return, threads, frames, gs, lists, waits, scan
    <3>2. PICK x \in G : x = tgt[m]
      BY <2>1, <2>3
    <3>3. Waking(m, x) /\ CanBeWoken(x)
      BY <1>ReadyParked, <1>inv, <2>1, <2>3, <3>2
         DEF ReadyParked, At, Waking, CanBeWoken, ReadyPCs
    <3>4. SingleOwner' /\ \A h \in G : LoosenessKept(h)
      BY <1>inv, <3>1, OwnerSame DEF Inv2
    <3>5. \A p \in M, h \in G : Waking(p, h)' => p # m /\ Waking(p, h)
      BY <1>ReadyParked, <1>inv, <2>1, <2>3, <3>2, <3>3, <3>1, Consts
         DEF Waking, ReadyPCs, Goto, At, BaseTypeOK, ReadyParked, Return
    <3>6. ~CanBeWoken(x)'
      BY <1>inv, <2>1, <2>3, <3>2, <3>3, <3>5, <3>1, WakerLeaves DEF Inv2
    <3>7. OneWaker' /\ \A h \in G : CanBeWoken(h)' => CanBeWoken(h)
      BY <1>inv, <3>5, <3>1, WakeFrame DEF Inv2
    <3>8. \A n \in M :
          /\ pc[n] = "park" =>
               pc'[n] = "park" /\ reg'[n]["curg"] = reg[n]["curg"]
          /\ reg'[n]["park_g"] = reg[n]["park_g"]
      BY <1>ReadyParked, <1>inv, <2>1, <2>3, <3>2, <3>3, <3>1, RegNames
         DEF Goto, At, BaseTypeOK, ReadyParked, Return
    <3>9. \A h \in G : h # x => parking'[h] = parking[h]
      BY <1>ReadyParked, <1>inv, <2>1, <2>3, <3>2, <3>3
         DEF BaseTypeOK, ReadyParked, Return
    <3>10. \A h \in G : CanBeWoken(h)' => Parked(h)' \/ Kept(h)
      BY <2>1, <2>3, <3>2, <3>3, <3>4, <3>7, <3>6, <3>8, <3>9, <3>1 DEF Kept
    <3>11. SeenAt(m)'
      BY <1>ReadyParked, <1>inv, <2>1, <2>3, <3>2, <3>3, <3>1, Consts
         DEF SeenAt, At, Goto, BaseTypeOK, ReadyParked, Return
    <3>12. \A n \in M : pc[n] \in {"cas2", "store"} =>
        tgt[n] \in G /\ CanBeWoken(tgt[n])
      BY <1>inv, Pointers DEF CanBeWoken, Waking, ReadyPCs
    <3>13. \A n \in M : pc[n] \in {"cas2", "store"} /\ n # m => tgt[n] # x
      BY <1>ReadyParked, <1>inv, <2>1, <2>3, <3>2, <3>3
         DEF Inv2, OneWaker, Waking, ReadyPCs
    <3>14. \A n \in M : SeenAt(n)' \/ SeenKept(n)
      BY <1>ReadyParked, <1>inv, <2>1, <2>3, <3>2, <3>3, <3>1, <3>11, <3>12,
         <3>9, <3>13
         DEF SeenAt, SeenKept, At, Goto, BaseTypeOK, ReadyParked, Return
    <3>15. \A h \in G : (h \in deadq' \/ status'[h] = "free" =>
        (h \in deadq \/ status[h] = "free"))
      BY <1>ReadyParked, <1>inv, <2>1, <2>3, <3>2, <3>3, <3>1
         DEF ReadyParked, Return, BaseTypeOK, Statuses
    <3>16. DeadNotFree'
      BY <1>ReadyParked, <1>inv, <2>1, <2>3, <3>2, <3>3, <3>1, <3>15
         DEF DeadNotFree, Inv2, ReadyParked, Return, BaseTypeOK
    <3>17. \A h \in G : GoneAt(h)'
      BY <1>inv, <2>1, <2>3, <3>2, <3>3, <3>4, <3>7, <3>15, <3>1, SplitInv2
         DEF GoneAt, LoosenessKept
    <3> QED
      BY <1>inv, <3>4, <3>7, <3>10, <3>14, <3>16, <3>17, Keep
  <2> QED
    BY <2>2, <2>3
<1>EnqueueFind. ASSUME NEW m \in M, EnqueueFind(m) PROVE Inv2'
  <2>1. reg[m]["enq"] \in G
    BY <1>EnqueueFind, <1>inv, Pointers DEF EnqueueFind, At
  <2>2. CASE lockedm[reg[m]["enq"]] = None /\ Idle(m) # {}
    <3>1. UNCHANGED <<reg, tgt, seen, ret, status, parking, lockedm, runq, allg,
                      deadq, allm, waitq, sleepers, nsleep, schedLock, togo,
                      found, proc>>
      BY <1>EnqueueFind, <1>inv, <2>1, <2>2
         DEF EnqueueFind, threads, frames, gs, lists, waits, scan
    <3>2. SingleOwner' /\ \A h \in G : LoosenessKept(h)
      BY <1>inv, <3>1, OwnerSame DEF Inv2
    <3>3. \A p \in M, h \in G : Waking(p, h)' => Waking(p, h)
      BY <1>EnqueueFind, <1>inv, <2>1, <2>2, <3>1, Consts
         DEF Waking, ReadyPCs, Goto, At, BaseTypeOK, EnqueueFind
    <3>4. OneWaker' /\ \A h \in G : CanBeWoken(h)' => CanBeWoken(h)
      BY <1>inv, <3>3, <3>1, WakeFrame DEF Inv2
    <3>5. \A n \in M :
          /\ pc[n] = "park" =>
               pc'[n] = "park" /\ reg'[n]["curg"] = reg[n]["curg"]
          /\ reg'[n]["park_g"] = reg[n]["park_g"]
      BY <1>EnqueueFind, <1>inv, <2>1, <2>2, <3>1, RegNames
         DEF Goto, At, BaseTypeOK, EnqueueFind
    <3>6. \A h \in G : CanBeWoken(h)' => Parked(h)' \/ Kept(h)
      BY <2>1, <2>2, <3>2, <3>4, <3>5, <3>1 DEF Kept
    <3>7. SeenAt(m)'
      BY <1>EnqueueFind, <1>inv, <2>1, <2>2, <3>1, Consts
         DEF SeenAt, At, Goto, BaseTypeOK, EnqueueFind
    <3>8. \A n \in M : pc[n] \in {"cas2", "store"} =>
        tgt[n] \in G /\ CanBeWoken(tgt[n])
      BY <1>inv, Pointers DEF CanBeWoken, Waking, ReadyPCs
    <3>9. \A n \in M : SeenAt(n)' \/ SeenKept(n)
      BY <1>EnqueueFind, <1>inv, <2>1, <2>2, <3>1, <3>7, <3>8
         DEF SeenAt, SeenKept, At, Goto, BaseTypeOK, EnqueueFind
    <3>10. \A h \in G : (h \in deadq' \/ status'[h] = "free" =>
        (h \in deadq \/ status[h] = "free"))
      BY <1>EnqueueFind, <1>inv, <2>1, <2>2, <3>1
         DEF EnqueueFind, BaseTypeOK, Statuses
    <3>11. DeadNotFree'
      BY <1>EnqueueFind, <1>inv, <2>1, <2>2, <3>1, <3>10
         DEF DeadNotFree, Inv2, EnqueueFind, BaseTypeOK
    <3>12. \A h \in G : GoneAt(h)'
      BY <1>inv, <2>1, <2>2, <3>2, <3>4, <3>10, <3>1, SplitInv2
         DEF GoneAt, LoosenessKept
    <3> QED
      BY <1>inv, <3>2, <3>4, <3>6, <3>9, <3>11, <3>12, Keep
  <2>3. CASE ~(lockedm[reg[m]["enq"]] = None /\ Idle(m) # {})
    <3>1. UNCHANGED <<reg, tgt, seen, cand, ret, status, parking, lockedm, runq,
                      allg, deadq, allm, waitq, sleepers, nsleep, schedLock,
                      togo, found, proc>>
      BY <1>EnqueueFind, <1>inv, <2>1, <2>3
         DEF EnqueueFind, threads, frames, gs, lists, waits, scan
    <3>2. SingleOwner' /\ \A h \in G : LoosenessKept(h)
      BY <1>inv, <3>1, OwnerSame DEF Inv2
    <3>3. \A p \in M, h \in G : Waking(p, h)' => Waking(p, h)
      BY <1>EnqueueFind, <1>inv, <2>1, <2>3, <3>1, Consts
         DEF Waking, ReadyPCs, Goto, At, BaseTypeOK, EnqueueFind
    <3>4. OneWaker' /\ \A h \in G : CanBeWoken(h)' => CanBeWoken(h)
      BY <1>inv, <3>3, <3>1, WakeFrame DEF Inv2
    <3>5. \A n \in M :
          /\ pc[n] = "park" =>
               pc'[n] = "park" /\ reg'[n]["curg"] = reg[n]["curg"]
          /\ reg'[n]["park_g"] = reg[n]["park_g"]
      BY <1>EnqueueFind, <1>inv, <2>1, <2>3, <3>1, RegNames
         DEF Goto, At, BaseTypeOK, EnqueueFind
    <3>6. \A h \in G : CanBeWoken(h)' => Parked(h)' \/ Kept(h)
      BY <2>1, <2>3, <3>2, <3>4, <3>5, <3>1 DEF Kept
    <3>7. SeenAt(m)'
      BY <1>EnqueueFind, <1>inv, <2>1, <2>3, <3>1, Consts
         DEF SeenAt, At, Goto, BaseTypeOK, EnqueueFind
    <3>8. \A n \in M : pc[n] \in {"cas2", "store"} =>
        tgt[n] \in G /\ CanBeWoken(tgt[n])
      BY <1>inv, Pointers DEF CanBeWoken, Waking, ReadyPCs
    <3>9. \A n \in M : SeenAt(n)' \/ SeenKept(n)
      BY <1>EnqueueFind, <1>inv, <2>1, <2>3, <3>1, <3>7, <3>8
         DEF SeenAt, SeenKept, At, Goto, BaseTypeOK, EnqueueFind
    <3>10. \A h \in G : (h \in deadq' \/ status'[h] = "free" =>
        (h \in deadq \/ status[h] = "free"))
      BY <1>EnqueueFind, <1>inv, <2>1, <2>3, <3>1
         DEF EnqueueFind, BaseTypeOK, Statuses
    <3>11. DeadNotFree'
      BY <1>EnqueueFind, <1>inv, <2>1, <2>3, <3>1, <3>10
         DEF DeadNotFree, Inv2, EnqueueFind, BaseTypeOK
    <3>12. \A h \in G : GoneAt(h)'
      BY <1>inv, <2>1, <2>3, <3>2, <3>4, <3>10, <3>1, SplitInv2
         DEF GoneAt, LoosenessKept
    <3> QED
      BY <1>inv, <3>2, <3>4, <3>6, <3>9, <3>11, <3>12, Keep
  <2> QED
    BY <2>2, <2>3
<1>EnqueueHand. ASSUME NEW m \in M, EnqueueHand(m) PROVE Inv2'
  <2>1. reg[m]["enq"] \in G /\ cand[m] \in M
    BY <1>EnqueueHand, <1>inv, Pointers DEF EnqueueHand, At
  <2>2. CASE reg[cand[m]]["nextg"] = None
    <3>1. UNCHANGED <<tgt, seen, status, parking, lockedm, runq, allg, deadq,
                      allm, waitq, sleepers, nsleep, schedLock, togo, found,
                      proc>>
      BY <1>EnqueueHand, <1>inv, <2>1, <2>2
         DEF EnqueueHand, Return, threads, frames, gs, lists, waits, scan
    <3>2. reg' = Move(m, "enq", cand[m], "nextg")
      BY <1>EnqueueHand, <1>inv, <2>1, <2>2 DEF EnqueueHand, Return
    <3>3. HandRegs(m, "enq", cand[m], "nextg")
      BY <1>inv, <2>1, <3>2, HandShape, RegNames
    <3>4. SingleOwner' /\ \A h \in G : LoosenessKept(h)
      BY <1>inv, <2>1, <2>2, <3>3, <3>1, OwnerHand, RegNames, Consts DEF Inv2
    <3>5. \A p \in M, h \in G : Waking(p, h)' => Waking(p, h)
      BY <1>EnqueueHand, <1>inv, <2>1, <2>2, <3>1, Consts, ZenonT(60)
         DEF Waking, ReadyPCs, Goto, At, BaseTypeOK, EnqueueHand, Return
    <3>6. OneWaker' /\ \A h \in G : CanBeWoken(h)' => CanBeWoken(h)
      BY <1>inv, <3>5, <3>1, WakeFrame DEF Inv2
    <3>7. \A n \in M :
          /\ pc[n] = "park" =>
               pc'[n] = "park" /\ reg'[n]["curg"] = reg[n]["curg"]
          /\ reg'[n]["park_g"] = reg[n]["park_g"]
      BY <1>EnqueueHand, <1>inv, <2>1, <2>2, <3>1, <3>3, RegNames
         DEF Goto, At, BaseTypeOK, EnqueueHand, Return, HandRegs
    <3>8. \A h \in G : CanBeWoken(h)' => Parked(h)' \/ Kept(h)
      BY <2>1, <2>2, <3>4, <3>6, <3>7, <3>1 DEF Kept
    <3>9. SeenAt(m)'
      BY <1>EnqueueHand, <1>inv, <2>1, <2>2, <3>1, Consts
         DEF SeenAt, At, Goto, BaseTypeOK, EnqueueHand, Return
    <3>10. \A n \in M : pc[n] \in {"cas2", "store"} =>
        tgt[n] \in G /\ CanBeWoken(tgt[n])
      BY <1>inv, Pointers DEF CanBeWoken, Waking, ReadyPCs
    <3>11. \A n \in M : SeenAt(n)' \/ SeenKept(n)
      BY <1>EnqueueHand, <1>inv, <2>1, <2>2, <3>1, <3>9, <3>10
         DEF SeenAt, SeenKept, At, Goto, BaseTypeOK, EnqueueHand, Return
    <3>12. \A h \in G : (h \in deadq' \/ status'[h] = "free" =>
        (h \in deadq \/ status[h] = "free"))
      BY <1>EnqueueHand, <1>inv, <2>1, <2>2, <3>1
         DEF EnqueueHand, Return, BaseTypeOK, Statuses
    <3>13. DeadNotFree'
      BY <1>EnqueueHand, <1>inv, <2>1, <2>2, <3>1, <3>12
         DEF DeadNotFree, Inv2, EnqueueHand, Return, BaseTypeOK
    <3>14. \A h \in G : GoneAt(h)'
      BY <1>inv, <2>1, <2>2, <3>4, <3>6, <3>12, <3>1, SplitInv2
         DEF GoneAt, LoosenessKept
    <3> QED
      BY <1>inv, <3>4, <3>6, <3>8, <3>11, <3>13, <3>14, Keep
  <2>3. CASE reg[cand[m]]["nextg"] # None
    <3>1. UNCHANGED <<reg, tgt, seen, ret, status, parking, lockedm, runq, allg,
                      deadq, allm, waitq, sleepers, nsleep, schedLock, togo,
                      found, proc>>
      BY <1>EnqueueHand, <1>inv, <2>1, <2>3
         DEF EnqueueHand, Return, threads, frames, gs, lists, waits, scan
    <3>2. SingleOwner' /\ \A h \in G : LoosenessKept(h)
      BY <1>inv, <3>1, OwnerSame DEF Inv2
    <3>3. \A p \in M, h \in G : Waking(p, h)' => Waking(p, h)
      BY <1>EnqueueHand, <1>inv, <2>1, <2>3, <3>1, Consts
         DEF Waking, ReadyPCs, Goto, At, BaseTypeOK, EnqueueHand, Return
    <3>4. OneWaker' /\ \A h \in G : CanBeWoken(h)' => CanBeWoken(h)
      BY <1>inv, <3>3, <3>1, WakeFrame DEF Inv2
    <3>5. \A n \in M :
          /\ pc[n] = "park" =>
               pc'[n] = "park" /\ reg'[n]["curg"] = reg[n]["curg"]
          /\ reg'[n]["park_g"] = reg[n]["park_g"]
      BY <1>EnqueueHand, <1>inv, <2>1, <2>3, <3>1, RegNames
         DEF Goto, At, BaseTypeOK, EnqueueHand, Return
    <3>6. \A h \in G : CanBeWoken(h)' => Parked(h)' \/ Kept(h)
      BY <2>1, <2>3, <3>2, <3>4, <3>5, <3>1 DEF Kept
    <3>7. SeenAt(m)'
      BY <1>EnqueueHand, <1>inv, <2>1, <2>3, <3>1, Consts
         DEF SeenAt, At, Goto, BaseTypeOK, EnqueueHand, Return
    <3>8. \A n \in M : pc[n] \in {"cas2", "store"} =>
        tgt[n] \in G /\ CanBeWoken(tgt[n])
      BY <1>inv, Pointers DEF CanBeWoken, Waking, ReadyPCs
    <3>9. \A n \in M : SeenAt(n)' \/ SeenKept(n)
      BY <1>EnqueueHand, <1>inv, <2>1, <2>3, <3>1, <3>7, <3>8
         DEF SeenAt, SeenKept, At, Goto, BaseTypeOK, EnqueueHand, Return
    <3>10. \A h \in G : (h \in deadq' \/ status'[h] = "free" =>
        (h \in deadq \/ status[h] = "free"))
      BY <1>EnqueueHand, <1>inv, <2>1, <2>3, <3>1
         DEF EnqueueHand, Return, BaseTypeOK, Statuses
    <3>11. DeadNotFree'
      BY <1>EnqueueHand, <1>inv, <2>1, <2>3, <3>1, <3>10
         DEF DeadNotFree, Inv2, EnqueueHand, Return, BaseTypeOK
    <3>12. \A h \in G : GoneAt(h)'
      BY <1>inv, <2>1, <2>3, <3>2, <3>4, <3>10, <3>1, SplitInv2
         DEF GoneAt, LoosenessKept
    <3> QED
      BY <1>inv, <3>2, <3>4, <3>6, <3>9, <3>11, <3>12, Keep
  <2> QED
    BY <2>2, <2>3
<1>EnqueuePush. ASSUME NEW m \in M, EnqueuePush(m) PROVE Inv2'
  <2>1. reg[m]["enq"] \in G
    BY <1>EnqueuePush, <1>inv, Pointers DEF EnqueuePush, At
  <2>2. UNCHANGED <<tgt, seen, cand, status, parking, lockedm, allg, deadq,
                    allm, waitq, sleepers, nsleep, schedLock, togo, found,
                    proc>>
    BY <1>EnqueuePush, <1>inv, <2>1
       DEF EnqueuePush, Return, threads, frames, gs, lists, waits, scan
  <2>3. reg' = Put(m, "enq", None)
    BY <1>EnqueuePush, <1>inv, <2>1 DEF EnqueuePush, Return
  <2>4. PutRegs(m, "enq", None)
    BY <1>inv, <2>1, <2>3, PutShape, RegNames
  <2>5. runq' = PutAtTail(runq, reg[m]["enq"])
    BY <1>EnqueuePush, <1>inv, <2>1 DEF EnqueuePush
  <2>6. SingleOwner' /\ \A h \in G : LoosenessKept(h)
    BY <1>inv, <2>1, <2>4, <2>5, OwnerPush DEF Inv2
  <2>7. \A p \in M, h \in G : Waking(p, h)' => Waking(p, h)
    BY <1>EnqueuePush, <1>inv, <2>1, <2>2, Consts
       DEF Waking, ReadyPCs, Goto, At, BaseTypeOK, EnqueuePush, Return
  <2>8. OneWaker' /\ \A h \in G : CanBeWoken(h)' => CanBeWoken(h)
    BY <1>inv, <2>7, <2>2, WakeFrame DEF Inv2
  <2>9. \A n \in M :
        /\ pc[n] = "park" => pc'[n] = "park" /\ reg'[n]["curg"] = reg[n]["curg"]
        /\ reg'[n]["park_g"] = reg[n]["park_g"]
    BY <1>EnqueuePush, <1>inv, <2>1, <2>2, <2>4, RegNames
       DEF Goto, At, BaseTypeOK, EnqueuePush, Return, PutRegs
  <2>10. \A h \in G : CanBeWoken(h)' => Parked(h)' \/ Kept(h)
    BY <2>1, <2>6, <2>8, <2>9, <2>2 DEF Kept
  <2>11. SeenAt(m)'
    BY <1>EnqueuePush, <1>inv, <2>1, <2>2, Consts
       DEF SeenAt, At, Goto, BaseTypeOK, EnqueuePush, Return
  <2>12. \A n \in M : pc[n] \in {"cas2", "store"} =>
      tgt[n] \in G /\ CanBeWoken(tgt[n])
    BY <1>inv, Pointers DEF CanBeWoken, Waking, ReadyPCs
  <2>13. \A n \in M : SeenAt(n)' \/ SeenKept(n)
    BY <1>EnqueuePush, <1>inv, <2>1, <2>2, <2>11, <2>12
       DEF SeenAt, SeenKept, At, Goto, BaseTypeOK, EnqueuePush, Return
  <2>14. \A h \in G : (h \in deadq' \/ status'[h] = "free" =>
      (h \in deadq \/ status[h] = "free"))
    BY <1>EnqueuePush, <1>inv, <2>1, <2>2
       DEF EnqueuePush, Return, BaseTypeOK, Statuses
  <2>15. DeadNotFree'
    BY <1>EnqueuePush, <1>inv, <2>1, <2>2, <2>14
       DEF DeadNotFree, Inv2, EnqueuePush, Return, BaseTypeOK
  <2>16. \A h \in G : GoneAt(h)'
    BY <1>inv, <2>1, <2>6, <2>8, <2>14, <2>2, SplitInv2
       DEF GoneAt, LoosenessKept
  <2> QED
    BY <1>inv, <2>6, <2>8, <2>10, <2>13, <2>15, <2>16, Keep
<1>SchedReap. ASSUME NEW m \in M, SchedReap(m) PROVE Inv2'
  <2>1. reg[m]["deadg"] \in G
    BY <1>SchedReap, <1>inv, RegNames DEF SchedReap, BaseTypeOK
  <2>2. UNCHANGED <<pc, tgt, seen, cand, ret, status, parking, lockedm, runq,
                    allg, allm, waitq, sleepers, nsleep, schedLock, togo, found,
                    proc>>
    BY <1>SchedReap, <1>inv, <2>1
       DEF SchedReap, threads, frames, gs, lists, waits, scan
  <2>3. PICK x \in G : x = reg[m]["deadg"]
    BY <2>1
  <2>4. ~CanBeWoken(x) /\ status[x] # "free"
    BY <1>SchedReap, <1>inv, <2>1, <2>3, HeldNotWoken, HeldNotGone, RegNames
  <2>5. reg' = Put(m, "deadg", None)
    BY <1>SchedReap, <1>inv, <2>1, <2>3, <2>4 DEF SchedReap
  <2>6. PutRegs(m, "deadg", None)
    BY <1>inv, <2>1, <2>5, PutShape, RegNames
  <2>7. SingleOwner' /\ \A h \in G : LoosenessKept(h)
    BY <1>inv, <2>1, <2>3, <2>4, <2>6, <2>2, OwnerPut, RegNames, Consts DEF Inv2
  <2>8. Loose(x)'
    BY <1>inv, <2>1, <2>3, <2>4, <2>6, <2>2, DropLoose, RegNames
  <2>9. \A p \in M, h \in G : Waking(p, h)' => Waking(p, h)
    BY <1>SchedReap, <1>inv, <2>1, <2>3, <2>4, <2>2, Consts
       DEF Waking, ReadyPCs, Goto, At, BaseTypeOK, SchedReap
  <2>10. OneWaker' /\ \A h \in G : CanBeWoken(h)' => CanBeWoken(h)
    BY <1>inv, <2>9, <2>2, WakeFrame DEF Inv2
  <2>11. \A n \in M :
        /\ pc[n] = "park" => pc'[n] = "park" /\ reg'[n]["curg"] = reg[n]["curg"]
        /\ reg'[n]["park_g"] = reg[n]["park_g"]
    BY <1>SchedReap, <1>inv, <2>1, <2>3, <2>4, <2>2, <2>6, RegNames
       DEF Goto, At, BaseTypeOK, SchedReap, PutRegs
  <2>12. \A h \in G : CanBeWoken(h)' => Parked(h)' \/ Kept(h)
    BY <2>1, <2>3, <2>4, <2>7, <2>10, <2>11, <2>2 DEF Kept
  <2>13. \A n \in M : pc[n] \in {"cas2", "store"} =>
      tgt[n] \in G /\ CanBeWoken(tgt[n])
    BY <1>inv, Pointers DEF CanBeWoken, Waking, ReadyPCs
  <2>14. \A n \in M : SeenAt(n)' \/ SeenKept(n)
    BY <1>SchedReap, <1>inv, <2>1, <2>3, <2>4, <2>2, <2>13
       DEF SeenAt, SeenKept, At, Goto, BaseTypeOK, SchedReap
  <2>15. DeadNotFree'
    BY <1>SchedReap, <1>inv, <2>1, <2>3, <2>4, <2>2
       DEF DeadNotFree, Inv2, SchedReap
  <2>16. \A h \in G : h # x => (h \in deadq' \/ status'[h] = "free" =>
      h \in deadq \/ status[h] = "free")
    BY <1>SchedReap, <1>inv, <2>1, <2>3, <2>4, <2>2 DEF SchedReap
  <2>17. \A h \in G : GoneAt(h)'
    BY <1>inv, <2>1, <2>3, <2>4, <2>7, <2>10, <2>16, <2>8, <2>2, SplitInv2
       DEF GoneAt, LoosenessKept
  <2> QED
    BY <1>inv, <2>7, <2>10, <2>12, <2>14, <2>15, <2>17, Keep
<1>SchedRequeue. ASSUME NEW m \in M, SchedRequeue(m) PROVE Inv2'
  <2>1. CASE reg[m]["enqg"] # None
    <3>1. UNCHANGED <<tgt, seen, cand, status, parking, lockedm, runq, allg,
                      deadq, allm, waitq, sleepers, nsleep, schedLock, togo,
                      found, proc>>
      BY <1>SchedRequeue, <1>inv, <2>1
         DEF SchedRequeue, CallEnqueue, threads, frames, gs, lists, waits, scan
    <3>2. reg' = Move(m, "enqg", m, "enq")
      BY <1>SchedRequeue, <1>inv, <2>1 DEF SchedRequeue, CallEnqueue
    <3>3. ShiftRegs(m, "enqg", "enq")
      BY <1>inv, <3>2, ShiftShape, RegNames
    <3>4. SingleOwner' /\ \A h \in G : LoosenessKept(h)
      BY <1>inv, <2>1, <3>3, <3>1, OwnerShift, RegNames, Consts DEF Inv2
    <3>5. \A p \in M, h \in G : Waking(p, h)' => Waking(p, h)
      BY <1>SchedRequeue, <1>inv, <2>1, <3>1, Consts
         DEF Waking, ReadyPCs, Goto, At, BaseTypeOK, SchedRequeue, CallEnqueue
    <3>6. OneWaker' /\ \A h \in G : CanBeWoken(h)' => CanBeWoken(h)
      BY <1>inv, <3>5, <3>1, WakeFrame DEF Inv2
    <3>7. \A n \in M :
          /\ pc[n] = "park" =>
               pc'[n] = "park" /\ reg'[n]["curg"] = reg[n]["curg"]
          /\ reg'[n]["park_g"] = reg[n]["park_g"]
      BY <1>SchedRequeue, <1>inv, <2>1, <3>1, <3>3, RegNames
         DEF Goto, At, BaseTypeOK, SchedRequeue, CallEnqueue, ShiftRegs
    <3>8. \A h \in G : CanBeWoken(h)' => Parked(h)' \/ Kept(h)
      BY <2>1, <3>4, <3>6, <3>7, <3>1 DEF Kept
    <3>9. SeenAt(m)'
      BY <1>SchedRequeue, <1>inv, <2>1, <3>1, Consts
         DEF SeenAt, At, Goto, BaseTypeOK, SchedRequeue, CallEnqueue
    <3>10. \A n \in M : pc[n] \in {"cas2", "store"} =>
        tgt[n] \in G /\ CanBeWoken(tgt[n])
      BY <1>inv, Pointers DEF CanBeWoken, Waking, ReadyPCs
    <3>11. \A n \in M : SeenAt(n)' \/ SeenKept(n)
      BY <1>SchedRequeue, <1>inv, <2>1, <3>1, <3>9, <3>10
         DEF SeenAt, SeenKept, At, Goto, BaseTypeOK, SchedRequeue, CallEnqueue
    <3>12. \A h \in G : (h \in deadq' \/ status'[h] = "free" =>
        (h \in deadq \/ status[h] = "free"))
      BY <1>SchedRequeue, <1>inv, <2>1, <3>1
         DEF SchedRequeue, CallEnqueue, BaseTypeOK, Statuses
    <3>13. DeadNotFree'
      BY <1>SchedRequeue, <1>inv, <2>1, <3>1, <3>12
         DEF DeadNotFree, Inv2, SchedRequeue, CallEnqueue, BaseTypeOK
    <3>14. \A h \in G : GoneAt(h)'
      BY <1>inv, <2>1, <3>4, <3>6, <3>12, <3>1, SplitInv2
         DEF GoneAt, LoosenessKept
    <3> QED
      BY <1>inv, <3>4, <3>6, <3>8, <3>11, <3>13, <3>14, Keep
  <2>2. CASE reg[m]["enqg"] = None
    <3>1. UNCHANGED <<reg, tgt, seen, cand, ret, status, parking, lockedm, runq,
                      allg, deadq, allm, waitq, sleepers, nsleep, schedLock,
                      togo, found, proc>>
      BY <1>SchedRequeue, <1>inv, <2>2
         DEF SchedRequeue, CallEnqueue, threads, frames, gs, lists, waits, scan
    <3>2. SingleOwner' /\ \A h \in G : LoosenessKept(h)
      BY <1>inv, <3>1, OwnerSame DEF Inv2
    <3>3. \A p \in M, h \in G : Waking(p, h)' => Waking(p, h)
      BY <1>SchedRequeue, <1>inv, <2>2, <3>1, Consts
         DEF Waking, ReadyPCs, Goto, At, BaseTypeOK, SchedRequeue, CallEnqueue
    <3>4. OneWaker' /\ \A h \in G : CanBeWoken(h)' => CanBeWoken(h)
      BY <1>inv, <3>3, <3>1, WakeFrame DEF Inv2
    <3>5. \A n \in M :
          /\ pc[n] = "park" =>
               pc'[n] = "park" /\ reg'[n]["curg"] = reg[n]["curg"]
          /\ reg'[n]["park_g"] = reg[n]["park_g"]
      BY <1>SchedRequeue, <1>inv, <2>2, <3>1, RegNames
         DEF Goto, At, BaseTypeOK, SchedRequeue, CallEnqueue
    <3>6. \A h \in G : CanBeWoken(h)' => Parked(h)' \/ Kept(h)
      BY <2>2, <3>2, <3>4, <3>5, <3>1 DEF Kept
    <3>7. SeenAt(m)'
      BY <1>SchedRequeue, <1>inv, <2>2, <3>1, Consts
         DEF SeenAt, At, Goto, BaseTypeOK, SchedRequeue, CallEnqueue
    <3>8. \A n \in M : pc[n] \in {"cas2", "store"} =>
        tgt[n] \in G /\ CanBeWoken(tgt[n])
      BY <1>inv, Pointers DEF CanBeWoken, Waking, ReadyPCs
    <3>9. \A n \in M : SeenAt(n)' \/ SeenKept(n)
      BY <1>SchedRequeue, <1>inv, <2>2, <3>1, <3>7, <3>8
         DEF SeenAt, SeenKept, At, Goto, BaseTypeOK, SchedRequeue, CallEnqueue
    <3>10. \A h \in G : (h \in deadq' \/ status'[h] = "free" =>
        (h \in deadq \/ status[h] = "free"))
      BY <1>SchedRequeue, <1>inv, <2>2, <3>1
         DEF SchedRequeue, CallEnqueue, BaseTypeOK, Statuses
    <3>11. DeadNotFree'
      BY <1>SchedRequeue, <1>inv, <2>2, <3>1, <3>10
         DEF DeadNotFree, Inv2, SchedRequeue, CallEnqueue, BaseTypeOK
    <3>12. \A h \in G : GoneAt(h)'
      BY <1>inv, <2>2, <3>2, <3>4, <3>10, <3>1, SplitInv2
         DEF GoneAt, LoosenessKept
    <3> QED
      BY <1>inv, <3>2, <3>4, <3>6, <3>9, <3>11, <3>12, Keep
  <2> QED
    BY <2>1, <2>2
<1>SchedTake. ASSUME NEW m \in M, SchedTake(m) PROVE Inv2'
  <2>1. UNCHANGED <<tgt, seen, cand, ret, status, parking, lockedm, runq, allg,
                    deadq, allm, waitq, sleepers, nsleep, schedLock, togo,
                    found, proc>>
    BY <1>SchedTake, <1>inv
       DEF SchedTake, threads, frames, gs, lists, waits, scan
  <2>2. reg' = Move(m, "nextg", m, "next")
    BY <1>SchedTake, <1>inv DEF SchedTake
  <2>3. ShiftRegs(m, "nextg", "next")
    BY <1>inv, <2>2, ShiftShape, RegNames
  <2>4. SingleOwner' /\ \A h \in G : LoosenessKept(h)
    BY <1>inv, <2>3, <2>1, OwnerShift, RegNames, Consts DEF Inv2
  <2>5. \A p \in M, h \in G : Waking(p, h)' => Waking(p, h)
    BY <1>SchedTake, <1>inv, <2>1, Consts
       DEF Waking, ReadyPCs, Goto, At, BaseTypeOK, SchedTake
  <2>6. OneWaker' /\ \A h \in G : CanBeWoken(h)' => CanBeWoken(h)
    BY <1>inv, <2>5, <2>1, WakeFrame DEF Inv2
  <2>7. \A n \in M :
        /\ pc[n] = "park" => pc'[n] = "park" /\ reg'[n]["curg"] = reg[n]["curg"]
        /\ reg'[n]["park_g"] = reg[n]["park_g"]
    BY <1>SchedTake, <1>inv, <2>1, <2>3, RegNames
       DEF Goto, At, BaseTypeOK, SchedTake, ShiftRegs
  <2>8. \A h \in G : CanBeWoken(h)' => Parked(h)' \/ Kept(h)
    BY <2>4, <2>6, <2>7, <2>1 DEF Kept
  <2>9. SeenAt(m)'
    BY <1>SchedTake, <1>inv, <2>1, Consts
       DEF SeenAt, At, Goto, BaseTypeOK, SchedTake
  <2>10. \A n \in M : pc[n] \in {"cas2", "store"} =>
      tgt[n] \in G /\ CanBeWoken(tgt[n])
    BY <1>inv, Pointers DEF CanBeWoken, Waking, ReadyPCs
  <2>11. \A n \in M : SeenAt(n)' \/ SeenKept(n)
    BY <1>SchedTake, <1>inv, <2>1, <2>9, <2>10
       DEF SeenAt, SeenKept, At, Goto, BaseTypeOK, SchedTake
  <2>12. \A h \in G : (h \in deadq' \/ status'[h] = "free" =>
      (h \in deadq \/ status[h] = "free"))
    BY <1>SchedTake, <1>inv, <2>1 DEF SchedTake, BaseTypeOK, Statuses
  <2>13. DeadNotFree'
    BY <1>SchedTake, <1>inv, <2>1, <2>12
       DEF DeadNotFree, Inv2, SchedTake, BaseTypeOK
  <2>14. \A h \in G : GoneAt(h)'
    BY <1>inv, <2>4, <2>6, <2>12, <2>1, SplitInv2 DEF GoneAt, LoosenessKept
  <2> QED
    BY <1>inv, <2>4, <2>6, <2>8, <2>11, <2>13, <2>14, Keep
<1>SchedCommit. ASSUME NEW m \in M, SchedCommit(m) PROVE Inv2'
  <2>1. reg[m]["park_g"] \in G
    BY <1>SchedCommit, <1>inv, Pointers DEF SchedCommit, At
  <2>2. CASE parking[reg[m]["park_g"]] = 3
    <3>1. UNCHANGED <<tgt, seen, cand, ret, status, lockedm, runq, allg, deadq,
                      allm, waitq, sleepers, nsleep, schedLock, togo, found,
                      proc>>
      BY <1>SchedCommit, <1>inv, <2>1, <2>2
         DEF SchedCommit, threads, frames, gs, lists, waits, scan
    <3>2. PICK x \in G : x = reg[m]["park_g"]
      BY <2>1, <2>2
    <3>3. ~CanBeWoken(x)
      BY <1>SchedCommit, <1>inv, <2>1, <2>2, <3>2, SplitInv2, RegNames
         DEF Parked, Loose, Held
    <3>4. reg' = Move(m, "park_g", m, "enq")
      BY <1>SchedCommit, <1>inv, <2>1, <2>2, <3>2, <3>3 DEF SchedCommit
    <3>5. ShiftRegs(m, "park_g", "enq")
      BY <1>inv, <2>1, <3>4, ShiftShape, RegNames
    <3>6. SingleOwner' /\ \A h \in G : LoosenessKept(h)
      BY <1>inv, <2>1, <2>2, <3>2, <3>3, <3>5, <3>1, OwnerShift, RegNames,
         Consts
         DEF Inv2
    <3>7. \A p \in M, h \in G : Waking(p, h)' => Waking(p, h)
      BY <1>SchedCommit, <1>inv, <2>1, <2>2, <3>2, <3>3, <3>1, Consts
         DEF Waking, ReadyPCs, Goto, At, BaseTypeOK, SchedCommit
    <3>8. OneWaker' /\ \A h \in G : CanBeWoken(h)' => CanBeWoken(h)
      BY <1>inv, <3>7, <3>1, WakeFrame DEF Inv2
    <3>9. \A h \in G, n \in M : h # x =>
          /\ pc[n] = "park" /\ reg[n]["curg"] = h =>
              pc'[n] = "park" /\ reg'[n]["curg"] = h
          /\ reg[n]["park_g"] = h => reg'[n]["park_g"] = h
      BY <1>SchedCommit, <1>inv, <2>1, <2>2, <3>2, <3>3, <3>1, <3>5, RegNames
         DEF Goto, At, BaseTypeOK, SchedCommit, ShiftRegs
    <3>10. \A h \in G : h # x => parking'[h] = parking[h]
      BY <1>SchedCommit, <1>inv, <2>1, <2>2, <3>2, <3>3
         DEF BaseTypeOK, SchedCommit
    <3>11. \A h \in G : CanBeWoken(h)' => Parked(h)' \/ Kept(h)
      BY <2>1, <2>2, <3>2, <3>3, <3>6, <3>8, <3>9, <3>10, <3>1 DEF Kept
    <3>12. SeenAt(m)'
      BY <1>SchedCommit, <1>inv, <2>1, <2>2, <3>2, <3>3, <3>1, Consts
         DEF SeenAt, At, Goto, BaseTypeOK, SchedCommit
    <3>13. \A n \in M : pc[n] \in {"cas2", "store"} =>
        tgt[n] \in G /\ CanBeWoken(tgt[n])
      BY <1>inv, Pointers DEF CanBeWoken, Waking, ReadyPCs
    <3>14. \A n \in M : SeenAt(n)' \/ SeenKept(n)
      BY <1>SchedCommit, <1>inv, <2>1, <2>2, <3>2, <3>3, <3>1, <3>12, <3>13,
         <3>10
         DEF SeenAt, SeenKept, At, Goto, BaseTypeOK, SchedCommit
    <3>15. \A h \in G : (h \in deadq' \/ status'[h] = "free" =>
        (h \in deadq \/ status[h] = "free"))
      BY <1>SchedCommit, <1>inv, <2>1, <2>2, <3>2, <3>3, <3>1
         DEF SchedCommit, BaseTypeOK, Statuses
    <3>16. DeadNotFree'
      BY <1>SchedCommit, <1>inv, <2>1, <2>2, <3>2, <3>3, <3>1, <3>15
         DEF DeadNotFree, Inv2, SchedCommit, BaseTypeOK
    <3>17. \A h \in G : GoneAt(h)'
      BY <1>inv, <2>1, <2>2, <3>2, <3>3, <3>6, <3>8, <3>15, <3>1, SplitInv2
         DEF GoneAt, LoosenessKept
    <3> QED
      BY <1>inv, <3>6, <3>8, <3>11, <3>14, <3>16, <3>17, Keep
  <2>3. CASE parking[reg[m]["park_g"]] # 3
    <3>1. UNCHANGED <<tgt, seen, cand, ret, status, lockedm, runq, allg, deadq,
                      allm, waitq, sleepers, nsleep, schedLock, togo, found,
                      proc>>
      BY <1>SchedCommit, <1>inv, <2>1, <2>3
         DEF SchedCommit, threads, frames, gs, lists, waits, scan
    <3>2. PICK x \in G : x = reg[m]["park_g"]
      BY <2>1, <2>3
    <3>3. reg' = Put(m, "park_g", None)
      BY <1>SchedCommit, <1>inv, <2>1, <2>3, <3>2 DEF SchedCommit
    <3>4. PutRegs(m, "park_g", None)
      BY <1>inv, <2>1, <3>3, PutShape, RegNames
    <3>5. SingleOwner' /\ \A h \in G : LoosenessKept(h)
      BY <1>inv, <2>1, <2>3, <3>2, <3>4, <3>1, OwnerPut, RegNames, Consts
         DEF Inv2
    <3>6. Loose(x)'
      BY <1>inv, <2>1, <2>3, <3>2, <3>4, <3>1, DropLoose, RegNames
    <3>7. \A p \in M, h \in G : Waking(p, h)' => Waking(p, h)
      BY <1>SchedCommit, <1>inv, <2>1, <2>3, <3>2, <3>1, Consts
         DEF Waking, ReadyPCs, Goto, At, BaseTypeOK, SchedCommit
    <3>8. OneWaker' /\ \A h \in G : CanBeWoken(h)' => CanBeWoken(h)
      BY <1>inv, <3>7, <3>1, WakeFrame DEF Inv2
    <3>9. \A h \in G, n \in M : h # x =>
          /\ pc[n] = "park" /\ reg[n]["curg"] = h =>
              pc'[n] = "park" /\ reg'[n]["curg"] = h
          /\ reg[n]["park_g"] = h => reg'[n]["park_g"] = h
      BY <1>SchedCommit, <1>inv, <2>1, <2>3, <3>2, <3>1, <3>4, RegNames
         DEF Goto, At, BaseTypeOK, SchedCommit, PutRegs
    <3>10. \A h \in G : h # x => parking'[h] = parking[h]
      BY <1>SchedCommit, <1>inv, <2>1, <2>3, <3>2 DEF BaseTypeOK, SchedCommit
    <3>11. Parked(x)'
      BY <1>SchedCommit, <1>inv, <2>1, <2>3, <3>2, <3>6
         DEF Parked, SchedCommit, BaseTypeOK
    <3>12. \A h \in G : CanBeWoken(h)' => Parked(h)' \/ Kept(h)
      BY <2>1, <2>3, <3>2, <3>5, <3>8, <3>9, <3>10, <3>11, <3>1 DEF Kept
    <3>13. SeenAt(m)'
      BY <1>SchedCommit, <1>inv, <2>1, <2>3, <3>2, <3>1, Consts
         DEF SeenAt, At, Goto, BaseTypeOK, SchedCommit
    <3>14. \A n \in M : pc[n] \in {"cas2", "store"} =>
        tgt[n] \in G /\ CanBeWoken(tgt[n])
      BY <1>inv, Pointers DEF CanBeWoken, Waking, ReadyPCs
    <3>15. \A n \in M : pc[n] \in {"cas2", "store"} /\ tgt[n] = x => SeenAt(n)'
      BY <1>SchedCommit, <1>inv, <2>1, <2>3, <3>2, <3>1
         DEF Inv2, SeenIsSafe, SeenAt, SchedCommit, At, Goto, BaseTypeOK
    <3>16. \A n \in M : SeenAt(n)' \/ SeenKept(n)
      BY <1>SchedCommit, <1>inv, <2>1, <2>3, <3>2, <3>1, <3>13, <3>14, <3>10,
         <3>15
         DEF SeenAt, SeenKept, At, Goto, BaseTypeOK, SchedCommit
    <3>17. \A h \in G : (h \in deadq' \/ status'[h] = "free" =>
        (h \in deadq \/ status[h] = "free"))
      BY <1>SchedCommit, <1>inv, <2>1, <2>3, <3>2, <3>1
         DEF SchedCommit, BaseTypeOK, Statuses
    <3>18. DeadNotFree'
      BY <1>SchedCommit, <1>inv, <2>1, <2>3, <3>2, <3>1, <3>17
         DEF DeadNotFree, Inv2, SchedCommit, BaseTypeOK
    <3>19. \A h \in G : GoneAt(h)'
      BY <1>inv, <2>1, <2>3, <3>2, <3>5, <3>8, <3>17, <3>6, <3>1, SplitInv2
         DEF GoneAt, LoosenessKept
    <3> QED
      BY <1>inv, <3>5, <3>8, <3>12, <3>16, <3>18, <3>19, Keep
  <2> QED
    BY <2>2, <2>3
<1>SchedWake. ASSUME NEW m \in M, SchedWake(m) PROVE Inv2'
  <2>1. reg[m]["enq"] \in G
    BY <1>SchedWake, <1>inv, Pointers DEF SchedWake, At
  <2>2. CASE status[reg[m]["enq"]] = "waiting"
    <3>1. UNCHANGED <<reg, tgt, seen, cand, parking, lockedm, runq, allg, deadq,
                      allm, waitq, sleepers, nsleep, schedLock, togo, found,
                      proc>>
      BY <1>SchedWake, <1>inv, <2>1, <2>2
         DEF SchedWake, CallEnqueue, threads, frames, gs, lists, waits, scan
    <3>2. SingleOwner' /\ \A h \in G : LoosenessKept(h)
      BY <1>inv, <3>1, OwnerSame DEF Inv2
    <3>3. \A p \in M, h \in G : Waking(p, h)' => Waking(p, h)
      BY <1>SchedWake, <1>inv, <2>1, <2>2, <3>1, Consts
         DEF Waking, ReadyPCs, Goto, At, BaseTypeOK, SchedWake, CallEnqueue
    <3>4. OneWaker' /\ \A h \in G : CanBeWoken(h)' => CanBeWoken(h)
      BY <1>inv, <3>3, <3>1, WakeFrame DEF Inv2
    <3>5. \A n \in M :
          /\ pc[n] = "park" =>
               pc'[n] = "park" /\ reg'[n]["curg"] = reg[n]["curg"]
          /\ reg'[n]["park_g"] = reg[n]["park_g"]
      BY <1>SchedWake, <1>inv, <2>1, <2>2, <3>1, RegNames
         DEF Goto, At, BaseTypeOK, SchedWake, CallEnqueue
    <3>6. \A h \in G : CanBeWoken(h)' => Parked(h)' \/ Kept(h)
      BY <2>1, <2>2, <3>2, <3>4, <3>5, <3>1 DEF Kept
    <3>7. SeenAt(m)'
      BY <1>SchedWake, <1>inv, <2>1, <2>2, <3>1, Consts
         DEF SeenAt, At, Goto, BaseTypeOK, SchedWake, CallEnqueue
    <3>8. \A n \in M : pc[n] \in {"cas2", "store"} =>
        tgt[n] \in G /\ CanBeWoken(tgt[n])
      BY <1>inv, Pointers DEF CanBeWoken, Waking, ReadyPCs
    <3>9. \A n \in M : SeenAt(n)' \/ SeenKept(n)
      BY <1>SchedWake, <1>inv, <2>1, <2>2, <3>1, <3>7, <3>8
         DEF SeenAt, SeenKept, At, Goto, BaseTypeOK, SchedWake, CallEnqueue
    <3>10. \A h \in G : (h \in deadq' \/ status'[h] = "free" =>
        (h \in deadq \/ status[h] = "free"))
      BY <1>SchedWake, <1>inv, <2>1, <2>2, <3>1
         DEF SchedWake, CallEnqueue, BaseTypeOK, Statuses
    <3>11. DeadNotFree'
      BY <1>SchedWake, <1>inv, <2>1, <2>2, <3>1, <3>10
         DEF DeadNotFree, Inv2, SchedWake, CallEnqueue, BaseTypeOK
    <3>12. \A h \in G : GoneAt(h)'
      BY <1>inv, <2>1, <2>2, <3>2, <3>4, <3>10, <3>1, SplitInv2
         DEF GoneAt, LoosenessKept
    <3> QED
      BY <1>inv, <3>2, <3>4, <3>6, <3>9, <3>11, <3>12, Keep
  <2>3. CASE status[reg[m]["enq"]] # "waiting"
    <3>1. UNCHANGED <<tgt, seen, cand, ret, status, parking, lockedm, runq,
                      allg, deadq, allm, waitq, sleepers, nsleep, schedLock,
                      togo, found, proc>>
      BY <1>SchedWake, <1>inv, <2>1, <2>3
         DEF SchedWake, CallEnqueue, threads, frames, gs, lists, waits, scan
    <3>2. reg' = Put(m, "enq", None)
      BY <1>SchedWake, <1>inv, <2>1, <2>3 DEF SchedWake, CallEnqueue
    <3>3. PutRegs(m, "enq", None)
      BY <1>inv, <2>1, <3>2, PutShape, RegNames
    <3>4. SingleOwner' /\ \A h \in G : LoosenessKept(h)
      BY <1>inv, <2>1, <2>3, <3>3, <3>1, OwnerPut, RegNames, Consts DEF Inv2
    <3>5. \A p \in M, h \in G : Waking(p, h)' => Waking(p, h)
      BY <1>SchedWake, <1>inv, <2>1, <2>3, <3>1, Consts
         DEF Waking, ReadyPCs, Goto, At, BaseTypeOK, SchedWake, CallEnqueue
    <3>6. OneWaker' /\ \A h \in G : CanBeWoken(h)' => CanBeWoken(h)
      BY <1>inv, <3>5, <3>1, WakeFrame DEF Inv2
    <3>7. \A n \in M :
          /\ pc[n] = "park" =>
               pc'[n] = "park" /\ reg'[n]["curg"] = reg[n]["curg"]
          /\ reg'[n]["park_g"] = reg[n]["park_g"]
      BY <1>SchedWake, <1>inv, <2>1, <2>3, <3>1, <3>3, RegNames
         DEF Goto, At, BaseTypeOK, SchedWake, CallEnqueue, PutRegs
    <3>8. \A h \in G : CanBeWoken(h)' => Parked(h)' \/ Kept(h)
      BY <2>1, <2>3, <3>4, <3>6, <3>7, <3>1 DEF Kept
    <3>9. SeenAt(m)'
      BY <1>SchedWake, <1>inv, <2>1, <2>3, <3>1, Consts
         DEF SeenAt, At, Goto, BaseTypeOK, SchedWake, CallEnqueue
    <3>10. \A n \in M : pc[n] \in {"cas2", "store"} =>
        tgt[n] \in G /\ CanBeWoken(tgt[n])
      BY <1>inv, Pointers DEF CanBeWoken, Waking, ReadyPCs
    <3>11. \A n \in M : SeenAt(n)' \/ SeenKept(n)
      BY <1>SchedWake, <1>inv, <2>1, <2>3, <3>1, <3>9, <3>10
         DEF SeenAt, SeenKept, At, Goto, BaseTypeOK, SchedWake, CallEnqueue
    <3>12. \A h \in G : (h \in deadq' \/ status'[h] = "free" =>
        (h \in deadq \/ status[h] = "free"))
      BY <1>SchedWake, <1>inv, <2>1, <2>3, <3>1
         DEF SchedWake, CallEnqueue, BaseTypeOK, Statuses
    <3>13. DeadNotFree'
      BY <1>SchedWake, <1>inv, <2>1, <2>3, <3>1, <3>12
         DEF DeadNotFree, Inv2, SchedWake, CallEnqueue, BaseTypeOK
    <3>14. \A h \in G : GoneAt(h)'
      BY <1>inv, <2>1, <2>3, <3>4, <3>6, <3>12, <3>1, SplitInv2
         DEF GoneAt, LoosenessKept
    <3> QED
      BY <1>inv, <3>4, <3>6, <3>8, <3>11, <3>13, <3>14, Keep
  <2> QED
    BY <2>2, <2>3
<1>PollDue. ASSUME NEW m \in M, NEW g \in G, PollDue(m, g) PROVE Inv2'
  <2>1. g \notin waitq /\ g \in sleepers
    BY <1>inv, <1>PollDue DEF PollDue, OneWaker, Inv2
  <2>2. UNCHANGED <<reg, seen, cand, status, parking, lockedm, runq, allg,
                    deadq, allm, waitq, nsleep, schedLock, togo, found, proc>>
    BY <1>PollDue, <1>inv, <2>1
       DEF PollDue, CallReady, threads, frames, gs, lists, waits, scan
  <2>3. SingleOwner' /\ \A h \in G : LoosenessKept(h)
    BY <1>inv, <2>2, OwnerSame DEF Inv2
  <2>4. \A p \in M, h \in G : Waking(p, h)' => Waking(p, h) \/ (p = m /\ h = g)
    BY <1>PollDue, <1>inv, <2>1, <2>2
       DEF Waking, ReadyPCs, Goto, At, BaseTypeOK, PollDue, CallReady
  <2>5. OneWaker' /\ \A h \in G : CanBeWoken(h)' => CanBeWoken(h)
    BY <1>PollDue, <1>inv, <2>1, <2>2, <2>4, WakerMoves DEF Inv2, PollDue
  <2>6. \A n \in M :
        /\ pc[n] = "park" => pc'[n] = "park" /\ reg'[n]["curg"] = reg[n]["curg"]
        /\ reg'[n]["park_g"] = reg[n]["park_g"]
    BY <1>PollDue, <1>inv, <2>1, <2>2, RegNames
       DEF Goto, At, BaseTypeOK, PollDue, CallReady
  <2>7. \A h \in G : CanBeWoken(h)' => Parked(h)' \/ Kept(h)
    BY <2>1, <2>3, <2>5, <2>6, <2>2 DEF Kept
  <2>8. SeenAt(m)'
    BY <1>PollDue, <1>inv, <2>1, <2>2, Consts
       DEF SeenAt, At, Goto, BaseTypeOK, PollDue, CallReady
  <2>9. \A n \in M : pc[n] \in {"cas2", "store"} =>
      tgt[n] \in G /\ CanBeWoken(tgt[n])
    BY <1>inv, Pointers DEF CanBeWoken, Waking, ReadyPCs
  <2>10. \A n \in M : SeenAt(n)' \/ SeenKept(n)
    BY <1>PollDue, <1>inv, <2>1, <2>2, <2>8, <2>9
       DEF SeenAt, SeenKept, At, Goto, BaseTypeOK, PollDue, CallReady
  <2>11. \A h \in G : (h \in deadq' \/ status'[h] = "free" =>
      (h \in deadq \/ status[h] = "free"))
    BY <1>PollDue, <1>inv, <2>1, <2>2
       DEF PollDue, CallReady, BaseTypeOK, Statuses
  <2>12. DeadNotFree'
    BY <1>PollDue, <1>inv, <2>1, <2>2, <2>11
       DEF DeadNotFree, Inv2, PollDue, CallReady, BaseTypeOK
  <2>13. \A h \in G : GoneAt(h)'
    BY <1>inv, <2>1, <2>3, <2>5, <2>11, <2>2, SplitInv2
       DEF GoneAt, LoosenessKept
  <2> QED
    BY <1>inv, <2>3, <2>5, <2>7, <2>10, <2>12, <2>13, Keep
<1>PollDrop. ASSUME NEW m \in M, PollDrop(m) PROVE Inv2'
  <2>1. UNCHANGED <<reg, tgt, seen, cand, ret, status, parking, lockedm, runq,
                    allg, deadq, allm, waitq, sleepers, schedLock, togo, found,
                    proc>>
    BY <1>PollDrop, <1>inv DEF PollDrop, threads, frames, gs, lists, waits, scan
  <2>2. SingleOwner' /\ \A h \in G : LoosenessKept(h)
    BY <1>inv, <2>1, OwnerSame DEF Inv2
  <2>3. \A p \in M, h \in G : Waking(p, h)' => Waking(p, h)
    BY <1>PollDrop, <1>inv, <2>1, Consts
       DEF Waking, ReadyPCs, Goto, At, BaseTypeOK, PollDrop
  <2>4. OneWaker' /\ \A h \in G : CanBeWoken(h)' => CanBeWoken(h)
    BY <1>inv, <2>3, <2>1, WakeFrame DEF Inv2
  <2>5. \A n \in M :
        /\ pc[n] = "park" => pc'[n] = "park" /\ reg'[n]["curg"] = reg[n]["curg"]
        /\ reg'[n]["park_g"] = reg[n]["park_g"]
    BY <1>PollDrop, <1>inv, <2>1, RegNames DEF Goto, At, BaseTypeOK, PollDrop
  <2>6. \A h \in G : CanBeWoken(h)' => Parked(h)' \/ Kept(h)
    BY <2>2, <2>4, <2>5, <2>1 DEF Kept
  <2>7. SeenAt(m)'
    BY <1>PollDrop, <1>inv, <2>1, Consts
       DEF SeenAt, At, Goto, BaseTypeOK, PollDrop
  <2>8. \A n \in M : pc[n] \in {"cas2", "store"} =>
      tgt[n] \in G /\ CanBeWoken(tgt[n])
    BY <1>inv, Pointers DEF CanBeWoken, Waking, ReadyPCs
  <2>9. \A n \in M : SeenAt(n)' \/ SeenKept(n)
    BY <1>PollDrop, <1>inv, <2>1, <2>7, <2>8
       DEF SeenAt, SeenKept, At, Goto, BaseTypeOK, PollDrop
  <2>10. \A h \in G : (h \in deadq' \/ status'[h] = "free" =>
      (h \in deadq \/ status[h] = "free"))
    BY <1>PollDrop, <1>inv, <2>1 DEF PollDrop, BaseTypeOK, Statuses
  <2>11. DeadNotFree'
    BY <1>PollDrop, <1>inv, <2>1, <2>10
       DEF DeadNotFree, Inv2, PollDrop, BaseTypeOK
  <2>12. \A h \in G : GoneAt(h)'
    BY <1>inv, <2>2, <2>4, <2>10, <2>1, SplitInv2 DEF GoneAt, LoosenessKept
  <2> QED
    BY <1>inv, <2>2, <2>4, <2>6, <2>9, <2>11, <2>12, Keep
<1>PollDone. ASSUME NEW m \in M, PollDone(m) PROVE Inv2'
  <2>1. UNCHANGED <<reg, tgt, seen, cand, ret, status, parking, lockedm, runq,
                    allg, deadq, allm, waitq, sleepers, nsleep, schedLock, togo,
                    found, proc>>
    BY <1>PollDone, <1>inv DEF PollDone, threads, frames, gs, lists, waits, scan
  <2>2. SingleOwner' /\ \A h \in G : LoosenessKept(h)
    BY <1>inv, <2>1, OwnerSame DEF Inv2
  <2>3. \A p \in M, h \in G : Waking(p, h)' => Waking(p, h)
    BY <1>PollDone, <1>inv, <2>1, Consts
       DEF Waking, ReadyPCs, Goto, At, BaseTypeOK, PollDone
  <2>4. OneWaker' /\ \A h \in G : CanBeWoken(h)' => CanBeWoken(h)
    BY <1>inv, <2>3, <2>1, WakeFrame DEF Inv2
  <2>5. \A n \in M :
        /\ pc[n] = "park" => pc'[n] = "park" /\ reg'[n]["curg"] = reg[n]["curg"]
        /\ reg'[n]["park_g"] = reg[n]["park_g"]
    BY <1>PollDone, <1>inv, <2>1, RegNames DEF Goto, At, BaseTypeOK, PollDone
  <2>6. \A h \in G : CanBeWoken(h)' => Parked(h)' \/ Kept(h)
    BY <2>2, <2>4, <2>5, <2>1 DEF Kept
  <2>7. SeenAt(m)'
    BY <1>PollDone, <1>inv, <2>1, Consts
       DEF SeenAt, At, Goto, BaseTypeOK, PollDone
  <2>8. \A n \in M : pc[n] \in {"cas2", "store"} =>
      tgt[n] \in G /\ CanBeWoken(tgt[n])
    BY <1>inv, Pointers DEF CanBeWoken, Waking, ReadyPCs
  <2>9. \A n \in M : SeenAt(n)' \/ SeenKept(n)
    BY <1>PollDone, <1>inv, <2>1, <2>7, <2>8
       DEF SeenAt, SeenKept, At, Goto, BaseTypeOK, PollDone
  <2>10. \A h \in G : (h \in deadq' \/ status'[h] = "free" =>
      (h \in deadq \/ status[h] = "free"))
    BY <1>PollDone, <1>inv, <2>1 DEF PollDone, BaseTypeOK, Statuses
  <2>11. DeadNotFree'
    BY <1>PollDone, <1>inv, <2>1, <2>10
       DEF DeadNotFree, Inv2, PollDone, BaseTypeOK
  <2>12. \A h \in G : GoneAt(h)'
    BY <1>inv, <2>2, <2>4, <2>10, <2>1, SplitInv2 DEF GoneAt, LoosenessKept
  <2> QED
    BY <1>inv, <2>2, <2>4, <2>6, <2>9, <2>11, <2>12, Keep
<1>SchedRun. ASSUME NEW m \in M, SchedRun(m) PROVE Inv2'
  <2>1. reg[m]["next"] \in G
    BY <1>SchedRun, <1>inv, Pointers DEF SchedRun, At
  <2>2. UNCHANGED <<tgt, seen, cand, ret, parking, lockedm, runq, allg, deadq,
                    allm, waitq, sleepers, nsleep, schedLock, togo, found,
                    proc>>
    BY <1>SchedRun, <1>inv, <2>1
       DEF SchedRun, threads, frames, gs, lists, waits, scan
  <2>3. reg' = Move(m, "next", m, "curg")
    BY <1>SchedRun, <1>inv, <2>1 DEF SchedRun
  <2>4. ShiftRegs(m, "next", "curg")
    BY <1>inv, <2>1, <2>3, ShiftShape, RegNames
  <2>5. SingleOwner' /\ \A h \in G : LoosenessKept(h)
    BY <1>inv, <2>1, <2>4, <2>2, OwnerShift, RegNames, Consts DEF Inv2
  <2>6. \A p \in M, h \in G : Waking(p, h)' => Waking(p, h)
    BY <1>SchedRun, <1>inv, <2>1, <2>2, Consts
       DEF Waking, ReadyPCs, Goto, At, BaseTypeOK, SchedRun
  <2>7. OneWaker' /\ \A h \in G : CanBeWoken(h)' => CanBeWoken(h)
    BY <1>inv, <2>6, <2>2, WakeFrame DEF Inv2
  <2>8. \A n \in M :
        /\ pc[n] = "park" => pc'[n] = "park" /\ reg'[n]["curg"] = reg[n]["curg"]
        /\ reg'[n]["park_g"] = reg[n]["park_g"]
    BY <1>SchedRun, <1>inv, <2>1, <2>2, <2>4, RegNames
       DEF Goto, At, BaseTypeOK, SchedRun, ShiftRegs
  <2>9. \A h \in G : CanBeWoken(h)' => Parked(h)' \/ Kept(h)
    BY <2>1, <2>5, <2>7, <2>8, <2>2 DEF Kept
  <2>10. SeenAt(m)'
    BY <1>SchedRun, <1>inv, <2>1, <2>2, Consts
       DEF SeenAt, At, Goto, BaseTypeOK, SchedRun
  <2>11. \A n \in M : pc[n] \in {"cas2", "store"} =>
      tgt[n] \in G /\ CanBeWoken(tgt[n])
    BY <1>inv, Pointers DEF CanBeWoken, Waking, ReadyPCs
  <2>12. \A n \in M : SeenAt(n)' \/ SeenKept(n)
    BY <1>SchedRun, <1>inv, <2>1, <2>2, <2>10, <2>11
       DEF SeenAt, SeenKept, At, Goto, BaseTypeOK, SchedRun
  <2>13. \A h \in G : (h \in deadq' \/ status'[h] = "free" =>
      (h \in deadq \/ status[h] = "free"))
    BY <1>SchedRun, <1>inv, <2>1, <2>2 DEF SchedRun, BaseTypeOK, Statuses
  <2>14. DeadNotFree'
    BY <1>SchedRun, <1>inv, <2>1, <2>2, <2>13
       DEF DeadNotFree, Inv2, SchedRun, BaseTypeOK
  <2>15. \A h \in G : GoneAt(h)'
    BY <1>inv, <2>1, <2>5, <2>7, <2>13, <2>2, SplitInv2
       DEF GoneAt, LoosenessKept
  <2> QED
    BY <1>inv, <2>5, <2>7, <2>9, <2>12, <2>14, <2>15, Keep
<1>FreeDead. ASSUME NEW m \in M, FreeDead(m) PROVE Inv2'
  <2>1. PICK x \in deadq : deadq' = deadq \ {x} /\ status' =
      [status EXCEPT ![x] = "free"] /\ parking' = [parking EXCEPT ![x] = 0]
    BY <1>FreeDead DEF FreeDead
  <2>2. x \in G /\ Loose(x) /\ ~CanBeWoken(x)
    BY <1>inv, FreshG DEF BaseTypeOK
  <2>3. UNCHANGED <<pc, reg, tgt, seen, cand, ret, runq, allm, waitq, sleepers,
                    nsleep, schedLock, togo, found, proc>>
    BY <1>FreeDead, <1>inv, <2>1, <2>2
       DEF FreeDead, threads, frames, gs, lists, waits, scan
  <2>4. SingleOwner' /\ \A h \in G : LoosenessKept(h)
    BY <1>inv, <2>3, OwnerSame DEF Inv2
  <2>5. \A p \in M, h \in G : Waking(p, h)' => Waking(p, h)
    BY <1>FreeDead, <1>inv, <2>1, <2>2, <2>3, Consts
       DEF Waking, ReadyPCs, Goto, At, BaseTypeOK, FreeDead
  <2>6. OneWaker' /\ \A h \in G : CanBeWoken(h)' => CanBeWoken(h)
    BY <1>inv, <2>5, <2>3, WakeFrame DEF Inv2
  <2>7. \A n \in M :
        /\ pc[n] = "park" => pc'[n] = "park" /\ reg'[n]["curg"] = reg[n]["curg"]
        /\ reg'[n]["park_g"] = reg[n]["park_g"]
    BY <1>FreeDead, <1>inv, <2>1, <2>2, <2>3, RegNames
       DEF Goto, At, BaseTypeOK, FreeDead
  <2>8. \A h \in G : h # x => parking'[h] = parking[h]
    BY <1>FreeDead, <1>inv, <2>1, <2>2 DEF BaseTypeOK, FreeDead
  <2>9. \A h \in G : CanBeWoken(h)' => Parked(h)' \/ Kept(h)
    BY <2>1, <2>2, <2>4, <2>6, <2>7, <2>8, <2>3 DEF Kept
  <2>10. \A n \in M : pc[n] \in {"cas2", "store"} =>
      tgt[n] \in G /\ CanBeWoken(tgt[n])
    BY <1>inv, Pointers DEF CanBeWoken, Waking, ReadyPCs
  <2>11. \A n \in M : SeenAt(n)' \/ SeenKept(n)
    BY <1>FreeDead, <1>inv, <2>1, <2>2, <2>3, <2>10, <2>8
       DEF SeenAt, SeenKept, At, Goto, BaseTypeOK, FreeDead
  <2>12. \A h \in G : (h \in deadq' \/ status'[h] = "free" =>
      (h \in deadq \/ status[h] = "free"))
    BY <1>FreeDead, <1>inv, <2>1, <2>2, <2>3 DEF FreeDead, BaseTypeOK, Statuses
  <2>13. DeadNotFree'
    BY <1>FreeDead, <1>inv, <2>1, <2>2, <2>3, <2>12
       DEF DeadNotFree, Inv2, FreeDead, BaseTypeOK
  <2>14. \A h \in G : GoneAt(h)'
    BY <1>inv, <2>1, <2>2, <2>4, <2>6, <2>12, <2>3, SplitInv2
       DEF GoneAt, LoosenessKept
  <2> QED
    BY <1>inv, <2>4, <2>6, <2>9, <2>11, <2>13, <2>14, Keep
<1>Dequeue. ASSUME NEW m \in M, Dequeue(m) PROVE Inv2'
  <2>1. PICK i \in DOMAIN runq : reg' = Put(m, "next", runq[i]) /\ runq' =
      Unlink(runq, i)
    BY <1>Dequeue DEF Dequeue, Eligible
  <2>2. runq \in Seq(G) /\ runq[i] \in G
    BY <1>inv, SeqTypes DEF BaseTypeOK
  <2>3. UNCHANGED <<tgt, seen, cand, ret, status, parking, lockedm, allg, deadq,
                    allm, waitq, sleepers, nsleep, schedLock, togo, found,
                    proc>>
    BY <1>Dequeue, <1>inv, <2>1, <2>2
       DEF Dequeue, threads, frames, gs, lists, waits, scan
  <2>4. reg' = Put(m, "next", runq[i])
    BY <1>Dequeue, <1>inv, <2>1, <2>2 DEF Dequeue
  <2>5. PutRegs(m, "next", runq[i])
    BY <1>inv, <2>1, <2>2, <2>4, PutShape, RegNames
  <2>6. SingleOwner' /\ \A h \in G : LoosenessKept(h)
    BY <1>inv, <2>1, <2>2, <2>5, OwnerUnlink DEF Inv2
  <2>7. \A p \in M, h \in G : Waking(p, h)' => Waking(p, h)
    BY <1>Dequeue, <1>inv, <2>1, <2>2, <2>3, Consts
       DEF Waking, ReadyPCs, Goto, At, BaseTypeOK, Dequeue
  <2>8. OneWaker' /\ \A h \in G : CanBeWoken(h)' => CanBeWoken(h)
    BY <1>inv, <2>7, <2>3, WakeFrame DEF Inv2
  <2>9. \A n \in M :
        /\ pc[n] = "park" => pc'[n] = "park" /\ reg'[n]["curg"] = reg[n]["curg"]
        /\ reg'[n]["park_g"] = reg[n]["park_g"]
    BY <1>Dequeue, <1>inv, <2>1, <2>2, <2>3, <2>5, RegNames
       DEF Goto, At, BaseTypeOK, Dequeue, PutRegs
  <2>10. \A h \in G : CanBeWoken(h)' => Parked(h)' \/ Kept(h)
    BY <2>1, <2>2, <2>6, <2>8, <2>9, <2>3 DEF Kept
  <2>11. SeenAt(m)'
    BY <1>Dequeue, <1>inv, <2>1, <2>2, <2>3, Consts
       DEF SeenAt, At, Goto, BaseTypeOK, Dequeue
  <2>12. \A n \in M : pc[n] \in {"cas2", "store"} =>
      tgt[n] \in G /\ CanBeWoken(tgt[n])
    BY <1>inv, Pointers DEF CanBeWoken, Waking, ReadyPCs
  <2>13. \A n \in M : SeenAt(n)' \/ SeenKept(n)
    BY <1>Dequeue, <1>inv, <2>1, <2>2, <2>3, <2>11, <2>12
       DEF SeenAt, SeenKept, At, Goto, BaseTypeOK, Dequeue
  <2>14. \A h \in G : (h \in deadq' \/ status'[h] = "free" =>
      (h \in deadq \/ status[h] = "free"))
    BY <1>Dequeue, <1>inv, <2>1, <2>2, <2>3 DEF Dequeue, BaseTypeOK, Statuses
  <2>15. DeadNotFree'
    BY <1>Dequeue, <1>inv, <2>1, <2>2, <2>3, <2>14
       DEF DeadNotFree, Inv2, Dequeue, BaseTypeOK
  <2>16. \A h \in G : GoneAt(h)'
    BY <1>inv, <2>1, <2>2, <2>6, <2>8, <2>14, <2>3, SplitInv2
       DEF GoneAt, LoosenessKept
  <2> QED
    BY <1>inv, <2>6, <2>8, <2>10, <2>13, <2>15, <2>16, Keep
<1>DequeueNone. ASSUME NEW m \in M, DequeueNone(m) PROVE Inv2'
  <2>1. UNCHANGED <<reg, tgt, seen, cand, ret, status, parking, lockedm, runq,
                    allg, deadq, allm, waitq, sleepers, nsleep, schedLock, togo,
                    found, proc>>
    BY <1>DequeueNone, <1>inv
       DEF DequeueNone, threads, frames, gs, lists, waits, scan
  <2>2. SingleOwner' /\ \A h \in G : LoosenessKept(h)
    BY <1>inv, <2>1, OwnerSame DEF Inv2
  <2>3. \A p \in M, h \in G : Waking(p, h)' => Waking(p, h)
    BY <1>DequeueNone, <1>inv, <2>1, Consts
       DEF Waking, ReadyPCs, Goto, At, BaseTypeOK, DequeueNone
  <2>4. OneWaker' /\ \A h \in G : CanBeWoken(h)' => CanBeWoken(h)
    BY <1>inv, <2>3, <2>1, WakeFrame DEF Inv2
  <2>5. \A n \in M :
        /\ pc[n] = "park" => pc'[n] = "park" /\ reg'[n]["curg"] = reg[n]["curg"]
        /\ reg'[n]["park_g"] = reg[n]["park_g"]
    BY <1>DequeueNone, <1>inv, <2>1, RegNames
       DEF Goto, At, BaseTypeOK, DequeueNone
  <2>6. \A h \in G : CanBeWoken(h)' => Parked(h)' \/ Kept(h)
    BY <2>2, <2>4, <2>5, <2>1 DEF Kept
  <2>7. SeenAt(m)'
    BY <1>DequeueNone, <1>inv, <2>1, Consts
       DEF SeenAt, At, Goto, BaseTypeOK, DequeueNone
  <2>8. \A n \in M : pc[n] \in {"cas2", "store"} =>
      tgt[n] \in G /\ CanBeWoken(tgt[n])
    BY <1>inv, Pointers DEF CanBeWoken, Waking, ReadyPCs
  <2>9. \A n \in M : SeenAt(n)' \/ SeenKept(n)
    BY <1>DequeueNone, <1>inv, <2>1, <2>7, <2>8
       DEF SeenAt, SeenKept, At, Goto, BaseTypeOK, DequeueNone
  <2>10. \A h \in G : (h \in deadq' \/ status'[h] = "free" =>
      (h \in deadq \/ status[h] = "free"))
    BY <1>DequeueNone, <1>inv, <2>1 DEF DequeueNone, BaseTypeOK, Statuses
  <2>11. DeadNotFree'
    BY <1>DequeueNone, <1>inv, <2>1, <2>10
       DEF DeadNotFree, Inv2, DequeueNone, BaseTypeOK
  <2>12. \A h \in G : GoneAt(h)'
    BY <1>inv, <2>2, <2>4, <2>10, <2>1, SplitInv2 DEF GoneAt, LoosenessKept
  <2> QED
    BY <1>inv, <2>2, <2>4, <2>6, <2>9, <2>11, <2>12, Keep
<1>ScanBegin. ASSUME ScanBegin PROVE Inv2'
  <2>1. UNCHANGED <<reg, tgt, seen, cand, ret, status, parking, lockedm, runq,
                    allg, deadq, allm, waitq, sleepers, nsleep, proc>>
    BY <1>ScanBegin, <1>inv
       DEF ScanBegin, threads, frames, gs, lists, waits, scan
  <2>2. SingleOwner' /\ \A h \in G : LoosenessKept(h)
    BY <1>inv, <2>1, OwnerSame DEF Inv2
  <2>3. \A p \in M, h \in G : Waking(p, h)' => Waking(p, h)
    BY <1>ScanBegin, <1>inv, <2>1, Consts
       DEF Waking, ReadyPCs, Goto, At, BaseTypeOK, ScanBegin
  <2>4. OneWaker' /\ \A h \in G : CanBeWoken(h)' => CanBeWoken(h)
    BY <1>inv, <2>3, <2>1, WakeFrame DEF Inv2
  <2>5. \A n \in M :
        /\ pc[n] = "park" => pc'[n] = "park" /\ reg'[n]["curg"] = reg[n]["curg"]
        /\ reg'[n]["park_g"] = reg[n]["park_g"]
    BY <1>ScanBegin, <1>inv, <2>1, RegNames DEF Goto, At, BaseTypeOK, ScanBegin
  <2>6. \A h \in G : CanBeWoken(h)' => Parked(h)' \/ Kept(h)
    BY <2>2, <2>4, <2>5, <2>1 DEF Kept
  <2>7. SeenAt(M0)'
    BY <1>ScanBegin, <1>inv, <2>1, Consts
       DEF SeenAt, At, Goto, BaseTypeOK, ScanBegin
  <2>8. \A n \in M : pc[n] \in {"cas2", "store"} =>
      tgt[n] \in G /\ CanBeWoken(tgt[n])
    BY <1>inv, Pointers DEF CanBeWoken, Waking, ReadyPCs
  <2>9. \A n \in M : SeenAt(n)' \/ SeenKept(n)
    BY <1>ScanBegin, <1>inv, <2>1, <2>7, <2>8
       DEF SeenAt, SeenKept, At, Goto, BaseTypeOK, ScanBegin
  <2>10. \A h \in G : (h \in deadq' \/ status'[h] = "free" =>
      (h \in deadq \/ status[h] = "free"))
    BY <1>ScanBegin, <1>inv, <2>1 DEF ScanBegin, BaseTypeOK, Statuses
  <2>11. DeadNotFree'
    BY <1>ScanBegin, <1>inv, <2>1, <2>10
       DEF DeadNotFree, Inv2, ScanBegin, BaseTypeOK
  <2>12. \A h \in G : GoneAt(h)'
    BY <1>inv, <2>2, <2>4, <2>10, <2>1, SplitInv2 DEF GoneAt, LoosenessKept
  <2> QED
    BY <1>inv, <2>2, <2>4, <2>6, <2>9, <2>11, <2>12, Keep
<1>ScanRead. ASSUME ScanRead PROVE Inv2'
  <2>1. UNCHANGED <<pc, reg, tgt, seen, cand, ret, status, parking, lockedm,
                    runq, allg, deadq, allm, waitq, sleepers, nsleep, schedLock,
                    proc>>
    BY <1>ScanRead, <1>inv DEF ScanRead, threads, frames, gs, lists, waits, scan
  <2>2. SingleOwner' /\ \A h \in G : LoosenessKept(h)
    BY <1>inv, <2>1, OwnerSame DEF Inv2
  <2>3. \A p \in M, h \in G : Waking(p, h)' => Waking(p, h)
    BY <1>ScanRead, <1>inv, <2>1, Consts
       DEF Waking, ReadyPCs, Goto, At, BaseTypeOK, ScanRead
  <2>4. OneWaker' /\ \A h \in G : CanBeWoken(h)' => CanBeWoken(h)
    BY <1>inv, <2>3, <2>1, WakeFrame DEF Inv2
  <2>5. \A n \in M :
        /\ pc[n] = "park" => pc'[n] = "park" /\ reg'[n]["curg"] = reg[n]["curg"]
        /\ reg'[n]["park_g"] = reg[n]["park_g"]
    BY <1>ScanRead, <1>inv, <2>1, RegNames DEF Goto, At, BaseTypeOK, ScanRead
  <2>6. \A h \in G : CanBeWoken(h)' => Parked(h)' \/ Kept(h)
    BY <2>2, <2>4, <2>5, <2>1 DEF Kept
  <2>7. \A n \in M : pc[n] \in {"cas2", "store"} =>
      tgt[n] \in G /\ CanBeWoken(tgt[n])
    BY <1>inv, Pointers DEF CanBeWoken, Waking, ReadyPCs
  <2>8. \A n \in M : SeenAt(n)' \/ SeenKept(n)
    BY <1>ScanRead, <1>inv, <2>1, <2>7
       DEF SeenAt, SeenKept, At, Goto, BaseTypeOK, ScanRead
  <2>9. \A h \in G : (h \in deadq' \/ status'[h] = "free" =>
      (h \in deadq \/ status[h] = "free"))
    BY <1>ScanRead, <1>inv, <2>1 DEF ScanRead, BaseTypeOK, Statuses
  <2>10. DeadNotFree'
    BY <1>ScanRead, <1>inv, <2>1, <2>9
       DEF DeadNotFree, Inv2, ScanRead, BaseTypeOK
  <2>11. \A h \in G : GoneAt(h)'
    BY <1>inv, <2>2, <2>4, <2>9, <2>1, SplitInv2 DEF GoneAt, LoosenessKept
  <2> QED
    BY <1>inv, <2>2, <2>4, <2>6, <2>8, <2>10, <2>11, Keep
<1>ScanEnd. ASSUME ScanEnd PROVE Inv2'
  <2>1. UNCHANGED <<reg, tgt, seen, cand, ret, status, parking, lockedm, runq,
                    allg, deadq, allm, waitq, sleepers, nsleep, togo>>
    BY <1>ScanEnd, <1>inv DEF ScanEnd, threads, frames, gs, lists, waits, scan
  <2>2. SingleOwner' /\ \A h \in G : LoosenessKept(h)
    BY <1>inv, <2>1, OwnerSame DEF Inv2
  <2>3. \A p \in M, h \in G : Waking(p, h)' => Waking(p, h)
    BY <1>ScanEnd, <1>inv, <2>1, Consts
       DEF Waking, ReadyPCs, Goto, At, BaseTypeOK, ScanEnd
  <2>4. OneWaker' /\ \A h \in G : CanBeWoken(h)' => CanBeWoken(h)
    BY <1>inv, <2>3, <2>1, WakeFrame DEF Inv2
  <2>5. \A n \in M :
        /\ pc[n] = "park" => pc'[n] = "park" /\ reg'[n]["curg"] = reg[n]["curg"]
        /\ reg'[n]["park_g"] = reg[n]["park_g"]
    BY <1>ScanEnd, <1>inv, <2>1, RegNames DEF Goto, At, BaseTypeOK, ScanEnd
  <2>6. \A h \in G : CanBeWoken(h)' => Parked(h)' \/ Kept(h)
    BY <2>2, <2>4, <2>5, <2>1 DEF Kept
  <2>7. SeenAt(M0)'
    BY <1>ScanEnd, <1>inv, <2>1, Consts
       DEF SeenAt, At, Goto, BaseTypeOK, ScanEnd
  <2>8. \A n \in M : pc[n] \in {"cas2", "store"} =>
      tgt[n] \in G /\ CanBeWoken(tgt[n])
    BY <1>inv, Pointers DEF CanBeWoken, Waking, ReadyPCs
  <2>9. \A n \in M : SeenAt(n)' \/ SeenKept(n)
    BY <1>ScanEnd, <1>inv, <2>1, <2>7, <2>8
       DEF SeenAt, SeenKept, At, Goto, BaseTypeOK, ScanEnd
  <2>10. \A h \in G : (h \in deadq' \/ status'[h] = "free" =>
      (h \in deadq \/ status[h] = "free"))
    BY <1>ScanEnd, <1>inv, <2>1 DEF ScanEnd, BaseTypeOK, Statuses
  <2>11. DeadNotFree'
    BY <1>ScanEnd, <1>inv, <2>1, <2>10
       DEF DeadNotFree, Inv2, ScanEnd, BaseTypeOK
  <2>12. \A h \in G : GoneAt(h)'
    BY <1>inv, <2>2, <2>4, <2>10, <2>1, SplitInv2 DEF GoneAt, LoosenessKept
  <2> QED
    BY <1>inv, <2>2, <2>4, <2>6, <2>9, <2>11, <2>12, Keep
<1>Go. ASSUME NEW m \in M, NEW g \in G, Go(m, g) PROVE Inv2'
  <2>1. Loose(g) /\ ~CanBeWoken(g) /\ g \notin deadq
    BY <1>Go, <1>inv, FreshG DEF Go, NewG
  <2>2. UNCHANGED <<tgt, seen, cand, ret, parking, lockedm, runq, deadq, allm,
                    waitq, sleepers, nsleep, schedLock, togo, found, proc>>
    BY <1>Go, <1>inv, <2>1 DEF Go, NewG, threads, frames, gs, lists, waits, scan
  <2>3. reg' = Put(m, "enq", g)
    BY <1>Go, <1>inv, <2>1 DEF Go, NewG
  <2>4. PutRegs(m, "enq", g)
    BY <1>inv, <2>1, <2>3, PutShape, RegNames
  <2>5. SingleOwner' /\ \A h \in G : h # g => LoosenessKept(h)
    BY <1>inv, <2>1, <2>4, <2>2, OwnerPut, RegNames, Consts DEF Inv2
  <2>6. \A p \in M, h \in G : Waking(p, h)' => Waking(p, h)
    BY <1>Go, <1>inv, <2>1, <2>2, Consts
       DEF Waking, ReadyPCs, Goto, At, BaseTypeOK, Go, NewG
  <2>7. OneWaker' /\ \A h \in G : CanBeWoken(h)' => CanBeWoken(h)
    BY <1>inv, <2>6, <2>2, WakeFrame DEF Inv2
  <2>8. \A n \in M :
        /\ pc[n] = "park" => pc'[n] = "park" /\ reg'[n]["curg"] = reg[n]["curg"]
        /\ reg'[n]["park_g"] = reg[n]["park_g"]
    BY <1>Go, <1>inv, <2>1, <2>2, <2>4, RegNames
       DEF Goto, At, BaseTypeOK, Go, NewG, PutRegs
  <2>9. \A h \in G : CanBeWoken(h)' => Parked(h)' \/ Kept(h)
    BY <2>1, <2>5, <2>7, <2>8, <2>2 DEF Kept
  <2>10. SeenAt(m)'
    BY <1>Go, <1>inv, <2>1, <2>2, Consts
       DEF SeenAt, At, Goto, BaseTypeOK, Go, NewG
  <2>11. \A n \in M : pc[n] \in {"cas2", "store"} =>
      tgt[n] \in G /\ CanBeWoken(tgt[n])
    BY <1>inv, Pointers DEF CanBeWoken, Waking, ReadyPCs
  <2>12. \A n \in M : SeenAt(n)' \/ SeenKept(n)
    BY <1>Go, <1>inv, <2>1, <2>2, <2>10, <2>11
       DEF SeenAt, SeenKept, At, Goto, BaseTypeOK, Go, NewG
  <2>13. \A h \in G : (h \in deadq' \/ status'[h] = "free" =>
      (h \in deadq \/ status[h] = "free") /\ h # g)
    BY <1>Go, <1>inv, <2>1, <2>2 DEF Go, NewG, BaseTypeOK
  <2>14. DeadNotFree'
    BY <1>Go, <1>inv, <2>1, <2>2 DEF DeadNotFree, Inv2, Go, NewG, BaseTypeOK
  <2>15. \A h \in G : GoneAt(h)'
    BY <1>inv, <2>1, <2>5, <2>7, <2>13, <2>2, SplitInv2
       DEF GoneAt, LoosenessKept
  <2> QED
    BY <1>inv, <2>5, <2>7, <2>9, <2>12, <2>14, <2>15, Keep
<1>StartLocked. ASSUME NEW m \in M, NEW g \in G, StartLocked(m, g) PROVE Inv2'
  <2>1. Loose(g) /\ ~CanBeWoken(g) /\ g \notin deadq
    BY <1>StartLocked, <1>inv, FreshG DEF StartLocked, NewG
  <2>2. UNCHANGED <<tgt, seen, cand, ret, parking, lockedm, runq, deadq, allm,
                    waitq, sleepers, nsleep, schedLock, togo, found, proc>>
    BY <1>StartLocked, <1>inv, <2>1
       DEF StartLocked, NewG, threads, frames, gs, lists, waits, scan
  <2>3. reg' = Put(m, "enq", g)
    BY <1>StartLocked, <1>inv, <2>1 DEF StartLocked, NewG
  <2>4. PutRegs(m, "enq", g)
    BY <1>inv, <2>1, <2>3, PutShape, RegNames
  <2>5. SingleOwner' /\ \A h \in G : h # g => LoosenessKept(h)
    BY <1>inv, <2>1, <2>4, <2>2, OwnerPut, RegNames, Consts DEF Inv2
  <2>6. \A p \in M, h \in G : Waking(p, h)' => Waking(p, h)
    BY <1>StartLocked, <1>inv, <2>1, <2>2, Consts
       DEF Waking, ReadyPCs, Goto, At, BaseTypeOK, StartLocked, NewG
  <2>7. OneWaker' /\ \A h \in G : CanBeWoken(h)' => CanBeWoken(h)
    BY <1>inv, <2>6, <2>2, WakeFrame DEF Inv2
  <2>8. \A n \in M :
        /\ pc[n] = "park" => pc'[n] = "park" /\ reg'[n]["curg"] = reg[n]["curg"]
        /\ reg'[n]["park_g"] = reg[n]["park_g"]
    BY <1>StartLocked, <1>inv, <2>1, <2>2, <2>4, RegNames
       DEF Goto, At, BaseTypeOK, StartLocked, NewG, PutRegs
  <2>9. \A h \in G : CanBeWoken(h)' => Parked(h)' \/ Kept(h)
    BY <2>1, <2>5, <2>7, <2>8, <2>2 DEF Kept
  <2>10. SeenAt(m)'
    BY <1>StartLocked, <1>inv, <2>1, <2>2, Consts
       DEF SeenAt, At, Goto, BaseTypeOK, StartLocked, NewG
  <2>11. \A n \in M : pc[n] \in {"cas2", "store"} =>
      tgt[n] \in G /\ CanBeWoken(tgt[n])
    BY <1>inv, Pointers DEF CanBeWoken, Waking, ReadyPCs
  <2>12. \A n \in M : SeenAt(n)' \/ SeenKept(n)
    BY <1>StartLocked, <1>inv, <2>1, <2>2, <2>10, <2>11
       DEF SeenAt, SeenKept, At, Goto, BaseTypeOK, StartLocked, NewG
  <2>13. \A h \in G : (h \in deadq' \/ status'[h] = "free" =>
      (h \in deadq \/ status[h] = "free") /\ h # g)
    BY <1>StartLocked, <1>inv, <2>1, <2>2 DEF StartLocked, NewG, BaseTypeOK
  <2>14. DeadNotFree'
    BY <1>StartLocked, <1>inv, <2>1, <2>2
       DEF DeadNotFree, Inv2, StartLocked, NewG, BaseTypeOK
  <2>15. \A h \in G : GoneAt(h)'
    BY <1>inv, <2>1, <2>5, <2>7, <2>13, <2>2, SplitInv2
       DEF GoneAt, LoosenessKept
  <2> QED
    BY <1>inv, <2>5, <2>7, <2>9, <2>12, <2>14, <2>15, Keep
<1>Wake. ASSUME NEW m \in M, NEW g \in G, Wake(m, g) PROVE Inv2'
  <2>1. g \notin sleepers /\ g \in waitq
    BY <1>inv, <1>Wake DEF Wake, OneWaker, Inv2
  <2>2. UNCHANGED <<reg, seen, cand, status, parking, lockedm, runq, allg,
                    deadq, allm, sleepers, nsleep, schedLock, togo, found,
                    proc>>
    BY <1>Wake, <1>inv, <2>1
       DEF Wake, CallReady, threads, frames, gs, lists, waits, scan
  <2>3. SingleOwner' /\ \A h \in G : LoosenessKept(h)
    BY <1>inv, <2>2, OwnerSame DEF Inv2
  <2>4. \A p \in M, h \in G : Waking(p, h)' => Waking(p, h) \/ (p = m /\ h = g)
    BY <1>Wake, <1>inv, <2>1, <2>2
       DEF Waking, ReadyPCs, Goto, At, BaseTypeOK, Wake, CallReady
  <2>5. OneWaker' /\ \A h \in G : CanBeWoken(h)' => CanBeWoken(h)
    BY <1>Wake, <1>inv, <2>1, <2>2, <2>4, WakerMoves DEF Inv2, Wake
  <2>6. \A n \in M :
        /\ pc[n] = "park" => pc'[n] = "park" /\ reg'[n]["curg"] = reg[n]["curg"]
        /\ reg'[n]["park_g"] = reg[n]["park_g"]
    BY <1>Wake, <1>inv, <2>1, <2>2, RegNames
       DEF Goto, At, BaseTypeOK, Wake, CallReady
  <2>7. \A h \in G : CanBeWoken(h)' => Parked(h)' \/ Kept(h)
    BY <2>1, <2>3, <2>5, <2>6, <2>2 DEF Kept
  <2>8. SeenAt(m)'
    BY <1>Wake, <1>inv, <2>1, <2>2, Consts
       DEF SeenAt, At, Goto, BaseTypeOK, Wake, CallReady
  <2>9. \A n \in M : pc[n] \in {"cas2", "store"} =>
      tgt[n] \in G /\ CanBeWoken(tgt[n])
    BY <1>inv, Pointers DEF CanBeWoken, Waking, ReadyPCs
  <2>10. \A n \in M : SeenAt(n)' \/ SeenKept(n)
    BY <1>Wake, <1>inv, <2>1, <2>2, <2>8, <2>9
       DEF SeenAt, SeenKept, At, Goto, BaseTypeOK, Wake, CallReady
  <2>11. \A h \in G : (h \in deadq' \/ status'[h] = "free" =>
      (h \in deadq \/ status[h] = "free"))
    BY <1>Wake, <1>inv, <2>1, <2>2 DEF Wake, CallReady, BaseTypeOK, Statuses
  <2>12. DeadNotFree'
    BY <1>Wake, <1>inv, <2>1, <2>2, <2>11
       DEF DeadNotFree, Inv2, Wake, CallReady, BaseTypeOK
  <2>13. \A h \in G : GoneAt(h)'
    BY <1>inv, <2>1, <2>3, <2>5, <2>11, <2>2, SplitInv2
       DEF GoneAt, LoosenessKept
  <2> QED
    BY <1>inv, <2>3, <2>5, <2>7, <2>10, <2>12, <2>13, Keep
<1>SpawnThread. ASSUME NEW m \in M, NEW n \in M, SpawnThread(m, n) PROVE Inv2'
  <2>1. reg[m]["enq"] \in G
    BY <1>SpawnThread, <1>inv, Pointers DEF SpawnThread, At
  <2>2. UNCHANGED <<tgt, seen, cand, ret, status, parking, runq, allg, deadq,
                    allm, waitq, sleepers, nsleep, schedLock, togo, found,
                    proc>>
    BY <1>SpawnThread, <1>inv, <2>1
       DEF SpawnThread, threads, frames, gs, lists, waits, scan
  <2>3. reg' = Move(m, "enq", n, "start")
    BY <1>SpawnThread, <1>inv, <2>1 DEF SpawnThread
  <2>4. HandRegs(m, "enq", n, "start")
    BY <1>inv, <2>1, <2>3, HandShape, RegNames
  <2>5. SingleOwner' /\ \A h \in G : LoosenessKept(h)
    BY <1>inv, <2>1, <2>4, <2>2, OwnerHand, RegNames, Consts DEF Inv2
  <2>6. \A p \in M, h \in G : Waking(p, h)' => Waking(p, h)
    BY <1>SpawnThread, <1>inv, <2>1, <2>2, Consts
       DEF Waking, ReadyPCs, Goto, At, BaseTypeOK, SpawnThread
  <2>7. OneWaker' /\ \A h \in G : CanBeWoken(h)' => CanBeWoken(h)
    BY <1>inv, <2>6, <2>2, WakeFrame DEF Inv2
  <2>8. \A q \in M :
        /\ pc[q] = "park" => pc'[q] = "park" /\ reg'[q]["curg"] = reg[q]["curg"]
        /\ reg'[q]["park_g"] = reg[q]["park_g"]
    BY <1>SpawnThread, <1>inv, <2>1, <2>2, <2>4, RegNames
       DEF Goto, At, BaseTypeOK, SpawnThread, HandRegs
  <2>9. \A h \in G : CanBeWoken(h)' => Parked(h)' \/ Kept(h)
    BY <2>1, <2>5, <2>7, <2>8, <2>2 DEF Kept
  <2>10. SeenAt(m)'
    BY <1>SpawnThread, <1>inv, <2>1, <2>2, Consts
       DEF SeenAt, At, Goto, BaseTypeOK, SpawnThread
  <2>11. \A q \in M : pc[q] \in {"cas2", "store"} =>
      tgt[q] \in G /\ CanBeWoken(tgt[q])
    BY <1>inv, Pointers DEF CanBeWoken, Waking, ReadyPCs
  <2>12. \A q \in M : SeenAt(q)' \/ SeenKept(q)
    BY <1>SpawnThread, <1>inv, <2>1, <2>2, <2>10, <2>11
       DEF SeenAt, SeenKept, At, Goto, BaseTypeOK, SpawnThread
  <2>13. \A h \in G : (h \in deadq' \/ status'[h] = "free" =>
      (h \in deadq \/ status[h] = "free"))
    BY <1>SpawnThread, <1>inv, <2>1, <2>2 DEF SpawnThread, BaseTypeOK, Statuses
  <2>14. DeadNotFree'
    BY <1>SpawnThread, <1>inv, <2>1, <2>2, <2>13
       DEF DeadNotFree, Inv2, SpawnThread, BaseTypeOK
  <2>15. \A h \in G : GoneAt(h)'
    BY <1>inv, <2>1, <2>5, <2>7, <2>13, <2>2, SplitInv2
       DEF GoneAt, LoosenessKept
  <2> QED
    BY <1>inv, <2>5, <2>7, <2>9, <2>12, <2>14, <2>15, Keep
<1>SpawnWorker. ASSUME NEW m \in M, NEW n \in M, SpawnWorker(m, n) PROVE Inv2'
  <2>1. UNCHANGED <<reg, tgt, seen, cand, ret, status, parking, lockedm, runq,
                    allg, deadq, allm, waitq, sleepers, nsleep, schedLock, togo,
                    found, proc>>
    BY <1>SpawnWorker, <1>inv
       DEF SpawnWorker, threads, frames, gs, lists, waits, scan
  <2>2. SingleOwner' /\ \A h \in G : LoosenessKept(h)
    BY <1>inv, <2>1, OwnerSame DEF Inv2
  <2>3. \A p \in M, h \in G : Waking(p, h)' => Waking(p, h)
    BY <1>SpawnWorker, <1>inv, <2>1, Consts
       DEF Waking, ReadyPCs, Goto, At, BaseTypeOK, SpawnWorker
  <2>4. OneWaker' /\ \A h \in G : CanBeWoken(h)' => CanBeWoken(h)
    BY <1>inv, <2>3, <2>1, WakeFrame DEF Inv2
  <2>5. \A q \in M :
        /\ pc[q] = "park" => pc'[q] = "park" /\ reg'[q]["curg"] = reg[q]["curg"]
        /\ reg'[q]["park_g"] = reg[q]["park_g"]
    BY <1>SpawnWorker, <1>inv, <2>1, RegNames
       DEF Goto, At, BaseTypeOK, SpawnWorker
  <2>6. \A h \in G : CanBeWoken(h)' => Parked(h)' \/ Kept(h)
    BY <2>2, <2>4, <2>5, <2>1 DEF Kept
  <2>7. SeenAt(m)'
    BY <1>SpawnWorker, <1>inv, <2>1, Consts
       DEF SeenAt, At, Goto, BaseTypeOK, SpawnWorker
  <2>8. \A q \in M : pc[q] \in {"cas2", "store"} =>
      tgt[q] \in G /\ CanBeWoken(tgt[q])
    BY <1>inv, Pointers DEF CanBeWoken, Waking, ReadyPCs
  <2>9. \A q \in M : SeenAt(q)' \/ SeenKept(q)
    BY <1>SpawnWorker, <1>inv, <2>1, <2>7, <2>8
       DEF SeenAt, SeenKept, At, Goto, BaseTypeOK, SpawnWorker
  <2>10. \A h \in G : (h \in deadq' \/ status'[h] = "free" =>
      (h \in deadq \/ status[h] = "free"))
    BY <1>SpawnWorker, <1>inv, <2>1 DEF SpawnWorker, BaseTypeOK, Statuses
  <2>11. DeadNotFree'
    BY <1>SpawnWorker, <1>inv, <2>1, <2>10
       DEF DeadNotFree, Inv2, SpawnWorker, BaseTypeOK
  <2>12. \A h \in G : GoneAt(h)'
    BY <1>inv, <2>2, <2>4, <2>10, <2>1, SplitInv2 DEF GoneAt, LoosenessKept
  <2> QED
    BY <1>inv, <2>2, <2>4, <2>6, <2>9, <2>11, <2>12, Keep
<1>SpawnFail. ASSUME NEW m \in M, SpawnFail(m) PROVE Inv2'
  <2>1. reg[m]["enq"] \in G
    BY <1>SpawnFail, <1>inv, Pointers DEF SpawnFail, At
  <2>2. UNCHANGED <<tgt, seen, cand, ret, parking, lockedm, runq, deadq, allm,
                    waitq, sleepers, nsleep, schedLock, togo, found, proc>>
    BY <1>SpawnFail, <1>inv, <2>1
       DEF SpawnFail, threads, frames, gs, lists, waits, scan
  <2>3. PICK x \in G : x = reg[m]["enq"]
    BY <2>1
  <2>4. ~CanBeWoken(x) /\ x \notin deadq
    BY <1>SpawnFail, <1>inv, <2>1, <2>3, HeldNotWoken, HeldNotGone, RegNames
  <2>5. reg' = Put(m, "enq", None)
    BY <1>SpawnFail, <1>inv, <2>1, <2>3, <2>4 DEF SpawnFail
  <2>6. PutRegs(m, "enq", None)
    BY <1>inv, <2>1, <2>5, PutShape, RegNames
  <2>7. SingleOwner' /\ \A h \in G : LoosenessKept(h)
    BY <1>inv, <2>1, <2>3, <2>4, <2>6, <2>2, OwnerPut, RegNames, Consts DEF Inv2
  <2>8. Loose(x)'
    BY <1>inv, <2>1, <2>3, <2>4, <2>6, <2>2, DropLoose, RegNames
  <2>9. \A p \in M, h \in G : Waking(p, h)' => Waking(p, h)
    BY <1>SpawnFail, <1>inv, <2>1, <2>3, <2>4, <2>2, Consts
       DEF Waking, ReadyPCs, Goto, At, BaseTypeOK, SpawnFail
  <2>10. OneWaker' /\ \A h \in G : CanBeWoken(h)' => CanBeWoken(h)
    BY <1>inv, <2>9, <2>2, WakeFrame DEF Inv2
  <2>11. \A n \in M :
        /\ pc[n] = "park" => pc'[n] = "park" /\ reg'[n]["curg"] = reg[n]["curg"]
        /\ reg'[n]["park_g"] = reg[n]["park_g"]
    BY <1>SpawnFail, <1>inv, <2>1, <2>3, <2>4, <2>2, <2>6, RegNames
       DEF Goto, At, BaseTypeOK, SpawnFail, PutRegs
  <2>12. \A h \in G : CanBeWoken(h)' => Parked(h)' \/ Kept(h)
    BY <2>1, <2>3, <2>4, <2>7, <2>10, <2>11, <2>2 DEF Kept
  <2>13. SeenAt(m)'
    BY <1>SpawnFail, <1>inv, <2>1, <2>3, <2>4, <2>2, Consts
       DEF SeenAt, At, Goto, BaseTypeOK, SpawnFail
  <2>14. \A n \in M : pc[n] \in {"cas2", "store"} =>
      tgt[n] \in G /\ CanBeWoken(tgt[n])
    BY <1>inv, Pointers DEF CanBeWoken, Waking, ReadyPCs
  <2>15. \A n \in M : SeenAt(n)' \/ SeenKept(n)
    BY <1>SpawnFail, <1>inv, <2>1, <2>3, <2>4, <2>2, <2>13, <2>14
       DEF SeenAt, SeenKept, At, Goto, BaseTypeOK, SpawnFail
  <2>16. \A h \in G : h # x => (h \in deadq' \/ status'[h] = "free" =>
      h \in deadq \/ status[h] = "free")
    BY <1>SpawnFail, <1>inv, <2>1, <2>3, <2>4, <2>2 DEF SpawnFail, BaseTypeOK
  <2>17. DeadNotFree'
    BY <1>SpawnFail, <1>inv, <2>1, <2>3, <2>4, <2>2, <2>16
       DEF DeadNotFree, Inv2, SpawnFail, BaseTypeOK
  <2>18. \A h \in G : GoneAt(h)'
    BY <1>inv, <2>1, <2>3, <2>4, <2>7, <2>10, <2>16, <2>8, <2>2, SplitInv2
       DEF GoneAt, LoosenessKept
  <2> QED
    BY <1>inv, <2>7, <2>10, <2>12, <2>15, <2>17, <2>18, Keep
<1>Gosched. ASSUME NEW m \in M, Gosched(m) PROVE Inv2'
  <2>1. reg[m]["curg"] \in G
    BY <1>Gosched, <1>inv, Pointers DEF Gosched, At
  <2>2. UNCHANGED <<tgt, seen, cand, ret, parking, lockedm, runq, allg, deadq,
                    allm, waitq, sleepers, nsleep, schedLock, togo, found,
                    proc>>
    BY <1>Gosched, <1>inv, <2>1
       DEF Gosched, SwitchToG0, threads, frames, gs, lists, waits, scan
  <2>3. reg' = Move(m, "curg", m, "enqg")
    BY <1>Gosched, <1>inv, <2>1 DEF Gosched, SwitchToG0
  <2>4. ShiftRegs(m, "curg", "enqg")
    BY <1>inv, <2>1, <2>3, ShiftShape, RegNames
  <2>5. SingleOwner' /\ \A h \in G : LoosenessKept(h)
    BY <1>inv, <2>1, <2>4, <2>2, OwnerShift, RegNames, Consts DEF Inv2
  <2>6. \A p \in M, h \in G : Waking(p, h)' => Waking(p, h)
    BY <1>Gosched, <1>inv, <2>1, <2>2, Consts
       DEF Waking, ReadyPCs, Goto, At, BaseTypeOK, Gosched, SwitchToG0
  <2>7. OneWaker' /\ \A h \in G : CanBeWoken(h)' => CanBeWoken(h)
    BY <1>inv, <2>6, <2>2, WakeFrame DEF Inv2
  <2>8. \A n \in M :
        /\ pc[n] = "park" => pc'[n] = "park" /\ reg'[n]["curg"] = reg[n]["curg"]
        /\ reg'[n]["park_g"] = reg[n]["park_g"]
    BY <1>Gosched, <1>inv, <2>1, <2>2, <2>4, RegNames
       DEF Goto, At, BaseTypeOK, Gosched, SwitchToG0, ShiftRegs
  <2>9. \A h \in G : CanBeWoken(h)' => Parked(h)' \/ Kept(h)
    BY <2>1, <2>5, <2>7, <2>8, <2>2 DEF Kept
  <2>10. SeenAt(m)'
    BY <1>Gosched, <1>inv, <2>1, <2>2, Consts
       DEF SeenAt, At, Goto, BaseTypeOK, Gosched, SwitchToG0
  <2>11. \A n \in M : pc[n] \in {"cas2", "store"} =>
      tgt[n] \in G /\ CanBeWoken(tgt[n])
    BY <1>inv, Pointers DEF CanBeWoken, Waking, ReadyPCs
  <2>12. \A n \in M : SeenAt(n)' \/ SeenKept(n)
    BY <1>Gosched, <1>inv, <2>1, <2>2, <2>10, <2>11
       DEF SeenAt, SeenKept, At, Goto, BaseTypeOK, Gosched, SwitchToG0
  <2>13. \A h \in G : (h \in deadq' \/ status'[h] = "free" =>
      (h \in deadq \/ status[h] = "free"))
    BY <1>Gosched, <1>inv, <2>1, <2>2
       DEF Gosched, SwitchToG0, BaseTypeOK, Statuses
  <2>14. DeadNotFree'
    BY <1>Gosched, <1>inv, <2>1, <2>2, <2>13
       DEF DeadNotFree, Inv2, Gosched, SwitchToG0, BaseTypeOK
  <2>15. \A h \in G : GoneAt(h)'
    BY <1>inv, <2>1, <2>5, <2>7, <2>13, <2>2, SplitInv2
       DEF GoneAt, LoosenessKept
  <2> QED
    BY <1>inv, <2>5, <2>7, <2>9, <2>12, <2>14, <2>15, Keep
<1>ParkRegister. ASSUME NEW m \in M, ParkRegister(m) PROVE Inv2'
  <2>1. reg[m]["curg"] \in G
    BY <1>ParkRegister, <1>inv, Pointers DEF ParkRegister, At
  <2>2. UNCHANGED <<reg, tgt, seen, cand, ret, lockedm, runq, allg, deadq, allm,
                    sleepers, nsleep, schedLock, togo, found, proc>>
    BY <1>ParkRegister, <1>inv, <2>1
       DEF ParkRegister, threads, frames, gs, lists, waits, scan
  <2>3. PICK x \in G : x = reg[m]["curg"]
    BY <2>1
  <2>4. ~CanBeWoken(x) /\ x \notin deadq /\ status[x] # "free"
    BY <1>ParkRegister, <1>inv, <2>1, <2>3, HeldNotWoken, HeldNotGone, RegNames
       DEF ParkRegister, At
  <2>5. SingleOwner' /\ \A h \in G : LoosenessKept(h)
    BY <1>inv, <2>2, OwnerSame DEF Inv2
  <2>6. \A p \in M, h \in G : Waking(p, h)' => Waking(p, h)
    BY <1>ParkRegister, <1>inv, <2>1, <2>3, <2>4, <2>2, Consts
       DEF Waking, ReadyPCs, Goto, At, BaseTypeOK, ParkRegister
  <2>7. OneWaker' /\ \A h \in G : CanBeWoken(h)' => CanBeWoken(h) \/ h = x
    BY <1>ParkRegister, <1>inv, <2>1, <2>3, <2>4, <2>2, <2>6, WaiterAdded
       DEF Inv2, ParkRegister
  <2>8. \A n \in M :
        /\ pc[n] = "park" => pc'[n] = "park" /\ reg'[n]["curg"] = reg[n]["curg"]
        /\ reg'[n]["park_g"] = reg[n]["park_g"]
    BY <1>ParkRegister, <1>inv, <2>1, <2>3, <2>4, <2>2, RegNames
       DEF Goto, At, BaseTypeOK, ParkRegister
  <2>9. \A h \in G : h # x => parking'[h] = parking[h]
    BY <1>ParkRegister, <1>inv, <2>1, <2>3, <2>4 DEF BaseTypeOK, ParkRegister
  <2>10. Parked(x)'
    BY <1>ParkRegister, <1>inv, <2>1, <2>3, <2>4, <2>2
       DEF Parked, ParkRegister, Goto, BaseTypeOK
  <2>11. \A h \in G : CanBeWoken(h)' => Parked(h)' \/ Kept(h)
    BY <2>1, <2>3, <2>4, <2>5, <2>7, <2>8, <2>9, <2>10, <2>2 DEF Kept
  <2>12. SeenAt(m)'
    BY <1>ParkRegister, <1>inv, <2>1, <2>3, <2>4, <2>2, Consts
       DEF SeenAt, At, Goto, BaseTypeOK, ParkRegister
  <2>13. \A n \in M : pc[n] \in {"cas2", "store"} =>
      tgt[n] \in G /\ CanBeWoken(tgt[n])
    BY <1>inv, Pointers DEF CanBeWoken, Waking, ReadyPCs
  <2>14. \A n \in M : SeenAt(n)' \/ SeenKept(n)
    BY <1>ParkRegister, <1>inv, <2>1, <2>3, <2>4, <2>2, <2>12, <2>13, <2>9
       DEF SeenAt, SeenKept, At, Goto, BaseTypeOK, ParkRegister
  <2>15. \A h \in G : (h \in deadq' \/ status'[h] = "free" =>
      (h \in deadq \/ status[h] = "free"))
    BY <1>ParkRegister, <1>inv, <2>1, <2>3, <2>4, <2>2
       DEF ParkRegister, BaseTypeOK, Statuses
  <2>16. DeadNotFree'
    BY <1>ParkRegister, <1>inv, <2>1, <2>3, <2>4, <2>2, <2>15
       DEF DeadNotFree, Inv2, ParkRegister, BaseTypeOK
  <2>17. \A h \in G : GoneAt(h)'
    BY <1>inv, <2>1, <2>3, <2>4, <2>5, <2>7, <2>15, <2>2, SplitInv2
       DEF GoneAt, LoosenessKept
  <2> QED
    BY <1>inv, <2>5, <2>7, <2>11, <2>14, <2>16, <2>17, Keep
<1>Sleep. ASSUME NEW m \in M, Sleep(m) PROVE Inv2'
  <2>1. reg[m]["curg"] \in G
    BY <1>Sleep, <1>inv, Pointers DEF Sleep, At
  <2>2. UNCHANGED <<reg, tgt, seen, cand, ret, lockedm, runq, allg, deadq, allm,
                    waitq, schedLock, togo, found, proc>>
    BY <1>Sleep, <1>inv, <2>1 DEF Sleep, threads, frames, gs, lists, waits, scan
  <2>3. PICK x \in G : x = reg[m]["curg"]
    BY <2>1
  <2>4. ~CanBeWoken(x) /\ x \notin deadq /\ status[x] # "free"
    BY <1>Sleep, <1>inv, <2>1, <2>3, HeldNotWoken, HeldNotGone, RegNames
       DEF Sleep, At
  <2>5. SingleOwner' /\ \A h \in G : LoosenessKept(h)
    BY <1>inv, <2>2, OwnerSame DEF Inv2
  <2>6. \A p \in M, h \in G : Waking(p, h)' => Waking(p, h)
    BY <1>Sleep, <1>inv, <2>1, <2>3, <2>4, <2>2, Consts
       DEF Waking, ReadyPCs, Goto, At, BaseTypeOK, Sleep
  <2>7. OneWaker' /\ \A h \in G : CanBeWoken(h)' => CanBeWoken(h) \/ h = x
    BY <1>Sleep, <1>inv, <2>1, <2>3, <2>4, <2>2, <2>6, WaiterAdded
       DEF Inv2, Sleep
  <2>8. \A n \in M :
        /\ pc[n] = "park" => pc'[n] = "park" /\ reg'[n]["curg"] = reg[n]["curg"]
        /\ reg'[n]["park_g"] = reg[n]["park_g"]
    BY <1>Sleep, <1>inv, <2>1, <2>3, <2>4, <2>2, RegNames
       DEF Goto, At, BaseTypeOK, Sleep
  <2>9. \A h \in G : h # x => parking'[h] = parking[h]
    BY <1>Sleep, <1>inv, <2>1, <2>3, <2>4 DEF BaseTypeOK, Sleep
  <2>10. Parked(x)'
    BY <1>Sleep, <1>inv, <2>1, <2>3, <2>4, <2>2
       DEF Parked, Sleep, Goto, BaseTypeOK
  <2>11. \A h \in G : CanBeWoken(h)' => Parked(h)' \/ Kept(h)
    BY <2>1, <2>3, <2>4, <2>5, <2>7, <2>8, <2>9, <2>10, <2>2 DEF Kept
  <2>12. SeenAt(m)'
    BY <1>Sleep, <1>inv, <2>1, <2>3, <2>4, <2>2, Consts
       DEF SeenAt, At, Goto, BaseTypeOK, Sleep
  <2>13. \A n \in M : pc[n] \in {"cas2", "store"} =>
      tgt[n] \in G /\ CanBeWoken(tgt[n])
    BY <1>inv, Pointers DEF CanBeWoken, Waking, ReadyPCs
  <2>14. \A n \in M : SeenAt(n)' \/ SeenKept(n)
    BY <1>Sleep, <1>inv, <2>1, <2>3, <2>4, <2>2, <2>12, <2>13, <2>9
       DEF SeenAt, SeenKept, At, Goto, BaseTypeOK, Sleep
  <2>15. \A h \in G : (h \in deadq' \/ status'[h] = "free" =>
      (h \in deadq \/ status[h] = "free"))
    BY <1>Sleep, <1>inv, <2>1, <2>3, <2>4, <2>2 DEF Sleep, BaseTypeOK, Statuses
  <2>16. DeadNotFree'
    BY <1>Sleep, <1>inv, <2>1, <2>3, <2>4, <2>2, <2>15
       DEF DeadNotFree, Inv2, Sleep, BaseTypeOK
  <2>17. \A h \in G : GoneAt(h)'
    BY <1>inv, <2>1, <2>3, <2>4, <2>5, <2>7, <2>15, <2>2, SplitInv2
       DEF GoneAt, LoosenessKept
  <2> QED
    BY <1>inv, <2>5, <2>7, <2>11, <2>14, <2>16, <2>17, Keep
<1>ParkSwitch. ASSUME NEW m \in M, ParkSwitch(m) PROVE Inv2'
  <2>1. reg[m]["curg"] \in G
    BY <1>ParkSwitch, <1>inv, Pointers DEF ParkSwitch, At
  <2>2. CASE parking[reg[m]["curg"]] = 1
    <3>1. UNCHANGED <<tgt, seen, cand, ret, status, lockedm, runq, allg, deadq,
                      allm, waitq, sleepers, nsleep, schedLock, togo, found,
                      proc>>
      BY <1>ParkSwitch, <1>inv, <2>1, <2>2
         DEF ParkSwitch, SwitchToG0, threads, frames, gs, lists, waits, scan
    <3>2. PICK x \in G : x = reg[m]["curg"]
      BY <2>1, <2>2
    <3>3. reg[m]["park_g"] = None
      BY <1>ParkSwitch, <1>inv, <2>1, <2>2, <3>2
         DEF ParkSwitch, At, Inv1, Filled, FilledAt, EnqPCs
    <3>4. reg' = Move(m, "curg", m, "park_g")
      BY <1>ParkSwitch, <1>inv, <2>1, <2>2, <3>2, <3>3
         DEF ParkSwitch, SwitchToG0
    <3>5. ShiftRegs(m, "curg", "park_g")
      BY <1>inv, <2>1, <3>4, ShiftShape, RegNames
    <3>6. SingleOwner' /\ \A h \in G : LoosenessKept(h)
      BY <1>inv, <2>1, <2>2, <3>2, <3>3, <3>5, <3>1, OwnerShift, RegNames,
         Consts
         DEF Inv2
    <3>7. \A p \in M, h \in G : Waking(p, h)' => Waking(p, h)
      BY <1>ParkSwitch, <1>inv, <2>1, <2>2, <3>2, <3>3, <3>1, Consts
         DEF Waking, ReadyPCs, Goto, At, BaseTypeOK, ParkSwitch, SwitchToG0
    <3>8. OneWaker' /\ \A h \in G : CanBeWoken(h)' => CanBeWoken(h)
      BY <1>inv, <3>7, <3>1, WakeFrame DEF Inv2
    <3>9. \A n \in M : n # m => pc'[n] = pc[n] /\ reg'[n] = reg[n]
      BY <1>ParkSwitch, <1>inv, <2>1, <2>2, <3>2, <3>3, <3>1, <3>5
         DEF Goto, At, BaseTypeOK, ParkSwitch, SwitchToG0, ShiftRegs
    <3>10. \A h \in G, n \in M : h # x =>
          /\ pc[n] = "park" /\ reg[n]["curg"] = h =>
              pc'[n] = "park" /\ reg'[n]["curg"] = h
          /\ reg[n]["park_g"] = h => reg'[n]["park_g"] = h
      BY <2>1, <2>2, <3>2, <3>3, <3>9, Consts
    <3>11. \A h \in G : h # x => parking'[h] = parking[h]
      BY <1>ParkSwitch, <1>inv, <2>1, <2>2, <3>2, <3>3
         DEF BaseTypeOK, ParkSwitch, SwitchToG0
    <3>12. Parked(x)'
      BY <1>ParkSwitch, <1>inv, <2>1, <2>2, <3>2, <3>3, <3>5
         DEF Parked, ParkSwitch, SwitchToG0, BaseTypeOK, ShiftRegs
    <3>13. \A h \in G : CanBeWoken(h)' => Parked(h)' \/ Kept(h)
      BY <2>1, <2>2, <3>2, <3>3, <3>6, <3>8, <3>10, <3>11, <3>12, <3>1 DEF Kept
    <3>14. SeenAt(m)'
      BY <1>ParkSwitch, <1>inv, <2>1, <2>2, <3>2, <3>3, <3>1, Consts
         DEF SeenAt, At, Goto, BaseTypeOK, ParkSwitch, SwitchToG0
    <3>15. \A n \in M : pc[n] \in {"cas2", "store"} =>
        tgt[n] \in G /\ CanBeWoken(tgt[n])
      BY <1>inv, Pointers DEF CanBeWoken, Waking, ReadyPCs
    <3>16. \A n \in M : pc[n] \in {"cas2", "store"} => tgt[n] # x
      BY <1>ParkSwitch, <1>inv, <2>1, <2>2, <3>2, <3>3 DEF Inv2, SeenIsSafe
    <3>17. \A n \in M : SeenAt(n)' \/ SeenKept(n)
      BY <1>ParkSwitch, <1>inv, <2>1, <2>2, <3>2, <3>3, <3>1, <3>14, <3>15,
         <3>11, <3>16
         DEF SeenAt, SeenKept, At, Goto, BaseTypeOK, ParkSwitch, SwitchToG0
    <3>18. \A h \in G : (h \in deadq' \/ status'[h] = "free" =>
        (h \in deadq \/ status[h] = "free"))
      BY <1>ParkSwitch, <1>inv, <2>1, <2>2, <3>2, <3>3, <3>1
         DEF ParkSwitch, SwitchToG0, BaseTypeOK, Statuses
    <3>19. DeadNotFree'
      BY <1>ParkSwitch, <1>inv, <2>1, <2>2, <3>2, <3>3, <3>1, <3>18
         DEF DeadNotFree, Inv2, ParkSwitch, SwitchToG0, BaseTypeOK
    <3>20. \A h \in G : GoneAt(h)'
      BY <1>inv, <2>1, <2>2, <3>2, <3>3, <3>6, <3>8, <3>18, <3>1, SplitInv2
         DEF GoneAt, LoosenessKept
    <3> QED
      BY <1>inv, <3>6, <3>8, <3>13, <3>17, <3>19, <3>20, Keep
  <2>3. CASE parking[reg[m]["curg"]] # 1
    <3>1. UNCHANGED <<reg, tgt, seen, cand, ret, parking, lockedm, runq, allg,
                      deadq, allm, waitq, sleepers, nsleep, schedLock, togo,
                      found, proc>>
      BY <1>ParkSwitch, <1>inv, <2>1, <2>3
         DEF ParkSwitch, SwitchToG0, threads, frames, gs, lists, waits, scan
    <3>2. SingleOwner' /\ \A h \in G : LoosenessKept(h)
      BY <1>inv, <3>1, OwnerSame DEF Inv2
    <3>3. \A p \in M, h \in G : Waking(p, h)' => Waking(p, h)
      BY <1>ParkSwitch, <1>inv, <2>1, <2>3, <3>1, Consts
         DEF Waking, ReadyPCs, Goto, At, BaseTypeOK, ParkSwitch, SwitchToG0
    <3>4. OneWaker' /\ \A h \in G : CanBeWoken(h)' => CanBeWoken(h)
      BY <1>inv, <3>3, <3>1, WakeFrame DEF Inv2
    <3>5. PICK x \in G : x = reg[m]["curg"]
      BY <2>1
    <3>6. ~CanBeWoken(x)
      BY <1>ParkSwitch, <1>inv, <2>1, <2>3, <3>5, SplitInv2, RegNames, Consts
         DEF Parked, Loose, Held, Inv2, SingleOwner, OneRegister
    <3>7. \A h \in G, n \in M : h # x =>
          /\ pc[n] = "park" /\ reg[n]["curg"] = h =>
              pc'[n] = "park" /\ reg'[n]["curg"] = h
          /\ reg[n]["park_g"] = h => reg'[n]["park_g"] = h
      BY <1>ParkSwitch, <1>inv, <2>1, <2>3, <3>5, <3>6, <3>1, RegNames
         DEF Goto, At, BaseTypeOK, ParkSwitch, SwitchToG0
    <3>8. \A h \in G : CanBeWoken(h)' => Parked(h)' \/ Kept(h)
      BY <2>1, <2>3, <3>5, <3>6, <3>2, <3>4, <3>7, <3>1 DEF Kept
    <3>9. SeenAt(m)'
      BY <1>ParkSwitch, <1>inv, <2>1, <2>3, <3>5, <3>6, <3>1, Consts
         DEF SeenAt, At, Goto, BaseTypeOK, ParkSwitch, SwitchToG0
    <3>10. \A n \in M : pc[n] \in {"cas2", "store"} =>
        tgt[n] \in G /\ CanBeWoken(tgt[n])
      BY <1>inv, Pointers DEF CanBeWoken, Waking, ReadyPCs
    <3>11. \A n \in M : SeenAt(n)' \/ SeenKept(n)
      BY <1>ParkSwitch, <1>inv, <2>1, <2>3, <3>5, <3>6, <3>1, <3>9, <3>10
         DEF SeenAt, SeenKept, At, Goto, BaseTypeOK, ParkSwitch, SwitchToG0
    <3>12. \A h \in G : (h \in deadq' \/ status'[h] = "free" =>
        (h \in deadq \/ status[h] = "free"))
      BY <1>ParkSwitch, <1>inv, <2>1, <2>3, <3>5, <3>6, <3>1
         DEF ParkSwitch, SwitchToG0, BaseTypeOK, Statuses
    <3>13. DeadNotFree'
      BY <1>ParkSwitch, <1>inv, <2>1, <2>3, <3>5, <3>6, <3>1, <3>12
         DEF DeadNotFree, Inv2, ParkSwitch, SwitchToG0, BaseTypeOK
    <3>14. \A h \in G : GoneAt(h)'
      BY <1>inv, <2>1, <2>3, <3>5, <3>6, <3>2, <3>4, <3>12, <3>1, SplitInv2
         DEF GoneAt, LoosenessKept
    <3> QED
      BY <1>inv, <3>2, <3>4, <3>8, <3>11, <3>13, <3>14, Keep
  <2> QED
    BY <2>2, <2>3
<1>LockOSThread. ASSUME NEW m \in M, LockOSThread(m) PROVE Inv2'
  <2>1. reg[m]["curg"] \in G
    BY <1>LockOSThread, <1>inv, Pointers DEF LockOSThread, At
  <2>2. UNCHANGED <<pc, reg, tgt, seen, cand, ret, status, parking, runq, allg,
                    deadq, allm, waitq, sleepers, nsleep, schedLock, togo,
                    found, proc>>
    BY <1>LockOSThread, <1>inv, <2>1
       DEF LockOSThread, threads, frames, gs, lists, waits, scan
  <2>3. SingleOwner' /\ \A h \in G : LoosenessKept(h)
    BY <1>inv, <2>2, OwnerSame DEF Inv2
  <2>4. \A p \in M, h \in G : Waking(p, h)' => Waking(p, h)
    BY <1>LockOSThread, <1>inv, <2>1, <2>2, Consts
       DEF Waking, ReadyPCs, Goto, At, BaseTypeOK, LockOSThread
  <2>5. OneWaker' /\ \A h \in G : CanBeWoken(h)' => CanBeWoken(h)
    BY <1>inv, <2>4, <2>2, WakeFrame DEF Inv2
  <2>6. \A n \in M :
        /\ pc[n] = "park" => pc'[n] = "park" /\ reg'[n]["curg"] = reg[n]["curg"]
        /\ reg'[n]["park_g"] = reg[n]["park_g"]
    BY <1>LockOSThread, <1>inv, <2>1, <2>2, RegNames
       DEF Goto, At, BaseTypeOK, LockOSThread
  <2>7. \A h \in G : CanBeWoken(h)' => Parked(h)' \/ Kept(h)
    BY <2>1, <2>3, <2>5, <2>6, <2>2 DEF Kept
  <2>8. \A n \in M : pc[n] \in {"cas2", "store"} =>
      tgt[n] \in G /\ CanBeWoken(tgt[n])
    BY <1>inv, Pointers DEF CanBeWoken, Waking, ReadyPCs
  <2>9. \A n \in M : SeenAt(n)' \/ SeenKept(n)
    BY <1>LockOSThread, <1>inv, <2>1, <2>2, <2>8
       DEF SeenAt, SeenKept, At, Goto, BaseTypeOK, LockOSThread
  <2>10. \A h \in G : (h \in deadq' \/ status'[h] = "free" =>
      (h \in deadq \/ status[h] = "free"))
    BY <1>LockOSThread, <1>inv, <2>1, <2>2
       DEF LockOSThread, BaseTypeOK, Statuses
  <2>11. DeadNotFree'
    BY <1>LockOSThread, <1>inv, <2>1, <2>2, <2>10
       DEF DeadNotFree, Inv2, LockOSThread, BaseTypeOK
  <2>12. \A h \in G : GoneAt(h)'
    BY <1>inv, <2>1, <2>3, <2>5, <2>10, <2>2, SplitInv2
       DEF GoneAt, LoosenessKept
  <2> QED
    BY <1>inv, <2>3, <2>5, <2>7, <2>9, <2>11, <2>12, Keep
<1>UnlockOSThread. ASSUME NEW m \in M, UnlockOSThread(m) PROVE Inv2'
  <2>1. reg[m]["curg"] \in G
    BY <1>UnlockOSThread, <1>inv, Pointers DEF UnlockOSThread, At
  <2>2. UNCHANGED <<pc, reg, tgt, seen, cand, ret, status, parking, runq, allg,
                    deadq, allm, waitq, sleepers, nsleep, schedLock, togo,
                    found, proc>>
    BY <1>UnlockOSThread, <1>inv, <2>1
       DEF UnlockOSThread, threads, frames, gs, lists, waits, scan
  <2>3. SingleOwner' /\ \A h \in G : LoosenessKept(h)
    BY <1>inv, <2>2, OwnerSame DEF Inv2
  <2>4. \A p \in M, h \in G : Waking(p, h)' => Waking(p, h)
    BY <1>UnlockOSThread, <1>inv, <2>1, <2>2, Consts
       DEF Waking, ReadyPCs, Goto, At, BaseTypeOK, UnlockOSThread
  <2>5. OneWaker' /\ \A h \in G : CanBeWoken(h)' => CanBeWoken(h)
    BY <1>inv, <2>4, <2>2, WakeFrame DEF Inv2
  <2>6. \A n \in M :
        /\ pc[n] = "park" => pc'[n] = "park" /\ reg'[n]["curg"] = reg[n]["curg"]
        /\ reg'[n]["park_g"] = reg[n]["park_g"]
    BY <1>UnlockOSThread, <1>inv, <2>1, <2>2, RegNames
       DEF Goto, At, BaseTypeOK, UnlockOSThread
  <2>7. \A h \in G : CanBeWoken(h)' => Parked(h)' \/ Kept(h)
    BY <2>1, <2>3, <2>5, <2>6, <2>2 DEF Kept
  <2>8. \A n \in M : pc[n] \in {"cas2", "store"} =>
      tgt[n] \in G /\ CanBeWoken(tgt[n])
    BY <1>inv, Pointers DEF CanBeWoken, Waking, ReadyPCs
  <2>9. \A n \in M : SeenAt(n)' \/ SeenKept(n)
    BY <1>UnlockOSThread, <1>inv, <2>1, <2>2, <2>8
       DEF SeenAt, SeenKept, At, Goto, BaseTypeOK, UnlockOSThread
  <2>10. \A h \in G : (h \in deadq' \/ status'[h] = "free" =>
      (h \in deadq \/ status[h] = "free"))
    BY <1>UnlockOSThread, <1>inv, <2>1, <2>2
       DEF UnlockOSThread, BaseTypeOK, Statuses
  <2>11. DeadNotFree'
    BY <1>UnlockOSThread, <1>inv, <2>1, <2>2, <2>10
       DEF DeadNotFree, Inv2, UnlockOSThread, BaseTypeOK
  <2>12. \A h \in G : GoneAt(h)'
    BY <1>inv, <2>1, <2>3, <2>5, <2>10, <2>2, SplitInv2
       DEF GoneAt, LoosenessKept
  <2> QED
    BY <1>inv, <2>3, <2>5, <2>7, <2>9, <2>11, <2>12, Keep
<1>Goexit. ASSUME NEW m \in M, Goexit(m) PROVE Inv2'
  <2>1. reg[m]["curg"] \in G
    BY <1>Goexit, <1>inv, Pointers DEF Goexit, At
  <2>2. UNCHANGED <<tgt, seen, cand, ret, parking, lockedm, runq, allg, deadq,
                    allm, waitq, sleepers, nsleep, schedLock, togo, found,
                    proc>>
    BY <1>Goexit, <1>inv, <2>1
       DEF Goexit, SwitchToG0, threads, frames, gs, lists, waits, scan
  <2>3. reg' = Move(m, "curg", m, "deadg")
    BY <1>Goexit, <1>inv, <2>1 DEF Goexit, SwitchToG0
  <2>4. ShiftRegs(m, "curg", "deadg")
    BY <1>inv, <2>1, <2>3, ShiftShape, RegNames
  <2>5. SingleOwner' /\ \A h \in G : LoosenessKept(h)
    BY <1>inv, <2>1, <2>4, <2>2, OwnerShift, RegNames, Consts DEF Inv2
  <2>6. \A p \in M, h \in G : Waking(p, h)' => Waking(p, h)
    BY <1>Goexit, <1>inv, <2>1, <2>2, Consts
       DEF Waking, ReadyPCs, Goto, At, BaseTypeOK, Goexit, SwitchToG0
  <2>7. OneWaker' /\ \A h \in G : CanBeWoken(h)' => CanBeWoken(h)
    BY <1>inv, <2>6, <2>2, WakeFrame DEF Inv2
  <2>8. \A n \in M :
        /\ pc[n] = "park" => pc'[n] = "park" /\ reg'[n]["curg"] = reg[n]["curg"]
        /\ reg'[n]["park_g"] = reg[n]["park_g"]
    BY <1>Goexit, <1>inv, <2>1, <2>2, <2>4, RegNames
       DEF Goto, At, BaseTypeOK, Goexit, SwitchToG0, ShiftRegs
  <2>9. \A h \in G : CanBeWoken(h)' => Parked(h)' \/ Kept(h)
    BY <2>1, <2>5, <2>7, <2>8, <2>2 DEF Kept
  <2>10. SeenAt(m)'
    BY <1>Goexit, <1>inv, <2>1, <2>2, Consts
       DEF SeenAt, At, Goto, BaseTypeOK, Goexit, SwitchToG0
  <2>11. \A n \in M : pc[n] \in {"cas2", "store"} =>
      tgt[n] \in G /\ CanBeWoken(tgt[n])
    BY <1>inv, Pointers DEF CanBeWoken, Waking, ReadyPCs
  <2>12. \A n \in M : SeenAt(n)' \/ SeenKept(n)
    BY <1>Goexit, <1>inv, <2>1, <2>2, <2>10, <2>11
       DEF SeenAt, SeenKept, At, Goto, BaseTypeOK, Goexit, SwitchToG0
  <2>13. \A h \in G : (h \in deadq' \/ status'[h] = "free" =>
      (h \in deadq \/ status[h] = "free"))
    BY <1>Goexit, <1>inv, <2>1, <2>2
       DEF Goexit, SwitchToG0, BaseTypeOK, Statuses
  <2>14. DeadNotFree'
    BY <1>Goexit, <1>inv, <2>1, <2>2, <2>13
       DEF DeadNotFree, Inv2, Goexit, SwitchToG0, BaseTypeOK
  <2>15. \A h \in G : GoneAt(h)'
    BY <1>inv, <2>1, <2>5, <2>7, <2>13, <2>2, SplitInv2
       DEF GoneAt, LoosenessKept
  <2> QED
    BY <1>inv, <2>5, <2>7, <2>9, <2>12, <2>14, <2>15, Keep
<1>MainReturn. ASSUME NEW m \in M, MainReturn(m) PROVE Inv2'
  <2>1. UNCHANGED <<pc, reg, tgt, seen, cand, ret, status, parking, lockedm,
                    runq, allg, deadq, allm, waitq, sleepers, nsleep, schedLock,
                    togo, found>>
    BY <1>MainReturn, <1>inv
       DEF MainReturn, threads, frames, gs, lists, waits, scan
  <2>2. SingleOwner' /\ \A h \in G : LoosenessKept(h)
    BY <1>inv, <2>1, OwnerSame DEF Inv2
  <2>3. \A p \in M, h \in G : Waking(p, h)' => Waking(p, h)
    BY <1>MainReturn, <1>inv, <2>1, Consts
       DEF Waking, ReadyPCs, Goto, At, BaseTypeOK, MainReturn
  <2>4. OneWaker' /\ \A h \in G : CanBeWoken(h)' => CanBeWoken(h)
    BY <1>inv, <2>3, <2>1, WakeFrame DEF Inv2
  <2>5. \A n \in M :
        /\ pc[n] = "park" => pc'[n] = "park" /\ reg'[n]["curg"] = reg[n]["curg"]
        /\ reg'[n]["park_g"] = reg[n]["park_g"]
    BY <1>MainReturn, <1>inv, <2>1, RegNames
       DEF Goto, At, BaseTypeOK, MainReturn
  <2>6. \A h \in G : CanBeWoken(h)' => Parked(h)' \/ Kept(h)
    BY <2>2, <2>4, <2>5, <2>1 DEF Kept
  <2>7. \A n \in M : pc[n] \in {"cas2", "store"} =>
      tgt[n] \in G /\ CanBeWoken(tgt[n])
    BY <1>inv, Pointers DEF CanBeWoken, Waking, ReadyPCs
  <2>8. \A n \in M : SeenAt(n)' \/ SeenKept(n)
    BY <1>MainReturn, <1>inv, <2>1, <2>7
       DEF SeenAt, SeenKept, At, Goto, BaseTypeOK, MainReturn
  <2>9. \A h \in G : (h \in deadq' \/ status'[h] = "free" =>
      (h \in deadq \/ status[h] = "free"))
    BY <1>MainReturn, <1>inv, <2>1 DEF MainReturn, BaseTypeOK, Statuses
  <2>10. DeadNotFree'
    BY <1>MainReturn, <1>inv, <2>1, <2>9
       DEF DeadNotFree, Inv2, MainReturn, BaseTypeOK
  <2>11. \A h \in G : GoneAt(h)'
    BY <1>inv, <2>2, <2>4, <2>9, <2>1, SplitInv2 DEF GoneAt, LoosenessKept
  <2> QED
    BY <1>inv, <2>2, <2>4, <2>6, <2>8, <2>10, <2>11, Keep
<1>ExitThread. ASSUME NEW m \in M, ExitThread(m) PROVE Inv2'
  <2>1. CASE m = M0
    <3>1. UNCHANGED <<pc, reg, tgt, seen, cand, ret, status, parking, lockedm,
                      runq, allg, deadq, allm, waitq, sleepers, nsleep,
                      schedLock, togo, found>>
      BY <1>ExitThread, <1>inv, <2>1
         DEF ExitThread, threads, frames, gs, lists, waits, scan
    <3>2. SingleOwner' /\ \A h \in G : LoosenessKept(h)
      BY <1>inv, <3>1, OwnerSame DEF Inv2
    <3>3. \A p \in M, h \in G : Waking(p, h)' => Waking(p, h)
      BY <1>ExitThread, <1>inv, <2>1, <3>1, Consts
         DEF Waking, ReadyPCs, Goto, At, BaseTypeOK, ExitThread
    <3>4. OneWaker' /\ \A h \in G : CanBeWoken(h)' => CanBeWoken(h)
      BY <1>inv, <3>3, <3>1, WakeFrame DEF Inv2
    <3>5. \A n \in M :
          /\ pc[n] = "park" =>
               pc'[n] = "park" /\ reg'[n]["curg"] = reg[n]["curg"]
          /\ reg'[n]["park_g"] = reg[n]["park_g"]
      BY <1>ExitThread, <1>inv, <2>1, <3>1, RegNames
         DEF Goto, At, BaseTypeOK, ExitThread
    <3>6. \A h \in G : CanBeWoken(h)' => Parked(h)' \/ Kept(h)
      BY <2>1, <3>2, <3>4, <3>5, <3>1 DEF Kept
    <3>7. \A n \in M : pc[n] \in {"cas2", "store"} =>
        tgt[n] \in G /\ CanBeWoken(tgt[n])
      BY <1>inv, Pointers DEF CanBeWoken, Waking, ReadyPCs
    <3>8. \A n \in M : SeenAt(n)' \/ SeenKept(n)
      BY <1>ExitThread, <1>inv, <2>1, <3>1, <3>7
         DEF SeenAt, SeenKept, At, Goto, BaseTypeOK, ExitThread
    <3>9. \A h \in G : (h \in deadq' \/ status'[h] = "free" =>
        (h \in deadq \/ status[h] = "free"))
      BY <1>ExitThread, <1>inv, <2>1, <3>1 DEF ExitThread, BaseTypeOK, Statuses
    <3>10. DeadNotFree'
      BY <1>ExitThread, <1>inv, <2>1, <3>1, <3>9
         DEF DeadNotFree, Inv2, ExitThread, BaseTypeOK
    <3>11. \A h \in G : GoneAt(h)'
      BY <1>inv, <2>1, <3>2, <3>4, <3>9, <3>1, SplitInv2
         DEF GoneAt, LoosenessKept
    <3> QED
      BY <1>inv, <3>2, <3>4, <3>6, <3>8, <3>10, <3>11, Keep
  <2>2. CASE m # M0
    <3>1. UNCHANGED <<reg, tgt, seen, cand, ret, status, parking, lockedm, runq,
                      allg, deadq, waitq, sleepers, nsleep, schedLock, togo,
                      found, proc>>
      BY <1>ExitThread, <1>inv, <2>2
         DEF ExitThread, threads, frames, gs, lists, waits, scan
    <3>2. SingleOwner' /\ \A h \in G : LoosenessKept(h)
      BY <1>inv, <3>1, OwnerSame DEF Inv2
    <3>3. \A p \in M, h \in G : Waking(p, h)' => Waking(p, h)
      BY <1>ExitThread, <1>inv, <2>2, <3>1, Consts
         DEF Waking, ReadyPCs, Goto, At, BaseTypeOK, ExitThread
    <3>4. OneWaker' /\ \A h \in G : CanBeWoken(h)' => CanBeWoken(h)
      BY <1>inv, <3>3, <3>1, WakeFrame DEF Inv2
    <3>5. \A n \in M :
          /\ pc[n] = "park" =>
               pc'[n] = "park" /\ reg'[n]["curg"] = reg[n]["curg"]
          /\ reg'[n]["park_g"] = reg[n]["park_g"]
      BY <1>ExitThread, <1>inv, <2>2, <3>1, RegNames
         DEF Goto, At, BaseTypeOK, ExitThread
    <3>6. \A h \in G : CanBeWoken(h)' => Parked(h)' \/ Kept(h)
      BY <2>2, <3>2, <3>4, <3>5, <3>1 DEF Kept
    <3>7. SeenAt(m)'
      BY <1>ExitThread, <1>inv, <2>2, <3>1, Consts
         DEF SeenAt, At, Goto, BaseTypeOK, ExitThread
    <3>8. \A n \in M : pc[n] \in {"cas2", "store"} =>
        tgt[n] \in G /\ CanBeWoken(tgt[n])
      BY <1>inv, Pointers DEF CanBeWoken, Waking, ReadyPCs
    <3>9. \A n \in M : SeenAt(n)' \/ SeenKept(n)
      BY <1>ExitThread, <1>inv, <2>2, <3>1, <3>7, <3>8
         DEF SeenAt, SeenKept, At, Goto, BaseTypeOK, ExitThread
    <3>10. \A h \in G : (h \in deadq' \/ status'[h] = "free" =>
        (h \in deadq \/ status[h] = "free"))
      BY <1>ExitThread, <1>inv, <2>2, <3>1 DEF ExitThread, BaseTypeOK, Statuses
    <3>11. DeadNotFree'
      BY <1>ExitThread, <1>inv, <2>2, <3>1, <3>10
         DEF DeadNotFree, Inv2, ExitThread, BaseTypeOK
    <3>12. \A h \in G : GoneAt(h)'
      BY <1>inv, <2>2, <3>2, <3>4, <3>10, <3>1, SplitInv2
         DEF GoneAt, LoosenessKept
    <3> QED
      BY <1>inv, <3>2, <3>4, <3>6, <3>9, <3>11, <3>12, Keep
  <2> QED
    BY <2>1, <2>2
<1>MPublish. ASSUME NEW m \in M, MPublish(m) PROVE Inv2'
  <2>1. UNCHANGED <<reg, tgt, seen, cand, ret, status, parking, lockedm, runq,
                    allg, deadq, waitq, sleepers, nsleep, schedLock, togo,
                    found, proc>>
    BY <1>MPublish, <1>inv DEF MPublish, threads, frames, gs, lists, waits, scan
  <2>2. SingleOwner' /\ \A h \in G : LoosenessKept(h)
    BY <1>inv, <2>1, OwnerSame DEF Inv2
  <2>3. \A p \in M, h \in G : Waking(p, h)' => Waking(p, h)
    BY <1>MPublish, <1>inv, <2>1, Consts
       DEF Waking, ReadyPCs, Goto, At, BaseTypeOK, MPublish
  <2>4. OneWaker' /\ \A h \in G : CanBeWoken(h)' => CanBeWoken(h)
    BY <1>inv, <2>3, <2>1, WakeFrame DEF Inv2
  <2>5. \A n \in M :
        /\ pc[n] = "park" => pc'[n] = "park" /\ reg'[n]["curg"] = reg[n]["curg"]
        /\ reg'[n]["park_g"] = reg[n]["park_g"]
    BY <1>MPublish, <1>inv, <2>1, RegNames DEF Goto, At, BaseTypeOK, MPublish
  <2>6. \A h \in G : CanBeWoken(h)' => Parked(h)' \/ Kept(h)
    BY <2>2, <2>4, <2>5, <2>1 DEF Kept
  <2>7. SeenAt(m)'
    BY <1>MPublish, <1>inv, <2>1, Consts
       DEF SeenAt, At, Goto, BaseTypeOK, MPublish
  <2>8. \A n \in M : pc[n] \in {"cas2", "store"} =>
      tgt[n] \in G /\ CanBeWoken(tgt[n])
    BY <1>inv, Pointers DEF CanBeWoken, Waking, ReadyPCs
  <2>9. \A n \in M : SeenAt(n)' \/ SeenKept(n)
    BY <1>MPublish, <1>inv, <2>1, <2>7, <2>8
       DEF SeenAt, SeenKept, At, Goto, BaseTypeOK, MPublish
  <2>10. \A h \in G : (h \in deadq' \/ status'[h] = "free" =>
      (h \in deadq \/ status[h] = "free"))
    BY <1>MPublish, <1>inv, <2>1 DEF MPublish, BaseTypeOK, Statuses
  <2>11. DeadNotFree'
    BY <1>MPublish, <1>inv, <2>1, <2>10
       DEF DeadNotFree, Inv2, MPublish, BaseTypeOK
  <2>12. \A h \in G : GoneAt(h)'
    BY <1>inv, <2>2, <2>4, <2>10, <2>1, SplitInv2 DEF GoneAt, LoosenessKept
  <2> QED
    BY <1>inv, <2>2, <2>4, <2>6, <2>9, <2>11, <2>12, Keep
<1>MFirst. ASSUME NEW m \in M, MFirst(m) PROVE Inv2'
  <2>1. CASE reg[m]["start"] # None
    <3>1. UNCHANGED <<tgt, seen, cand, ret, runq, allg, deadq, allm, waitq,
                      sleepers, nsleep, schedLock, togo, found, proc>>
      BY <1>MFirst, <1>inv, <2>1
         DEF MFirst, threads, frames, gs, lists, waits, scan
    <3>2. reg[m]["start"] \in G
      BY <1>inv, <2>1, RegNames DEF BaseTypeOK
    <3>3. PICK x \in G : x = reg[m]["start"]
      BY <3>2
    <3>4. ~CanBeWoken(x)
      BY <1>MFirst, <1>inv, <2>1, <3>2, <3>3, HeldNotWoken, RegNames
    <3>5. reg' = Move(m, "start", m, "nextg")
      BY <1>MFirst, <1>inv, <2>1, <3>2, <3>3, <3>4 DEF MFirst
    <3>6. ShiftRegs(m, "start", "nextg")
      BY <1>inv, <3>5, ShiftShape, RegNames
    <3>7. SingleOwner' /\ \A h \in G : LoosenessKept(h)
      BY <1>inv, <2>1, <3>2, <3>3, <3>4, <3>6, <3>1, OwnerShift, RegNames,
         Consts
         DEF Inv2
    <3>8. \A p \in M, h \in G : Waking(p, h)' => Waking(p, h)
      BY <1>MFirst, <1>inv, <2>1, <3>2, <3>3, <3>4, <3>1, Consts
         DEF Waking, ReadyPCs, Goto, At, BaseTypeOK, MFirst
    <3>9. OneWaker' /\ \A h \in G : CanBeWoken(h)' => CanBeWoken(h)
      BY <1>inv, <3>8, <3>1, WakeFrame DEF Inv2
    <3>10. \A n \in M :
          /\ pc[n] = "park" =>
               pc'[n] = "park" /\ reg'[n]["curg"] = reg[n]["curg"]
          /\ reg'[n]["park_g"] = reg[n]["park_g"]
      BY <1>MFirst, <1>inv, <2>1, <3>2, <3>3, <3>4, <3>1, <3>6, RegNames
         DEF Goto, At, BaseTypeOK, MFirst, ShiftRegs
    <3>11. \A h \in G : h # x => parking'[h] = parking[h]
      BY <1>MFirst, <1>inv, <2>1, <3>2, <3>3, <3>4 DEF BaseTypeOK, MFirst
    <3>12. \A h \in G : CanBeWoken(h)' => Parked(h)' \/ Kept(h)
      BY <2>1, <3>2, <3>3, <3>4, <3>7, <3>9, <3>10, <3>11, <3>1 DEF Kept
    <3>13. SeenAt(m)'
      BY <1>MFirst, <1>inv, <2>1, <3>2, <3>3, <3>4, <3>1, Consts
         DEF SeenAt, At, Goto, BaseTypeOK, MFirst
    <3>14. \A n \in M : pc[n] \in {"cas2", "store"} =>
        tgt[n] \in G /\ CanBeWoken(tgt[n])
      BY <1>inv, Pointers DEF CanBeWoken, Waking, ReadyPCs
    <3>15. \A n \in M : SeenAt(n)' \/ SeenKept(n)
      BY <1>MFirst, <1>inv, <2>1, <3>2, <3>3, <3>4, <3>1, <3>13, <3>14, <3>11
         DEF SeenAt, SeenKept, At, Goto, BaseTypeOK, MFirst
    <3>16. \A h \in G : (h \in deadq' \/ status'[h] = "free" =>
        (h \in deadq \/ status[h] = "free"))
      BY <1>MFirst, <1>inv, <2>1, <3>2, <3>3, <3>4, <3>1
         DEF MFirst, BaseTypeOK, Statuses
    <3>17. DeadNotFree'
      BY <1>MFirst, <1>inv, <2>1, <3>2, <3>3, <3>4, <3>1, <3>16
         DEF DeadNotFree, Inv2, MFirst, BaseTypeOK
    <3>18. \A h \in G : GoneAt(h)'
      BY <1>inv, <2>1, <3>2, <3>3, <3>4, <3>7, <3>9, <3>16, <3>1, SplitInv2
         DEF GoneAt, LoosenessKept
    <3> QED
      BY <1>inv, <3>7, <3>9, <3>12, <3>15, <3>17, <3>18, Keep
  <2>2. CASE reg[m]["start"] = None
    <3>1. UNCHANGED <<reg, tgt, seen, cand, ret, status, parking, lockedm, runq,
                      allg, deadq, allm, waitq, sleepers, nsleep, schedLock,
                      togo, found, proc>>
      BY <1>MFirst, <1>inv, <2>2
         DEF MFirst, threads, frames, gs, lists, waits, scan
    <3>2. SingleOwner' /\ \A h \in G : LoosenessKept(h)
      BY <1>inv, <3>1, OwnerSame DEF Inv2
    <3>3. \A p \in M, h \in G : Waking(p, h)' => Waking(p, h)
      BY <1>MFirst, <1>inv, <2>2, <3>1, Consts
         DEF Waking, ReadyPCs, Goto, At, BaseTypeOK, MFirst
    <3>4. OneWaker' /\ \A h \in G : CanBeWoken(h)' => CanBeWoken(h)
      BY <1>inv, <3>3, <3>1, WakeFrame DEF Inv2
    <3>5. \A n \in M :
          /\ pc[n] = "park" =>
               pc'[n] = "park" /\ reg'[n]["curg"] = reg[n]["curg"]
          /\ reg'[n]["park_g"] = reg[n]["park_g"]
      BY <1>MFirst, <1>inv, <2>2, <3>1, RegNames
         DEF Goto, At, BaseTypeOK, MFirst
    <3>6. \A h \in G : CanBeWoken(h)' => Parked(h)' \/ Kept(h)
      BY <2>2, <3>2, <3>4, <3>5, <3>1 DEF Kept
    <3>7. SeenAt(m)'
      BY <1>MFirst, <1>inv, <2>2, <3>1, Consts
         DEF SeenAt, At, Goto, BaseTypeOK, MFirst
    <3>8. \A n \in M : pc[n] \in {"cas2", "store"} =>
        tgt[n] \in G /\ CanBeWoken(tgt[n])
      BY <1>inv, Pointers DEF CanBeWoken, Waking, ReadyPCs
    <3>9. \A n \in M : SeenAt(n)' \/ SeenKept(n)
      BY <1>MFirst, <1>inv, <2>2, <3>1, <3>7, <3>8
         DEF SeenAt, SeenKept, At, Goto, BaseTypeOK, MFirst
    <3>10. \A h \in G : (h \in deadq' \/ status'[h] = "free" =>
        (h \in deadq \/ status[h] = "free"))
      BY <1>MFirst, <1>inv, <2>2, <3>1 DEF MFirst, BaseTypeOK, Statuses
    <3>11. DeadNotFree'
      BY <1>MFirst, <1>inv, <2>2, <3>1, <3>10
         DEF DeadNotFree, Inv2, MFirst, BaseTypeOK
    <3>12. \A h \in G : GoneAt(h)'
      BY <1>inv, <2>2, <3>2, <3>4, <3>10, <3>1, SplitInv2
         DEF GoneAt, LoosenessKept
    <3> QED
      BY <1>inv, <3>2, <3>4, <3>6, <3>9, <3>11, <3>12, Keep
  <2> QED
    BY <2>1, <2>2
<1>stutter. ASSUME UNCHANGED vars PROVE Inv2'
  BY <1>inv, <1>stutter
     DEF vars, threads, frames, gs, lists, waits, scan, Inv2, SingleOwner,
         OneRegister, HeldNotQueued, QueuedOnce, ParkHandshake, OneWaker,
         SeenIsSafe, GoneForGood, DeadNotFree, Held, Queued, CanBeWoken, Waking
<1> QED
  BY <1>ReadyLoad, <1>ReadyCancel, <1>ReadyMark, <1>ReadyPend, <1>ReadyParked,
     <1>EnqueueFind, <1>EnqueueHand, <1>EnqueuePush, <1>SchedReap,
     <1>SchedRequeue, <1>SchedTake, <1>SchedCommit, <1>SchedWake, <1>PollDue,
     <1>PollDrop, <1>PollDone, <1>SchedRun, <1>FreeDead, <1>Dequeue,
     <1>DequeueNone, <1>ScanBegin, <1>ScanRead, <1>ScanEnd, <1>Go,
     <1>StartLocked, <1>Wake, <1>SpawnThread, <1>SpawnWorker, <1>SpawnFail,
     <1>Gosched, <1>ParkRegister, <1>Sleep, <1>ParkSwitch, <1>LockOSThread,
     <1>UnlockOSThread, <1>Goexit, <1>MainReturn, <1>ExitThread, <1>MPublish,
     <1>MFirst, <1>stutter
     DEF Next, Step, Ready, Enqueue, Schedule, Goroutine, Ended

-----------------------------------------------------------------------------
\* Layer 3

\* No locked goroutine moves: nothing to show but the threads at "hand".
LEMMA SameHome ==
    ASSUME LockedInPlace, UNCHANGED <<reg, lockedm>>,
           \A q \in M : pc'[q] = "hand" => pc[q] = "hand"
    PROVE  LockedInPlace'
BY DEF LockedInPlace

\* Every step keeps the locked goroutines on their threads.
LEMMA LockedStep == Inv1 /\ Inv2 /\ LockedInPlace /\ [Next]_vars =>
  LockedInPlace'
<1> SUFFICES ASSUME Inv1, Inv2, LockedInPlace, [Next]_vars PROVE LockedInPlace'
  OBVIOUS
<1>inv. BaseTypeOK /\ Inv1 /\ Inv2 /\ LockedInPlace
  BY DEF Inv1
<1>ReadyLoad. ASSUME NEW m \in M, ReadyLoad(m) PROVE LockedInPlace'
  <2>1. tgt[m] \in G
    BY <1>ReadyLoad, <1>inv, Pointers DEF ReadyLoad, At
  <2>2. CASE status[tgt[m]] = "dead"
    <3>1. UNCHANGED <<reg, lockedm>>
      BY <1>ReadyLoad, <1>inv, <2>1, <2>2
         DEF ReadyLoad, Return, threads, frames, gs, lists, waits, scan
    <3>2. \A q \in M : pc'[q] = "hand" => pc[q] = "hand"
      BY <1>ReadyLoad, <1>inv, <2>1, <2>2
         DEF At, Goto, BaseTypeOK, ReadyLoad, Return, CallPCs, EnqPCs, ReadyPCs
    <3> QED
      BY <1>inv, <3>1, <3>2, SameHome
  <2>3. CASE status[tgt[m]] # "dead"
    <3>1. UNCHANGED <<reg, lockedm>>
      BY <1>ReadyLoad, <1>inv, <2>1, <2>3
         DEF ReadyLoad, Return, threads, frames, gs, lists, waits, scan
    <3>2. \A q \in M : pc'[q] = "hand" => pc[q] = "hand"
      BY <1>ReadyLoad, <1>inv, <2>1, <2>3
         DEF At, Goto, BaseTypeOK, ReadyLoad, Return, CallPCs, EnqPCs, ReadyPCs
    <3> QED
      BY <1>inv, <3>1, <3>2, SameHome
  <2> QED
    BY <2>2, <2>3
<1>ReadyCancel. ASSUME NEW m \in M, ReadyCancel(m) PROVE LockedInPlace'
  <2>1. tgt[m] \in G
    BY <1>ReadyCancel, <1>inv, Pointers DEF ReadyCancel, At
  <2>2. CASE parking[tgt[m]] = 1
    <3>1. UNCHANGED <<reg, lockedm>>
      BY <1>ReadyCancel, <1>inv, <2>1, <2>2
         DEF ReadyCancel, threads, frames, gs, lists, waits, scan
    <3>2. \A q \in M : pc'[q] = "hand" => pc[q] = "hand"
      BY <1>ReadyCancel, <1>inv, <2>1, <2>2
         DEF At, Goto, BaseTypeOK, ReadyCancel
    <3> QED
      BY <1>inv, <3>1, <3>2, SameHome
  <2>3. CASE parking[tgt[m]] # 1
    <3>1. UNCHANGED <<reg, lockedm>>
      BY <1>ReadyCancel, <1>inv, <2>1, <2>3
         DEF ReadyCancel, threads, frames, gs, lists, waits, scan
    <3>2. \A q \in M : pc'[q] = "hand" => pc[q] = "hand"
      BY <1>ReadyCancel, <1>inv, <2>1, <2>3
         DEF At, Goto, BaseTypeOK, ReadyCancel
    <3> QED
      BY <1>inv, <3>1, <3>2, SameHome
  <2> QED
    BY <2>2, <2>3
<1>ReadyMark. ASSUME NEW m \in M, ReadyMark(m) PROVE LockedInPlace'
  <2>1. tgt[m] \in G
    BY <1>ReadyMark, <1>inv, Pointers DEF ReadyMark, At
  <2>2. UNCHANGED <<reg, lockedm>>
    BY <1>ReadyMark, <1>inv, <2>1
       DEF ReadyMark, Return, threads, frames, gs, lists, waits, scan
  <2>3. \A q \in M : pc'[q] = "hand" => pc[q] = "hand"
    BY <1>ReadyMark, <1>inv, <2>1
       DEF At, Goto, BaseTypeOK, ReadyMark, Return, CallPCs, EnqPCs, ReadyPCs
  <2> QED
    BY <1>inv, <2>2, <2>3, SameHome
<1>ReadyPend. ASSUME NEW m \in M, ReadyPend(m) PROVE LockedInPlace'
  <2>1. tgt[m] \in G
    BY <1>ReadyPend, <1>inv, Pointers DEF ReadyPend, At
  <2>2. CASE seen[m] = 2 /\ parking[tgt[m]] = 2
    <3>1. UNCHANGED <<reg, lockedm>>
      BY <1>ReadyPend, <1>inv, <2>1, <2>2
         DEF ReadyPend, Return, threads, frames, gs, lists, waits, scan
    <3>2. \A q \in M : pc'[q] = "hand" => pc[q] = "hand"
      BY <1>ReadyPend, <1>inv, <2>1, <2>2
         DEF At, Goto, BaseTypeOK, ReadyPend, Return, CallPCs, EnqPCs, ReadyPCs
    <3> QED
      BY <1>inv, <3>1, <3>2, SameHome
  <2>3. CASE (~(seen[m] = 2 /\ parking[tgt[m]] = 2)) /\ (IF seen[m] =
      2 THEN parking[tgt[m]] ELSE seen[m]) = 3
    <3>1. UNCHANGED <<reg, lockedm>>
      BY <1>ReadyPend, <1>inv, <2>1, <2>3
         DEF ReadyPend, Return, threads, frames, gs, lists, waits, scan
    <3>2. \A q \in M : pc'[q] = "hand" => pc[q] = "hand"
      BY <1>ReadyPend, <1>inv, <2>1, <2>3
         DEF At, Goto, BaseTypeOK, ReadyPend, Return, CallPCs, EnqPCs, ReadyPCs
    <3> QED
      BY <1>inv, <3>1, <3>2, SameHome
  <2>4. CASE (~(seen[m] = 2 /\ parking[tgt[m]] = 2)) /\ (IF seen[m] =
      2 THEN parking[tgt[m]] ELSE seen[m]) # 3
    <3>1. UNCHANGED <<reg, lockedm>>
      BY <1>ReadyPend, <1>inv, <2>1, <2>4
         DEF ReadyPend, Return, threads, frames, gs, lists, waits, scan
    <3>2. \A q \in M : pc'[q] = "hand" => pc[q] = "hand"
      BY <1>ReadyPend, <1>inv, <2>1, <2>4
         DEF At, Goto, BaseTypeOK, ReadyPend, Return, CallPCs, EnqPCs, ReadyPCs
    <3> QED
      BY <1>inv, <3>1, <3>2, SameHome
  <2> QED
    BY <2>2, <2>3, <2>4
<1>ReadyParked. ASSUME NEW m \in M, ReadyParked(m) PROVE LockedInPlace'
  <2>1. tgt[m] \in G
    BY <1>ReadyParked, <1>inv, Pointers DEF ReadyParked, At
  <2>2. CASE status[tgt[m]] = "waiting"
    <3>1. UNCHANGED <<lockedm>>
      BY <1>ReadyParked, <1>inv, <2>1, <2>2
         DEF ReadyParked, Return, threads, frames, gs, lists, waits, scan
    <3>2. reg' = Put(m, "enq", tgt[m])
      BY <1>ReadyParked, <1>inv, <2>1, <2>2 DEF ReadyParked, Return
    <3>3. PutRegs(m, "enq", tgt[m])
      BY <1>inv, <2>1, <2>2, <3>2, PutShape, RegNames
    <3>4. \A q \in M : reg'[q]["curg"] # None =>
        lockedm'[reg'[q]["curg"]] \in {None, q}
      BY <1>inv, <2>1, <2>2, <3>1, <3>3, RegNames, Consts
         DEF LockedInPlace, PutRegs
    <3>5. \A q \in M : reg'[q]["next"] # None =>
        lockedm'[reg'[q]["next"]] \in {None, q}
      BY <1>inv, <2>1, <2>2, <3>1, <3>3, RegNames, Consts
         DEF LockedInPlace, PutRegs
    <3>6. \A q \in M : reg'[q]["nextg"] # None =>
        lockedm'[reg'[q]["nextg"]] \in {None, q}
      BY <1>inv, <2>1, <2>2, <3>1, <3>3, RegNames, Consts
         DEF LockedInPlace, PutRegs
    <3>7. \A q \in M : pc'[q] = "hand" => pc[q] = "hand" /\ q # m
      BY <1>ReadyParked, <1>inv, <2>1, <2>2
         DEF At, Goto, BaseTypeOK, ReadyParked, Return
    <3>8. \A q \in M : pc'[q] = "hand" => lockedm'[reg'[q]["enq"]] = None
      BY <1>inv, <2>1, <2>2, <3>7, <3>1, <3>3, RegNames, Consts
         DEF LockedInPlace, PutRegs
    <3> QED
      BY <3>4, <3>5, <3>6, <3>8 DEF LockedInPlace
  <2>3. CASE status[tgt[m]] # "waiting"
    <3>1. UNCHANGED <<reg, lockedm>>
      BY <1>ReadyParked, <1>inv, <2>1, <2>3
         DEF ReadyParked, Return, threads, frames, gs, lists, waits, scan
    <3>2. \A q \in M : pc'[q] = "hand" => pc[q] = "hand"
      BY <1>ReadyParked, <1>inv, <2>1, <2>3
         DEF At, Goto, BaseTypeOK, ReadyParked, Return, CallPCs, EnqPCs,
             ReadyPCs
    <3> QED
      BY <1>inv, <3>1, <3>2, SameHome
  <2> QED
    BY <2>2, <2>3
<1>EnqueueFind. ASSUME NEW m \in M, EnqueueFind(m) PROVE LockedInPlace'
  <2>1. reg[m]["enq"] \in G
    BY <1>EnqueueFind, <1>inv, Pointers DEF EnqueueFind, At
  <2>2. CASE lockedm[reg[m]["enq"]] = None /\ Idle(m) # {}
    <3>1. UNCHANGED <<reg, lockedm>>
      BY <1>EnqueueFind, <1>inv, <2>1, <2>2
         DEF EnqueueFind, threads, frames, gs, lists, waits, scan
    <3>2. \A q \in M : reg'[q]["curg"] # None =>
        lockedm'[reg'[q]["curg"]] \in {None, q}
      BY <1>inv, <2>1, <2>2, <3>1, RegNames, Consts DEF LockedInPlace
    <3>3. \A q \in M : reg'[q]["next"] # None =>
        lockedm'[reg'[q]["next"]] \in {None, q}
      BY <1>inv, <2>1, <2>2, <3>1, RegNames, Consts DEF LockedInPlace
    <3>4. \A q \in M : reg'[q]["nextg"] # None =>
        lockedm'[reg'[q]["nextg"]] \in {None, q}
      BY <1>inv, <2>1, <2>2, <3>1, RegNames, Consts DEF LockedInPlace
    <3>5. \A q \in M : pc'[q] = "hand" => lockedm'[reg'[q]["enq"]] = None
      BY <1>EnqueueFind, <1>inv, <2>1, <2>2, <3>1, RegNames, Consts
         DEF LockedInPlace, BaseTypeOK, At, Goto, EnqueueFind
    <3> QED
      BY <3>2, <3>3, <3>4, <3>5 DEF LockedInPlace
  <2>3. CASE ~(lockedm[reg[m]["enq"]] = None /\ Idle(m) # {})
    <3>1. UNCHANGED <<reg, lockedm>>
      BY <1>EnqueueFind, <1>inv, <2>1, <2>3
         DEF EnqueueFind, threads, frames, gs, lists, waits, scan
    <3>2. \A q \in M : pc'[q] = "hand" => pc[q] = "hand"
      BY <1>EnqueueFind, <1>inv, <2>1, <2>3
         DEF At, Goto, BaseTypeOK, EnqueueFind
    <3> QED
      BY <1>inv, <3>1, <3>2, SameHome
  <2> QED
    BY <2>2, <2>3
<1>EnqueueHand. ASSUME NEW m \in M, EnqueueHand(m) PROVE LockedInPlace'
  <2>1. reg[m]["enq"] \in G /\ cand[m] \in M
    BY <1>EnqueueHand, <1>inv, Pointers DEF EnqueueHand, At
  <2>2. CASE reg[cand[m]]["nextg"] = None
    <3>1. UNCHANGED <<lockedm>>
      BY <1>EnqueueHand, <1>inv, <2>1, <2>2
         DEF EnqueueHand, Return, threads, frames, gs, lists, waits, scan
    <3>2. reg' = Move(m, "enq", cand[m], "nextg")
      BY <1>EnqueueHand, <1>inv, <2>1, <2>2 DEF EnqueueHand, Return
    <3>3. HandRegs(m, "enq", cand[m], "nextg")
      BY <1>inv, <2>1, <2>2, <3>2, HandShape, RegNames
    <3>4. lockedm[reg[m]["enq"]] = None
      BY <1>EnqueueHand, <1>inv, <2>1, <2>2 DEF EnqueueHand, At, LockedInPlace
    <3>5. \A q \in M, s \in Registers : reg[q][s] # None => reg[q][s] \in G
      BY <1>inv DEF BaseTypeOK
    <3>6. \A q \in M : reg'[q]["curg"] # None =>
        lockedm'[reg'[q]["curg"]] \in {None, q}
      BY <1>inv, <2>1, <2>2, <3>1, <3>3, <3>4, <3>5, RegNames, Consts
         DEF LockedInPlace, HandRegs
    <3>7. \A q \in M : reg'[q]["next"] # None =>
        lockedm'[reg'[q]["next"]] \in {None, q}
      BY <1>inv, <2>1, <2>2, <3>1, <3>3, <3>4, <3>5, RegNames, Consts
         DEF LockedInPlace, HandRegs
    <3>8. \A q \in M : reg'[q]["nextg"] # None =>
        lockedm'[reg'[q]["nextg"]] \in {None, q}
      BY <1>inv, <2>1, <2>2, <3>1, <3>3, <3>4, <3>5, RegNames, Consts
         DEF LockedInPlace, HandRegs
    <3>9. \A q \in M : pc'[q] = "hand" => pc[q] = "hand" /\ q # m
      BY <1>EnqueueHand, <1>inv, <2>1, <2>2
         DEF At, Goto, BaseTypeOK, EnqueueHand, Return
    <3>10. \A q \in M : pc'[q] = "hand" => lockedm'[reg'[q]["enq"]] = None
      BY <1>inv, <2>1, <2>2, <3>9, <3>1, <3>4, <3>5, <3>3, RegNames, Consts
         DEF LockedInPlace, HandRegs
    <3> QED
      BY <3>6, <3>7, <3>8, <3>10 DEF LockedInPlace
  <2>3. CASE reg[cand[m]]["nextg"] # None
    <3>1. UNCHANGED <<reg, lockedm>>
      BY <1>EnqueueHand, <1>inv, <2>1, <2>3
         DEF EnqueueHand, Return, threads, frames, gs, lists, waits, scan
    <3>2. \A q \in M : pc'[q] = "hand" => pc[q] = "hand"
      BY <1>EnqueueHand, <1>inv, <2>1, <2>3
         DEF At, Goto, BaseTypeOK, EnqueueHand, Return, CallPCs, EnqPCs,
             ReadyPCs
    <3> QED
      BY <1>inv, <3>1, <3>2, SameHome
  <2> QED
    BY <2>2, <2>3
<1>EnqueuePush. ASSUME NEW m \in M, EnqueuePush(m) PROVE LockedInPlace'
  <2>1. reg[m]["enq"] \in G
    BY <1>EnqueuePush, <1>inv, Pointers DEF EnqueuePush, At
  <2>2. UNCHANGED <<lockedm>>
    BY <1>EnqueuePush, <1>inv, <2>1
       DEF EnqueuePush, Return, threads, frames, gs, lists, waits, scan
  <2>3. reg' = Put(m, "enq", None)
    BY <1>EnqueuePush, <1>inv, <2>1 DEF EnqueuePush, Return
  <2>4. PutRegs(m, "enq", None)
    BY <1>inv, <2>1, <2>3, PutShape, RegNames
  <2>5. \A q \in M : reg'[q]["curg"] # None =>
      lockedm'[reg'[q]["curg"]] \in {None, q}
    BY <1>inv, <2>1, <2>2, <2>4, RegNames, Consts DEF LockedInPlace, PutRegs
  <2>6. \A q \in M : reg'[q]["next"] # None =>
      lockedm'[reg'[q]["next"]] \in {None, q}
    BY <1>inv, <2>1, <2>2, <2>4, RegNames, Consts DEF LockedInPlace, PutRegs
  <2>7. \A q \in M : reg'[q]["nextg"] # None =>
      lockedm'[reg'[q]["nextg"]] \in {None, q}
    BY <1>inv, <2>1, <2>2, <2>4, RegNames, Consts DEF LockedInPlace, PutRegs
  <2>8. \A q \in M : pc'[q] = "hand" => pc[q] = "hand" /\ q # m
    BY <1>EnqueuePush, <1>inv, <2>1
       DEF At, Goto, BaseTypeOK, EnqueuePush, Return
  <2>9. \A q \in M : pc'[q] = "hand" => lockedm'[reg'[q]["enq"]] = None
    BY <1>inv, <2>1, <2>8, <2>2, <2>4, RegNames, Consts
       DEF LockedInPlace, PutRegs
  <2> QED
    BY <2>5, <2>6, <2>7, <2>9 DEF LockedInPlace
<1>SchedReap. ASSUME NEW m \in M, SchedReap(m) PROVE LockedInPlace'
  <2>1. UNCHANGED <<pc, lockedm>>
    BY <1>SchedReap, <1>inv
       DEF SchedReap, threads, frames, gs, lists, waits, scan
  <2>2. reg' = Put(m, "deadg", None)
    BY <1>SchedReap, <1>inv DEF SchedReap
  <2>3. PutRegs(m, "deadg", None)
    BY <1>inv, <2>2, PutShape, RegNames
  <2>4. \A q \in M : reg'[q]["curg"] # None =>
      lockedm'[reg'[q]["curg"]] \in {None, q}
    BY <1>inv, <2>1, <2>3, RegNames, Consts DEF LockedInPlace, PutRegs
  <2>5. \A q \in M : reg'[q]["next"] # None =>
      lockedm'[reg'[q]["next"]] \in {None, q}
    BY <1>inv, <2>1, <2>3, RegNames, Consts DEF LockedInPlace, PutRegs
  <2>6. \A q \in M : reg'[q]["nextg"] # None =>
      lockedm'[reg'[q]["nextg"]] \in {None, q}
    BY <1>inv, <2>1, <2>3, RegNames, Consts DEF LockedInPlace, PutRegs
  <2>7. \A q \in M : pc'[q] = "hand" => pc[q] = "hand" /\ q # m
    BY <1>SchedReap, <1>inv, <2>1 DEF At, SchedReap
  <2>8. \A q \in M : pc'[q] = "hand" => lockedm'[reg'[q]["enq"]] = None
    BY <1>inv, <2>7, <2>1, <2>3, RegNames, Consts DEF LockedInPlace, PutRegs
  <2> QED
    BY <2>4, <2>5, <2>6, <2>8 DEF LockedInPlace
<1>SchedRequeue. ASSUME NEW m \in M, SchedRequeue(m) PROVE LockedInPlace'
  <2>1. CASE reg[m]["enqg"] # None
    <3>1. UNCHANGED <<lockedm>>
      BY <1>SchedRequeue, <1>inv, <2>1
         DEF SchedRequeue, CallEnqueue, threads, frames, gs, lists, waits, scan
    <3>2. reg' = Move(m, "enqg", m, "enq")
      BY <1>SchedRequeue, <1>inv, <2>1 DEF SchedRequeue, CallEnqueue
    <3>3. ShiftRegs(m, "enqg", "enq")
      BY <1>inv, <2>1, <3>2, ShiftShape, RegNames
    <3>4. \A q \in M : reg'[q]["curg"] # None =>
        lockedm'[reg'[q]["curg"]] \in {None, q}
      BY <1>inv, <2>1, <3>1, <3>3, RegNames, Consts DEF LockedInPlace, ShiftRegs
    <3>5. \A q \in M : reg'[q]["next"] # None =>
        lockedm'[reg'[q]["next"]] \in {None, q}
      BY <1>inv, <2>1, <3>1, <3>3, RegNames, Consts DEF LockedInPlace, ShiftRegs
    <3>6. \A q \in M : reg'[q]["nextg"] # None =>
        lockedm'[reg'[q]["nextg"]] \in {None, q}
      BY <1>inv, <2>1, <3>1, <3>3, RegNames, Consts DEF LockedInPlace, ShiftRegs
    <3>7. \A q \in M : pc'[q] = "hand" => pc[q] = "hand" /\ q # m
      BY <1>SchedRequeue, <1>inv, <2>1
         DEF At, Goto, BaseTypeOK, SchedRequeue, CallEnqueue
    <3>8. \A q \in M : pc'[q] = "hand" => lockedm'[reg'[q]["enq"]] = None
      BY <1>inv, <2>1, <3>7, <3>1, <3>3, RegNames, Consts
         DEF LockedInPlace, ShiftRegs
    <3> QED
      BY <3>4, <3>5, <3>6, <3>8 DEF LockedInPlace
  <2>2. CASE reg[m]["enqg"] = None
    <3>1. UNCHANGED <<reg, lockedm>>
      BY <1>SchedRequeue, <1>inv, <2>2
         DEF SchedRequeue, CallEnqueue, threads, frames, gs, lists, waits, scan
    <3>2. \A q \in M : pc'[q] = "hand" => pc[q] = "hand"
      BY <1>SchedRequeue, <1>inv, <2>2
         DEF At, Goto, BaseTypeOK, SchedRequeue, CallEnqueue
    <3> QED
      BY <1>inv, <3>1, <3>2, SameHome
  <2> QED
    BY <2>1, <2>2
<1>SchedTake. ASSUME NEW m \in M, SchedTake(m) PROVE LockedInPlace'
  <2>1. UNCHANGED <<lockedm>>
    BY <1>SchedTake, <1>inv
       DEF SchedTake, threads, frames, gs, lists, waits, scan
  <2>2. reg' = Move(m, "nextg", m, "next")
    BY <1>SchedTake, <1>inv DEF SchedTake
  <2>3. ShiftRegs(m, "nextg", "next")
    BY <1>inv, <2>2, ShiftShape, RegNames
  <2>4. \A q \in M : reg'[q]["curg"] # None =>
      lockedm'[reg'[q]["curg"]] \in {None, q}
    BY <1>inv, <2>1, <2>3, RegNames, Consts DEF LockedInPlace, ShiftRegs
  <2>5. \A q \in M : reg'[q]["next"] # None =>
      lockedm'[reg'[q]["next"]] \in {None, q}
    BY <1>inv, <2>1, <2>3, RegNames, Consts DEF LockedInPlace, ShiftRegs
  <2>6. \A q \in M : reg'[q]["nextg"] # None =>
      lockedm'[reg'[q]["nextg"]] \in {None, q}
    BY <1>inv, <2>1, <2>3, RegNames, Consts DEF LockedInPlace, ShiftRegs
  <2>7. \A q \in M : pc'[q] = "hand" => pc[q] = "hand" /\ q # m
    BY <1>SchedTake, <1>inv DEF At, Goto, BaseTypeOK, SchedTake
  <2>8. \A q \in M : pc'[q] = "hand" => lockedm'[reg'[q]["enq"]] = None
    BY <1>inv, <2>7, <2>1, <2>3, RegNames, Consts DEF LockedInPlace, ShiftRegs
  <2> QED
    BY <2>4, <2>5, <2>6, <2>8 DEF LockedInPlace
<1>SchedCommit. ASSUME NEW m \in M, SchedCommit(m) PROVE LockedInPlace'
  <2>1. reg[m]["park_g"] \in G
    BY <1>SchedCommit, <1>inv, Pointers DEF SchedCommit, At
  <2>2. CASE parking[reg[m]["park_g"]] = 3
    <3>1. UNCHANGED <<lockedm>>
      BY <1>SchedCommit, <1>inv, <2>1, <2>2
         DEF SchedCommit, threads, frames, gs, lists, waits, scan
    <3>2. reg' = Move(m, "park_g", m, "enq")
      BY <1>SchedCommit, <1>inv, <2>1, <2>2 DEF SchedCommit
    <3>3. ShiftRegs(m, "park_g", "enq")
      BY <1>inv, <2>1, <2>2, <3>2, ShiftShape, RegNames
    <3>4. \A q \in M : reg'[q]["curg"] # None =>
        lockedm'[reg'[q]["curg"]] \in {None, q}
      BY <1>inv, <2>1, <2>2, <3>1, <3>3, RegNames, Consts
         DEF LockedInPlace, ShiftRegs
    <3>5. \A q \in M : reg'[q]["next"] # None =>
        lockedm'[reg'[q]["next"]] \in {None, q}
      BY <1>inv, <2>1, <2>2, <3>1, <3>3, RegNames, Consts
         DEF LockedInPlace, ShiftRegs
    <3>6. \A q \in M : reg'[q]["nextg"] # None =>
        lockedm'[reg'[q]["nextg"]] \in {None, q}
      BY <1>inv, <2>1, <2>2, <3>1, <3>3, RegNames, Consts
         DEF LockedInPlace, ShiftRegs
    <3>7. \A q \in M : pc'[q] = "hand" => pc[q] = "hand" /\ q # m
      BY <1>SchedCommit, <1>inv, <2>1, <2>2
         DEF At, Goto, BaseTypeOK, SchedCommit
    <3>8. \A q \in M : pc'[q] = "hand" => lockedm'[reg'[q]["enq"]] = None
      BY <1>inv, <2>1, <2>2, <3>7, <3>1, <3>3, RegNames, Consts
         DEF LockedInPlace, ShiftRegs
    <3> QED
      BY <3>4, <3>5, <3>6, <3>8 DEF LockedInPlace
  <2>3. CASE parking[reg[m]["park_g"]] # 3
    <3>1. UNCHANGED <<lockedm>>
      BY <1>SchedCommit, <1>inv, <2>1, <2>3
         DEF SchedCommit, threads, frames, gs, lists, waits, scan
    <3>2. reg' = Put(m, "park_g", None)
      BY <1>SchedCommit, <1>inv, <2>1, <2>3 DEF SchedCommit
    <3>3. PutRegs(m, "park_g", None)
      BY <1>inv, <2>1, <2>3, <3>2, PutShape, RegNames
    <3>4. \A q \in M : reg'[q]["curg"] # None =>
        lockedm'[reg'[q]["curg"]] \in {None, q}
      BY <1>inv, <2>1, <2>3, <3>1, <3>3, RegNames, Consts
         DEF LockedInPlace, PutRegs
    <3>5. \A q \in M : reg'[q]["next"] # None =>
        lockedm'[reg'[q]["next"]] \in {None, q}
      BY <1>inv, <2>1, <2>3, <3>1, <3>3, RegNames, Consts
         DEF LockedInPlace, PutRegs
    <3>6. \A q \in M : reg'[q]["nextg"] # None =>
        lockedm'[reg'[q]["nextg"]] \in {None, q}
      BY <1>inv, <2>1, <2>3, <3>1, <3>3, RegNames, Consts
         DEF LockedInPlace, PutRegs
    <3>7. \A q \in M : pc'[q] = "hand" => pc[q] = "hand" /\ q # m
      BY <1>SchedCommit, <1>inv, <2>1, <2>3
         DEF At, Goto, BaseTypeOK, SchedCommit
    <3>8. \A q \in M : pc'[q] = "hand" => lockedm'[reg'[q]["enq"]] = None
      BY <1>inv, <2>1, <2>3, <3>7, <3>1, <3>3, RegNames, Consts
         DEF LockedInPlace, PutRegs
    <3> QED
      BY <3>4, <3>5, <3>6, <3>8 DEF LockedInPlace
  <2> QED
    BY <2>2, <2>3
<1>SchedWake. ASSUME NEW m \in M, SchedWake(m) PROVE LockedInPlace'
  <2>1. reg[m]["enq"] \in G
    BY <1>SchedWake, <1>inv, Pointers DEF SchedWake, At
  <2>2. CASE status[reg[m]["enq"]] = "waiting"
    <3>1. UNCHANGED <<reg, lockedm>>
      BY <1>SchedWake, <1>inv, <2>1, <2>2
         DEF SchedWake, CallEnqueue, threads, frames, gs, lists, waits, scan
    <3>2. \A q \in M : pc'[q] = "hand" => pc[q] = "hand"
      BY <1>SchedWake, <1>inv, <2>1, <2>2
         DEF At, Goto, BaseTypeOK, SchedWake, CallEnqueue
    <3> QED
      BY <1>inv, <3>1, <3>2, SameHome
  <2>3. CASE status[reg[m]["enq"]] # "waiting"
    <3>1. UNCHANGED <<lockedm>>
      BY <1>SchedWake, <1>inv, <2>1, <2>3
         DEF SchedWake, CallEnqueue, threads, frames, gs, lists, waits, scan
    <3>2. reg' = Put(m, "enq", None)
      BY <1>SchedWake, <1>inv, <2>1, <2>3 DEF SchedWake, CallEnqueue
    <3>3. PutRegs(m, "enq", None)
      BY <1>inv, <2>1, <2>3, <3>2, PutShape, RegNames
    <3>4. \A q \in M : reg'[q]["curg"] # None =>
        lockedm'[reg'[q]["curg"]] \in {None, q}
      BY <1>inv, <2>1, <2>3, <3>1, <3>3, RegNames, Consts
         DEF LockedInPlace, PutRegs
    <3>5. \A q \in M : reg'[q]["next"] # None =>
        lockedm'[reg'[q]["next"]] \in {None, q}
      BY <1>inv, <2>1, <2>3, <3>1, <3>3, RegNames, Consts
         DEF LockedInPlace, PutRegs
    <3>6. \A q \in M : reg'[q]["nextg"] # None =>
        lockedm'[reg'[q]["nextg"]] \in {None, q}
      BY <1>inv, <2>1, <2>3, <3>1, <3>3, RegNames, Consts
         DEF LockedInPlace, PutRegs
    <3>7. \A q \in M : pc'[q] = "hand" => pc[q] = "hand" /\ q # m
      BY <1>SchedWake, <1>inv, <2>1, <2>3
         DEF At, Goto, BaseTypeOK, SchedWake, CallEnqueue
    <3>8. \A q \in M : pc'[q] = "hand" => lockedm'[reg'[q]["enq"]] = None
      BY <1>inv, <2>1, <2>3, <3>7, <3>1, <3>3, RegNames, Consts
         DEF LockedInPlace, PutRegs
    <3> QED
      BY <3>4, <3>5, <3>6, <3>8 DEF LockedInPlace
  <2> QED
    BY <2>2, <2>3
<1>PollDue. ASSUME NEW m \in M, NEW g \in G, PollDue(m, g) PROVE LockedInPlace'
  <2>1. UNCHANGED <<reg, lockedm>>
    BY <1>PollDue, <1>inv
       DEF PollDue, CallReady, threads, frames, gs, lists, waits, scan
  <2>2. \A q \in M : pc'[q] = "hand" => pc[q] = "hand"
    BY <1>PollDue, <1>inv DEF At, Goto, BaseTypeOK, PollDue, CallReady
  <2> QED
    BY <1>inv, <2>1, <2>2, SameHome
<1>PollDrop. ASSUME NEW m \in M, PollDrop(m) PROVE LockedInPlace'
  <2>1. UNCHANGED <<reg, lockedm>>
    BY <1>PollDrop, <1>inv DEF PollDrop, threads, frames, gs, lists, waits, scan
  <2>2. \A q \in M : pc'[q] = "hand" => pc[q] = "hand"
    BY <1>PollDrop, <1>inv DEF At, Goto, BaseTypeOK, PollDrop
  <2> QED
    BY <1>inv, <2>1, <2>2, SameHome
<1>PollDone. ASSUME NEW m \in M, PollDone(m) PROVE LockedInPlace'
  <2>1. UNCHANGED <<reg, lockedm>>
    BY <1>PollDone, <1>inv DEF PollDone, threads, frames, gs, lists, waits, scan
  <2>2. \A q \in M : pc'[q] = "hand" => pc[q] = "hand"
    BY <1>PollDone, <1>inv DEF At, Goto, BaseTypeOK, PollDone
  <2> QED
    BY <1>inv, <2>1, <2>2, SameHome
<1>SchedRun. ASSUME NEW m \in M, SchedRun(m) PROVE LockedInPlace'
  <2>1. reg[m]["next"] \in G
    BY <1>SchedRun, <1>inv, Pointers DEF SchedRun, At
  <2>2. UNCHANGED <<lockedm>>
    BY <1>SchedRun, <1>inv, <2>1
       DEF SchedRun, threads, frames, gs, lists, waits, scan
  <2>3. reg' = Move(m, "next", m, "curg")
    BY <1>SchedRun, <1>inv, <2>1 DEF SchedRun
  <2>4. ShiftRegs(m, "next", "curg")
    BY <1>inv, <2>1, <2>3, ShiftShape, RegNames
  <2>5. \A q \in M : reg'[q]["curg"] # None =>
      lockedm'[reg'[q]["curg"]] \in {None, q}
    BY <1>inv, <2>1, <2>2, <2>4, RegNames, Consts DEF LockedInPlace, ShiftRegs
  <2>6. \A q \in M : reg'[q]["next"] # None =>
      lockedm'[reg'[q]["next"]] \in {None, q}
    BY <1>inv, <2>1, <2>2, <2>4, RegNames, Consts DEF LockedInPlace, ShiftRegs
  <2>7. \A q \in M : reg'[q]["nextg"] # None =>
      lockedm'[reg'[q]["nextg"]] \in {None, q}
    BY <1>inv, <2>1, <2>2, <2>4, RegNames, Consts DEF LockedInPlace, ShiftRegs
  <2>8. \A q \in M : pc'[q] = "hand" => pc[q] = "hand" /\ q # m
    BY <1>SchedRun, <1>inv, <2>1 DEF At, Goto, BaseTypeOK, SchedRun
  <2>9. \A q \in M : pc'[q] = "hand" => lockedm'[reg'[q]["enq"]] = None
    BY <1>inv, <2>1, <2>8, <2>2, <2>4, RegNames, Consts
       DEF LockedInPlace, ShiftRegs
  <2> QED
    BY <2>5, <2>6, <2>7, <2>9 DEF LockedInPlace
<1>FreeDead. ASSUME NEW m \in M, FreeDead(m) PROVE LockedInPlace'
  <2>1. UNCHANGED <<pc, reg>>
    BY <1>FreeDead, <1>inv DEF FreeDead, threads, frames, gs, lists, waits, scan
  <2>2. \A h \in G : lockedm'[h] = lockedm[h] \/ lockedm'[h] = None
    BY <1>FreeDead, <1>inv DEF FreeDead, BaseTypeOK
  <2>3. \A q \in M, s \in Registers : reg[q][s] # None => reg[q][s] \in G
    BY <1>inv DEF BaseTypeOK
  <2>4. \A q \in M : reg'[q]["curg"] # None =>
      lockedm'[reg'[q]["curg"]] \in {None, q}
    BY <1>inv, <2>1, <2>2, <2>3, RegNames, Consts DEF LockedInPlace
  <2>5. \A q \in M : reg'[q]["next"] # None =>
      lockedm'[reg'[q]["next"]] \in {None, q}
    BY <1>inv, <2>1, <2>2, <2>3, RegNames, Consts DEF LockedInPlace
  <2>6. \A q \in M : reg'[q]["nextg"] # None =>
      lockedm'[reg'[q]["nextg"]] \in {None, q}
    BY <1>inv, <2>1, <2>2, <2>3, RegNames, Consts DEF LockedInPlace
  <2>7. \A q \in M : pc'[q] = "hand" => lockedm'[reg'[q]["enq"]] = None
    BY <1>FreeDead, <1>inv, <2>1, <2>2, <2>3, RegNames, Consts
       DEF LockedInPlace, BaseTypeOK, At, Goto, FreeDead
  <2> QED
    BY <2>4, <2>5, <2>6, <2>7 DEF LockedInPlace
<1>Dequeue. ASSUME NEW m \in M, Dequeue(m) PROVE LockedInPlace'
  <2>1. PICK i \in DOMAIN runq : reg' = Put(m, "next", runq[i]) /\ runq' =
      Unlink(runq, i) /\ lockedm[runq[i]] \in {None, m}
    BY <1>Dequeue DEF Dequeue, Eligible
  <2>2. runq \in Seq(G) /\ runq[i] \in G
    BY <1>inv, SeqTypes DEF BaseTypeOK
  <2>3. UNCHANGED <<lockedm>>
    BY <1>Dequeue, <1>inv, <2>1, <2>2
       DEF Dequeue, threads, frames, gs, lists, waits, scan
  <2>4. reg' = Put(m, "next", runq[i])
    BY <1>Dequeue, <1>inv, <2>1, <2>2 DEF Dequeue
  <2>5. PutRegs(m, "next", runq[i])
    BY <1>inv, <2>1, <2>2, <2>4, PutShape, RegNames
  <2>6. \A q \in M : reg'[q]["curg"] # None =>
      lockedm'[reg'[q]["curg"]] \in {None, q}
    BY <1>inv, <2>1, <2>2, <2>3, <2>5, RegNames, Consts
       DEF LockedInPlace, PutRegs
  <2>7. \A q \in M : reg'[q]["next"] # None =>
      lockedm'[reg'[q]["next"]] \in {None, q}
    BY <1>inv, <2>1, <2>2, <2>3, <2>5, RegNames, Consts
       DEF LockedInPlace, PutRegs
  <2>8. \A q \in M : reg'[q]["nextg"] # None =>
      lockedm'[reg'[q]["nextg"]] \in {None, q}
    BY <1>inv, <2>1, <2>2, <2>3, <2>5, RegNames, Consts
       DEF LockedInPlace, PutRegs
  <2>9. \A q \in M : pc'[q] = "hand" => pc[q] = "hand" /\ q # m
    BY <1>Dequeue, <1>inv, <2>1, <2>2 DEF At, Goto, BaseTypeOK, Dequeue
  <2>10. \A q \in M : pc'[q] = "hand" => lockedm'[reg'[q]["enq"]] = None
    BY <1>inv, <2>1, <2>2, <2>9, <2>3, <2>5, RegNames, Consts
       DEF LockedInPlace, PutRegs
  <2> QED
    BY <2>6, <2>7, <2>8, <2>10 DEF LockedInPlace
<1>DequeueNone. ASSUME NEW m \in M, DequeueNone(m) PROVE LockedInPlace'
  <2>1. UNCHANGED <<reg, lockedm>>
    BY <1>DequeueNone, <1>inv
       DEF DequeueNone, threads, frames, gs, lists, waits, scan
  <2>2. \A q \in M : pc'[q] = "hand" => pc[q] = "hand"
    BY <1>DequeueNone, <1>inv DEF At, Goto, BaseTypeOK, DequeueNone
  <2> QED
    BY <1>inv, <2>1, <2>2, SameHome
<1>ScanBegin. ASSUME ScanBegin PROVE LockedInPlace'
  <2>1. UNCHANGED <<reg, lockedm>>
    BY <1>ScanBegin, <1>inv
       DEF ScanBegin, threads, frames, gs, lists, waits, scan
  <2>2. \A q \in M : pc'[q] = "hand" => pc[q] = "hand"
    BY <1>ScanBegin, <1>inv DEF At, Goto, BaseTypeOK, ScanBegin
  <2> QED
    BY <1>inv, <2>1, <2>2, SameHome
<1>ScanRead. ASSUME ScanRead PROVE LockedInPlace'
  <2>1. UNCHANGED <<pc, reg, lockedm>>
    BY <1>ScanRead, <1>inv DEF ScanRead, threads, frames, gs, lists, waits, scan
  <2> QED
    BY <1>inv, <2>1 DEF LockedInPlace
<1>ScanEnd. ASSUME ScanEnd PROVE LockedInPlace'
  <2>1. UNCHANGED <<reg, lockedm>>
    BY <1>ScanEnd, <1>inv DEF ScanEnd, threads, frames, gs, lists, waits, scan
  <2>2. \A q \in M : pc'[q] = "hand" => pc[q] = "hand"
    BY <1>ScanEnd, <1>inv DEF At, Goto, BaseTypeOK, ScanEnd
  <2> QED
    BY <1>inv, <2>1, <2>2, SameHome
<1>Go. ASSUME NEW m \in M, NEW g \in G, Go(m, g) PROVE LockedInPlace'
  <2>1. UNCHANGED <<lockedm>>
    BY <1>Go, <1>inv DEF Go, NewG, threads, frames, gs, lists, waits, scan
  <2>2. reg' = Put(m, "enq", g)
    BY <1>Go, <1>inv DEF Go, NewG
  <2>3. PutRegs(m, "enq", g)
    BY <1>inv, <2>2, PutShape, RegNames
  <2>4. \A q \in M : reg'[q]["curg"] # None =>
      lockedm'[reg'[q]["curg"]] \in {None, q}
    BY <1>inv, <2>1, <2>3, RegNames, Consts DEF LockedInPlace, PutRegs
  <2>5. \A q \in M : reg'[q]["next"] # None =>
      lockedm'[reg'[q]["next"]] \in {None, q}
    BY <1>inv, <2>1, <2>3, RegNames, Consts DEF LockedInPlace, PutRegs
  <2>6. \A q \in M : reg'[q]["nextg"] # None =>
      lockedm'[reg'[q]["nextg"]] \in {None, q}
    BY <1>inv, <2>1, <2>3, RegNames, Consts DEF LockedInPlace, PutRegs
  <2>7. \A q \in M : pc'[q] = "hand" => pc[q] = "hand" /\ q # m
    BY <1>Go, <1>inv DEF At, Goto, BaseTypeOK, Go, NewG
  <2>8. \A q \in M : pc'[q] = "hand" => lockedm'[reg'[q]["enq"]] = None
    BY <1>inv, <2>7, <2>1, <2>3, RegNames, Consts DEF LockedInPlace, PutRegs
  <2> QED
    BY <2>4, <2>5, <2>6, <2>8 DEF LockedInPlace
<1>StartLocked. ASSUME NEW m \in M, NEW g \in G, StartLocked(m, g) PROVE
    LockedInPlace'
  <2>1. UNCHANGED <<lockedm>>
    BY <1>StartLocked, <1>inv
       DEF StartLocked, NewG, threads, frames, gs, lists, waits, scan
  <2>2. reg' = Put(m, "enq", g)
    BY <1>StartLocked, <1>inv DEF StartLocked, NewG
  <2>3. PutRegs(m, "enq", g)
    BY <1>inv, <2>2, PutShape, RegNames
  <2>4. \A q \in M : reg'[q]["curg"] # None =>
      lockedm'[reg'[q]["curg"]] \in {None, q}
    BY <1>inv, <2>1, <2>3, RegNames, Consts DEF LockedInPlace, PutRegs
  <2>5. \A q \in M : reg'[q]["next"] # None =>
      lockedm'[reg'[q]["next"]] \in {None, q}
    BY <1>inv, <2>1, <2>3, RegNames, Consts DEF LockedInPlace, PutRegs
  <2>6. \A q \in M : reg'[q]["nextg"] # None =>
      lockedm'[reg'[q]["nextg"]] \in {None, q}
    BY <1>inv, <2>1, <2>3, RegNames, Consts DEF LockedInPlace, PutRegs
  <2>7. \A q \in M : pc'[q] = "hand" => pc[q] = "hand" /\ q # m
    BY <1>StartLocked, <1>inv DEF At, Goto, BaseTypeOK, StartLocked, NewG
  <2>8. \A q \in M : pc'[q] = "hand" => lockedm'[reg'[q]["enq"]] = None
    BY <1>inv, <2>7, <2>1, <2>3, RegNames, Consts DEF LockedInPlace, PutRegs
  <2> QED
    BY <2>4, <2>5, <2>6, <2>8 DEF LockedInPlace
<1>Wake. ASSUME NEW m \in M, NEW g \in G, Wake(m, g) PROVE LockedInPlace'
  <2>1. UNCHANGED <<reg, lockedm>>
    BY <1>Wake, <1>inv
       DEF Wake, CallReady, threads, frames, gs, lists, waits, scan
  <2>2. \A q \in M : pc'[q] = "hand" => pc[q] = "hand"
    BY <1>Wake, <1>inv DEF At, Goto, BaseTypeOK, Wake, CallReady
  <2> QED
    BY <1>inv, <2>1, <2>2, SameHome
<1>SpawnThread. ASSUME NEW m \in M, NEW n \in M, SpawnThread(m, n) PROVE
    LockedInPlace'
  <2>1. reg[m]["enq"] \in G
    BY <1>SpawnThread, <1>inv, Pointers DEF SpawnThread, At
  <2>2. reg' = Move(m, "enq", n, "start")
    BY <1>SpawnThread, <1>inv, <2>1 DEF SpawnThread
  <2>3. HandRegs(m, "enq", n, "start")
    BY <1>inv, <2>1, <2>2, HandShape, RegNames
  <2>4. /\ lockedm'[reg[m]["enq"]] = n
        /\ \A h \in G : h # reg[m]["enq"] => lockedm'[h] = lockedm[h]
    BY <1>SpawnThread, <1>inv, <2>1 DEF BaseTypeOK, SpawnThread
  <2>5. \A q \in M, s \in Registers : reg[q][s] = reg[m]["enq"] =>
      q = m /\ s = "enq"
    BY <1>SpawnThread, <1>inv, <2>1, RegNames, Consts
       DEF Inv2, SingleOwner, OneRegister
  <2>6. \A q \in M, s \in Registers : reg[q][s] # None => reg[q][s] \in G
    BY <1>inv DEF BaseTypeOK
  <2>7. \A q \in M : reg'[q]["curg"] # None =>
      lockedm'[reg'[q]["curg"]] \in {None, q}
    BY <1>inv, <2>1, <2>3, <2>4, <2>5, <2>6, RegNames, Consts
       DEF LockedInPlace, HandRegs
  <2>8. \A q \in M : reg'[q]["next"] # None =>
      lockedm'[reg'[q]["next"]] \in {None, q}
    BY <1>inv, <2>1, <2>3, <2>4, <2>5, <2>6, RegNames, Consts
       DEF LockedInPlace, HandRegs
  <2>9. \A q \in M : reg'[q]["nextg"] # None =>
      lockedm'[reg'[q]["nextg"]] \in {None, q}
    BY <1>inv, <2>1, <2>3, <2>4, <2>5, <2>6, RegNames, Consts
       DEF LockedInPlace, HandRegs
  <2>10. \A q \in M : pc'[q] = "hand" => pc[q] = "hand" /\ q # m
    BY <1>SpawnThread, <1>inv, <2>1 DEF At, Goto, BaseTypeOK, SpawnThread
  <2>11. \A q \in M : pc[q] = "hand" /\ q # m =>
          /\ reg'[q]["enq"] = reg[q]["enq"]
          /\ reg[q]["enq"] \in G /\ reg[q]["enq"] # reg[m]["enq"]
    BY <1>inv, <2>1, <2>3, <2>4, <2>5, Pointers, RegNames DEF HandRegs
  <2>12. \A q \in M : pc'[q] = "hand" => lockedm'[reg'[q]["enq"]] = None
    BY <1>inv, <2>1, <2>10, <2>4, <2>5, <2>6, <2>11, RegNames, Consts
       DEF LockedInPlace, HandRegs
  <2> QED
    BY <2>7, <2>8, <2>9, <2>12 DEF LockedInPlace
<1>SpawnWorker. ASSUME NEW m \in M, NEW n \in M, SpawnWorker(m, n) PROVE
    LockedInPlace'
  <2>1. UNCHANGED <<reg, lockedm>>
    BY <1>SpawnWorker, <1>inv
       DEF SpawnWorker, threads, frames, gs, lists, waits, scan
  <2>2. \A q \in M : pc'[q] = "hand" => pc[q] = "hand"
    BY <1>SpawnWorker, <1>inv DEF At, Goto, BaseTypeOK, SpawnWorker
  <2> QED
    BY <1>inv, <2>1, <2>2, SameHome
<1>SpawnFail. ASSUME NEW m \in M, SpawnFail(m) PROVE LockedInPlace'
  <2>1. reg[m]["enq"] \in G
    BY <1>SpawnFail, <1>inv, Pointers DEF SpawnFail, At
  <2>2. UNCHANGED <<lockedm>>
    BY <1>SpawnFail, <1>inv, <2>1
       DEF SpawnFail, threads, frames, gs, lists, waits, scan
  <2>3. reg' = Put(m, "enq", None)
    BY <1>SpawnFail, <1>inv, <2>1 DEF SpawnFail
  <2>4. PutRegs(m, "enq", None)
    BY <1>inv, <2>1, <2>3, PutShape, RegNames
  <2>5. \A q \in M : reg'[q]["curg"] # None =>
      lockedm'[reg'[q]["curg"]] \in {None, q}
    BY <1>inv, <2>1, <2>2, <2>4, RegNames, Consts DEF LockedInPlace, PutRegs
  <2>6. \A q \in M : reg'[q]["next"] # None =>
      lockedm'[reg'[q]["next"]] \in {None, q}
    BY <1>inv, <2>1, <2>2, <2>4, RegNames, Consts DEF LockedInPlace, PutRegs
  <2>7. \A q \in M : reg'[q]["nextg"] # None =>
      lockedm'[reg'[q]["nextg"]] \in {None, q}
    BY <1>inv, <2>1, <2>2, <2>4, RegNames, Consts DEF LockedInPlace, PutRegs
  <2>8. \A q \in M : pc'[q] = "hand" => pc[q] = "hand" /\ q # m
    BY <1>SpawnFail, <1>inv, <2>1 DEF At, Goto, BaseTypeOK, SpawnFail
  <2>9. \A q \in M : pc'[q] = "hand" => lockedm'[reg'[q]["enq"]] = None
    BY <1>inv, <2>1, <2>8, <2>2, <2>4, RegNames, Consts
       DEF LockedInPlace, PutRegs
  <2> QED
    BY <2>5, <2>6, <2>7, <2>9 DEF LockedInPlace
<1>Gosched. ASSUME NEW m \in M, Gosched(m) PROVE LockedInPlace'
  <2>1. reg[m]["curg"] \in G
    BY <1>Gosched, <1>inv, Pointers DEF Gosched, At
  <2>2. UNCHANGED <<lockedm>>
    BY <1>Gosched, <1>inv, <2>1
       DEF Gosched, SwitchToG0, threads, frames, gs, lists, waits, scan
  <2>3. reg' = Move(m, "curg", m, "enqg")
    BY <1>Gosched, <1>inv, <2>1 DEF Gosched, SwitchToG0
  <2>4. ShiftRegs(m, "curg", "enqg")
    BY <1>inv, <2>1, <2>3, ShiftShape, RegNames
  <2>5. \A q \in M : reg'[q]["curg"] # None =>
      lockedm'[reg'[q]["curg"]] \in {None, q}
    BY <1>inv, <2>1, <2>2, <2>4, RegNames, Consts DEF LockedInPlace, ShiftRegs
  <2>6. \A q \in M : reg'[q]["next"] # None =>
      lockedm'[reg'[q]["next"]] \in {None, q}
    BY <1>inv, <2>1, <2>2, <2>4, RegNames, Consts DEF LockedInPlace, ShiftRegs
  <2>7. \A q \in M : reg'[q]["nextg"] # None =>
      lockedm'[reg'[q]["nextg"]] \in {None, q}
    BY <1>inv, <2>1, <2>2, <2>4, RegNames, Consts DEF LockedInPlace, ShiftRegs
  <2>8. \A q \in M : pc'[q] = "hand" => pc[q] = "hand" /\ q # m
    BY <1>Gosched, <1>inv, <2>1 DEF At, Goto, BaseTypeOK, Gosched, SwitchToG0
  <2>9. \A q \in M : pc'[q] = "hand" => lockedm'[reg'[q]["enq"]] = None
    BY <1>inv, <2>1, <2>8, <2>2, <2>4, RegNames, Consts
       DEF LockedInPlace, ShiftRegs
  <2> QED
    BY <2>5, <2>6, <2>7, <2>9 DEF LockedInPlace
<1>ParkRegister. ASSUME NEW m \in M, ParkRegister(m) PROVE LockedInPlace'
  <2>1. reg[m]["curg"] \in G
    BY <1>ParkRegister, <1>inv, Pointers DEF ParkRegister, At
  <2>2. UNCHANGED <<reg, lockedm>>
    BY <1>ParkRegister, <1>inv, <2>1
       DEF ParkRegister, threads, frames, gs, lists, waits, scan
  <2>3. \A q \in M : pc'[q] = "hand" => pc[q] = "hand"
    BY <1>ParkRegister, <1>inv, <2>1 DEF At, Goto, BaseTypeOK, ParkRegister
  <2> QED
    BY <1>inv, <2>2, <2>3, SameHome
<1>Sleep. ASSUME NEW m \in M, Sleep(m) PROVE LockedInPlace'
  <2>1. reg[m]["curg"] \in G
    BY <1>Sleep, <1>inv, Pointers DEF Sleep, At
  <2>2. UNCHANGED <<reg, lockedm>>
    BY <1>Sleep, <1>inv, <2>1 DEF Sleep, threads, frames, gs, lists, waits, scan
  <2>3. \A q \in M : pc'[q] = "hand" => pc[q] = "hand"
    BY <1>Sleep, <1>inv, <2>1 DEF At, Goto, BaseTypeOK, Sleep
  <2> QED
    BY <1>inv, <2>2, <2>3, SameHome
<1>ParkSwitch. ASSUME NEW m \in M, ParkSwitch(m) PROVE LockedInPlace'
  <2>1. reg[m]["curg"] \in G
    BY <1>ParkSwitch, <1>inv, Pointers DEF ParkSwitch, At
  <2>2. CASE parking[reg[m]["curg"]] = 1
    <3>1. UNCHANGED <<lockedm>>
      BY <1>ParkSwitch, <1>inv, <2>1, <2>2
         DEF ParkSwitch, SwitchToG0, threads, frames, gs, lists, waits, scan
    <3>2. reg' = Move(m, "curg", m, "park_g")
      BY <1>ParkSwitch, <1>inv, <2>1, <2>2 DEF ParkSwitch, SwitchToG0
    <3>3. ShiftRegs(m, "curg", "park_g")
      BY <1>inv, <2>1, <2>2, <3>2, ShiftShape, RegNames
    <3>4. \A q \in M : reg'[q]["curg"] # None =>
        lockedm'[reg'[q]["curg"]] \in {None, q}
      BY <1>inv, <2>1, <2>2, <3>1, <3>3, RegNames, Consts
         DEF LockedInPlace, ShiftRegs
    <3>5. \A q \in M : reg'[q]["next"] # None =>
        lockedm'[reg'[q]["next"]] \in {None, q}
      BY <1>inv, <2>1, <2>2, <3>1, <3>3, RegNames, Consts
         DEF LockedInPlace, ShiftRegs
    <3>6. \A q \in M : reg'[q]["nextg"] # None =>
        lockedm'[reg'[q]["nextg"]] \in {None, q}
      BY <1>inv, <2>1, <2>2, <3>1, <3>3, RegNames, Consts
         DEF LockedInPlace, ShiftRegs
    <3>7. \A q \in M : pc'[q] = "hand" => pc[q] = "hand" /\ q # m
      BY <1>ParkSwitch, <1>inv, <2>1, <2>2
         DEF At, Goto, BaseTypeOK, ParkSwitch, SwitchToG0
    <3>8. \A q \in M : pc'[q] = "hand" => lockedm'[reg'[q]["enq"]] = None
      BY <1>inv, <2>1, <2>2, <3>7, <3>1, <3>3, RegNames, Consts
         DEF LockedInPlace, ShiftRegs
    <3> QED
      BY <3>4, <3>5, <3>6, <3>8 DEF LockedInPlace
  <2>3. CASE parking[reg[m]["curg"]] # 1
    <3>1. UNCHANGED <<reg, lockedm>>
      BY <1>ParkSwitch, <1>inv, <2>1, <2>3
         DEF ParkSwitch, SwitchToG0, threads, frames, gs, lists, waits, scan
    <3>2. \A q \in M : pc'[q] = "hand" => pc[q] = "hand"
      BY <1>ParkSwitch, <1>inv, <2>1, <2>3
         DEF At, Goto, BaseTypeOK, ParkSwitch, SwitchToG0
    <3> QED
      BY <1>inv, <3>1, <3>2, SameHome
  <2> QED
    BY <2>2, <2>3
<1>LockOSThread. ASSUME NEW m \in M, LockOSThread(m) PROVE LockedInPlace'
  <2>1. reg[m]["curg"] \in G
    BY <1>LockOSThread, <1>inv, Pointers DEF LockOSThread, At
  <2>2. UNCHANGED <<pc, reg>>
    BY <1>LockOSThread, <1>inv, <2>1
       DEF LockOSThread, threads, frames, gs, lists, waits, scan
  <2>3. /\ lockedm'[reg[m]["curg"]] = m
        /\ \A h \in G : h # reg[m]["curg"] => lockedm'[h] = lockedm[h]
    BY <1>LockOSThread, <1>inv, <2>1 DEF BaseTypeOK, LockOSThread
  <2>4. \A q \in M, s \in Registers : reg[q][s] = reg[m]["curg"] =>
      q = m /\ s = "curg"
    BY <1>LockOSThread, <1>inv, <2>1, RegNames, Consts
       DEF Inv2, SingleOwner, OneRegister
  <2>5. \A q \in M, s \in Registers : reg[q][s] # None => reg[q][s] \in G
    BY <1>inv DEF BaseTypeOK
  <2>6. \A q \in M : reg'[q]["curg"] # None =>
      lockedm'[reg'[q]["curg"]] \in {None, q}
    BY <1>inv, <2>1, <2>2, <2>3, <2>4, <2>5, RegNames, Consts DEF LockedInPlace
  <2>7. \A q \in M : reg'[q]["next"] # None =>
      lockedm'[reg'[q]["next"]] \in {None, q}
    BY <1>inv, <2>1, <2>2, <2>3, <2>4, <2>5, RegNames, Consts DEF LockedInPlace
  <2>8. \A q \in M : reg'[q]["nextg"] # None =>
      lockedm'[reg'[q]["nextg"]] \in {None, q}
    BY <1>inv, <2>1, <2>2, <2>3, <2>4, <2>5, RegNames, Consts DEF LockedInPlace
  <2>9. \A q \in M : pc'[q] = "hand" => lockedm'[reg'[q]["enq"]] = None
    BY <1>LockOSThread, <1>inv, <2>1, <2>2, <2>3, <2>4, <2>5, RegNames, Consts
       DEF LockedInPlace, BaseTypeOK, At, Goto, LockOSThread
  <2> QED
    BY <2>6, <2>7, <2>8, <2>9 DEF LockedInPlace
<1>UnlockOSThread. ASSUME NEW m \in M, UnlockOSThread(m) PROVE LockedInPlace'
  <2>1. reg[m]["curg"] \in G
    BY <1>UnlockOSThread, <1>inv, Pointers DEF UnlockOSThread, At
  <2>2. UNCHANGED <<pc, reg>>
    BY <1>UnlockOSThread, <1>inv, <2>1
       DEF UnlockOSThread, threads, frames, gs, lists, waits, scan
  <2>3. /\ lockedm'[reg[m]["curg"]] = None
        /\ \A h \in G : h # reg[m]["curg"] => lockedm'[h] = lockedm[h]
    BY <1>UnlockOSThread, <1>inv, <2>1 DEF BaseTypeOK, UnlockOSThread
  <2>4. \A q \in M, s \in Registers : reg[q][s] = reg[m]["curg"] =>
      q = m /\ s = "curg"
    BY <1>UnlockOSThread, <1>inv, <2>1, RegNames, Consts
       DEF Inv2, SingleOwner, OneRegister
  <2>5. \A q \in M, s \in Registers : reg[q][s] # None => reg[q][s] \in G
    BY <1>inv DEF BaseTypeOK
  <2>6. \A q \in M : reg'[q]["curg"] # None =>
      lockedm'[reg'[q]["curg"]] \in {None, q}
    BY <1>inv, <2>1, <2>2, <2>3, <2>4, <2>5, RegNames, Consts DEF LockedInPlace
  <2>7. \A q \in M : reg'[q]["next"] # None =>
      lockedm'[reg'[q]["next"]] \in {None, q}
    BY <1>inv, <2>1, <2>2, <2>3, <2>4, <2>5, RegNames, Consts DEF LockedInPlace
  <2>8. \A q \in M : reg'[q]["nextg"] # None =>
      lockedm'[reg'[q]["nextg"]] \in {None, q}
    BY <1>inv, <2>1, <2>2, <2>3, <2>4, <2>5, RegNames, Consts DEF LockedInPlace
  <2>9. \A q \in M : pc'[q] = "hand" => lockedm'[reg'[q]["enq"]] = None
    BY <1>UnlockOSThread, <1>inv, <2>1, <2>2, <2>3, <2>4, <2>5, RegNames, Consts
       DEF LockedInPlace, BaseTypeOK, At, Goto, UnlockOSThread
  <2> QED
    BY <2>6, <2>7, <2>8, <2>9 DEF LockedInPlace
<1>Goexit. ASSUME NEW m \in M, Goexit(m) PROVE LockedInPlace'
  <2>1. reg[m]["curg"] \in G
    BY <1>Goexit, <1>inv, Pointers DEF Goexit, At
  <2>2. UNCHANGED <<lockedm>>
    BY <1>Goexit, <1>inv, <2>1
       DEF Goexit, SwitchToG0, threads, frames, gs, lists, waits, scan
  <2>3. reg' = Move(m, "curg", m, "deadg")
    BY <1>Goexit, <1>inv, <2>1 DEF Goexit, SwitchToG0
  <2>4. ShiftRegs(m, "curg", "deadg")
    BY <1>inv, <2>1, <2>3, ShiftShape, RegNames
  <2>5. \A q \in M : reg'[q]["curg"] # None =>
      lockedm'[reg'[q]["curg"]] \in {None, q}
    BY <1>inv, <2>1, <2>2, <2>4, RegNames, Consts DEF LockedInPlace, ShiftRegs
  <2>6. \A q \in M : reg'[q]["next"] # None =>
      lockedm'[reg'[q]["next"]] \in {None, q}
    BY <1>inv, <2>1, <2>2, <2>4, RegNames, Consts DEF LockedInPlace, ShiftRegs
  <2>7. \A q \in M : reg'[q]["nextg"] # None =>
      lockedm'[reg'[q]["nextg"]] \in {None, q}
    BY <1>inv, <2>1, <2>2, <2>4, RegNames, Consts DEF LockedInPlace, ShiftRegs
  <2>8. \A q \in M : pc'[q] = "hand" => pc[q] = "hand" /\ q # m
    BY <1>Goexit, <1>inv, <2>1 DEF At, Goto, BaseTypeOK, Goexit, SwitchToG0
  <2>9. \A q \in M : pc'[q] = "hand" => lockedm'[reg'[q]["enq"]] = None
    BY <1>inv, <2>1, <2>8, <2>2, <2>4, RegNames, Consts
       DEF LockedInPlace, ShiftRegs
  <2> QED
    BY <2>5, <2>6, <2>7, <2>9 DEF LockedInPlace
<1>MainReturn. ASSUME NEW m \in M, MainReturn(m) PROVE LockedInPlace'
  <2>1. UNCHANGED <<pc, reg, lockedm>>
    BY <1>MainReturn, <1>inv
       DEF MainReturn, threads, frames, gs, lists, waits, scan
  <2> QED
    BY <1>inv, <2>1 DEF LockedInPlace
<1>ExitThread. ASSUME NEW m \in M, ExitThread(m) PROVE LockedInPlace'
  <2>1. CASE m = M0
    <3>1. UNCHANGED <<pc, reg, lockedm>>
      BY <1>ExitThread, <1>inv, <2>1
         DEF ExitThread, threads, frames, gs, lists, waits, scan
    <3> QED
      BY <1>inv, <3>1 DEF LockedInPlace
  <2>2. CASE m # M0
    <3>1. UNCHANGED <<reg, lockedm>>
      BY <1>ExitThread, <1>inv, <2>2
         DEF ExitThread, threads, frames, gs, lists, waits, scan
    <3>2. \A q \in M : pc'[q] = "hand" => pc[q] = "hand"
      BY <1>ExitThread, <1>inv, <2>2 DEF At, Goto, BaseTypeOK, ExitThread
    <3> QED
      BY <1>inv, <3>1, <3>2, SameHome
  <2> QED
    BY <2>1, <2>2
<1>MPublish. ASSUME NEW m \in M, MPublish(m) PROVE LockedInPlace'
  <2>1. UNCHANGED <<reg, lockedm>>
    BY <1>MPublish, <1>inv DEF MPublish, threads, frames, gs, lists, waits, scan
  <2>2. \A q \in M : pc'[q] = "hand" => pc[q] = "hand"
    BY <1>MPublish, <1>inv DEF At, Goto, BaseTypeOK, MPublish
  <2> QED
    BY <1>inv, <2>1, <2>2, SameHome
<1>MFirst. ASSUME NEW m \in M, MFirst(m) PROVE LockedInPlace'
  <2>1. CASE reg[m]["start"] # None
    <3>1. reg[m]["start"] \in G
      BY <1>inv, <2>1, RegNames DEF BaseTypeOK
    <3>2. reg' = Move(m, "start", m, "nextg")
      BY <1>MFirst, <1>inv, <2>1, <3>1 DEF MFirst
    <3>3. ShiftRegs(m, "start", "nextg")
      BY <1>inv, <2>1, <3>1, <3>2, ShiftShape, RegNames
    <3>4. /\ lockedm'[reg[m]["start"]] = m
          /\ \A h \in G : h # reg[m]["start"] => lockedm'[h] = lockedm[h]
      BY <1>MFirst, <1>inv, <2>1, <3>1 DEF BaseTypeOK, MFirst
    <3>5. \A q \in M, s \in Registers : reg[q][s] = reg[m]["start"] =>
        q = m /\ s = "start"
      BY <1>MFirst, <1>inv, <2>1, <3>1, RegNames, Consts
         DEF Inv2, SingleOwner, OneRegister
    <3>6. \A q \in M, s \in Registers : reg[q][s] # None => reg[q][s] \in G
      BY <1>inv DEF BaseTypeOK
    <3>7. \A q \in M : reg'[q]["curg"] # None =>
        lockedm'[reg'[q]["curg"]] \in {None, q}
      BY <1>inv, <2>1, <3>1, <3>3, <3>4, <3>5, <3>6, RegNames, Consts
         DEF LockedInPlace, ShiftRegs
    <3>8. \A q \in M : reg'[q]["next"] # None =>
        lockedm'[reg'[q]["next"]] \in {None, q}
      BY <1>inv, <2>1, <3>1, <3>3, <3>4, <3>5, <3>6, RegNames, Consts
         DEF LockedInPlace, ShiftRegs
    <3>9. \A q \in M : reg'[q]["nextg"] # None =>
        lockedm'[reg'[q]["nextg"]] \in {None, q}
      BY <1>inv, <2>1, <3>1, <3>3, <3>4, <3>5, <3>6, RegNames, Consts
         DEF LockedInPlace, ShiftRegs
    <3>10. \A q \in M : pc'[q] = "hand" => pc[q] = "hand" /\ q # m
      BY <1>MFirst, <1>inv, <2>1, <3>1 DEF At, Goto, BaseTypeOK, MFirst
    <3>11. \A q \in M : pc[q] = "hand" /\ q # m =>
            /\ reg'[q]["enq"] = reg[q]["enq"]
            /\ reg[q]["enq"] \in G /\ reg[q]["enq"] # reg[m]["start"]
      BY <1>inv, <2>1, <3>1, <3>3, <3>4, <3>5, Pointers, RegNames DEF ShiftRegs
    <3>12. \A q \in M : pc'[q] = "hand" => lockedm'[reg'[q]["enq"]] = None
      BY <1>inv, <2>1, <3>1, <3>10, <3>4, <3>5, <3>6, <3>11, RegNames, Consts
         DEF LockedInPlace, ShiftRegs
    <3> QED
      BY <3>7, <3>8, <3>9, <3>12 DEF LockedInPlace
  <2>2. CASE reg[m]["start"] = None
    <3>1. UNCHANGED <<reg, lockedm>>
      BY <1>MFirst, <1>inv, <2>2
         DEF MFirst, threads, frames, gs, lists, waits, scan
    <3>2. \A q \in M : pc'[q] = "hand" => pc[q] = "hand"
      BY <1>MFirst, <1>inv, <2>2 DEF At, Goto, BaseTypeOK, MFirst
    <3> QED
      BY <1>inv, <3>1, <3>2, SameHome
  <2> QED
    BY <2>1, <2>2
<1>stutter. ASSUME UNCHANGED vars PROVE LockedInPlace'
  BY <1>inv, <1>stutter DEF vars, threads, gs, LockedInPlace
<1> QED
  BY <1>ReadyLoad, <1>ReadyCancel, <1>ReadyMark, <1>ReadyPend, <1>ReadyParked,
     <1>EnqueueFind, <1>EnqueueHand, <1>EnqueuePush, <1>SchedReap,
     <1>SchedRequeue, <1>SchedTake, <1>SchedCommit, <1>SchedWake, <1>PollDue,
     <1>PollDrop, <1>PollDone, <1>SchedRun, <1>FreeDead, <1>Dequeue,
     <1>DequeueNone, <1>ScanBegin, <1>ScanRead, <1>ScanEnd, <1>Go,
     <1>StartLocked, <1>Wake, <1>SpawnThread, <1>SpawnWorker, <1>SpawnFail,
     <1>Gosched, <1>ParkRegister, <1>Sleep, <1>ParkSwitch, <1>LockOSThread,
     <1>UnlockOSThread, <1>Goexit, <1>MainReturn, <1>ExitThread, <1>MPublish,
     <1>MFirst, <1>stutter
     DEF Next, Step, Ready, Enqueue, Schedule, Goroutine, Ended

-----------------------------------------------------------------------------
\* Layer 4

\* Cardinalities of the two sets the count stands for exist.
LEMMA FiniteSleepers ==
    ASSUME BaseTypeOK
    PROVE  IsFiniteSet(sleepers) /\ IsFiniteSet({m \in M : Polled(m)})
BY SchedAssumption, FS_Subset DEF BaseTypeOK

\* SleepersCounted in terms of Polled.
LEMMA CountPolled ==
    SleepersCounted <=>
        nsleep = Cardinality(sleepers) + Cardinality({m \in M : Polled(m)})
BY DEF SleepersCounted, Polled

\* The same of the next state, for the set S of threads that polled by then.
LEMMA CountPolledNext ==
    ASSUME NEW S, S \subseteq M, \A m \in M : Polled(m)' <=> m \in S,
                 nsleep' = Cardinality(sleepers') + Cardinality(S)
    PROVE  SleepersCounted'
<1>1. {m \in M : Polled(m)'} = S
  OBVIOUS
<1> QED
  BY <1>1 DEF SleepersCounted, Polled

\* A step that is not about sleepers.
LEMMA SameCount ==
    ASSUME SleepersCounted, UNCHANGED <<sleepers, nsleep>>,
           \A m \in M : Polled(m)' <=> Polled(m)
    PROVE  SleepersCounted'
BY CountPolled, CountPolledNext

\* A goroutine goes to sleep and is counted.
LEMMA SleeperAdded ==
    ASSUME BaseTypeOK, SleepersCounted, NEW g \in G, g \notin sleepers,
           sleepers' = sleepers \cup {g}, nsleep' = nsleep + 1,
           \A m \in M : Polled(m)' <=> Polled(m)
    PROVE  SleepersCounted'
<1> DEFINE S == {m \in M : Polled(m)}
<1>1. /\ Cardinality(sleepers') = Cardinality(sleepers) + 1
      /\ Cardinality(sleepers) \in Nat /\ Cardinality(S) \in Nat
  BY FiniteSleepers, FS_AddElement, FS_CardinalityType
<1>2. nsleep = Cardinality(sleepers) + Cardinality(S)
  BY CountPolled
<1> HIDE DEF S
<1>3. nsleep' = Cardinality(sleepers') + Cardinality(S)
  BY <1>1, <1>2
<1>4. S \subseteq M /\ \A m \in M : Polled(m)' <=> m \in S
  BY DEF S
<1> QED
  BY <1>3, <1>4, CountPolledNext

\* A poll unlinks a sleeper: the thread stands for it in the count.
LEMMA SleeperDue ==
    ASSUME BaseTypeOK, SleepersCounted, NEW g \in G, NEW m \in M,
           g \in sleepers, ~Polled(m),
           sleepers' = sleepers \ {g}, nsleep' = nsleep,
           \A q \in M : Polled(q)' <=> Polled(q) \/ q = m
    PROVE  SleepersCounted'
<1> DEFINE S == {q \in M : Polled(q)}
<1>1. /\ Cardinality(sleepers') = Cardinality(sleepers) - 1
      /\ Cardinality(S \cup {m}) = Cardinality(S) + 1
      /\ Cardinality(sleepers) \in Nat /\ Cardinality(S) \in Nat
  BY FiniteSleepers, FS_AddElement, FS_RemoveElement, FS_CardinalityType
<1>2. nsleep = Cardinality(sleepers) + Cardinality(S)
  BY CountPolled
<1> HIDE DEF S
<1>3. nsleep' = Cardinality(sleepers') + Cardinality(S \cup {m})
  BY <1>1, <1>2
<1>4. S \cup {m} \subseteq M /\ \A q \in M : Polled(q)' <=> q \in S \cup {m}
  BY DEF S
<1> QED
  BY <1>3, <1>4, CountPolledNext

\* The ready returned: the poll takes the sleeper off the count.
LEMMA SleeperDropped ==
    ASSUME BaseTypeOK, SleepersCounted, NEW m \in M, Polled(m),
           sleepers' = sleepers, nsleep' = nsleep - 1,
           \A q \in M : Polled(q)' <=> Polled(q) /\ q # m
    PROVE  SleepersCounted'
<1> DEFINE S == {q \in M : Polled(q)}
<1>1. /\ Cardinality(S \ {m}) = Cardinality(S) - 1
      /\ Cardinality(sleepers) \in Nat /\ Cardinality(S) \in Nat
  BY FiniteSleepers, FS_RemoveElement, FS_CardinalityType
<1>2. nsleep = Cardinality(sleepers) + Cardinality(S)
  BY CountPolled
<1> HIDE DEF S
<1>3. nsleep' = Cardinality(sleepers') + Cardinality(S \ {m})
  BY <1>1, <1>2
<1>4. S \ {m} \subseteq M /\ \A q \in M : Polled(q)' <=> q \in S \ {m}
  BY DEF S
<1> QED
  BY <1>3, <1>4, CountPolledNext

\* Every step keeps the count of the sleepers.
LEMMA CountStep == Inv1 /\ Inv2 /\ Inv4 /\ [Next]_vars => Inv4'
<1> SUFFICES ASSUME Inv1, Inv2, Inv4, [Next]_vars PROVE Inv4'
  OBVIOUS
<1>inv. BaseTypeOK /\ Inv1 /\ Inv2 /\ Inv4 /\ SleepersCounted
  BY DEF Inv1, Inv4
<1>ReadyLoad. ASSUME NEW m \in M, ReadyLoad(m) PROVE Inv4'
  <2>1. UNCHANGED <<sleepers, nsleep>>
    BY <1>ReadyLoad, <1>inv
       DEF ReadyLoad, Return, threads, frames, gs, lists, waits, scan
  <2>2. \A q \in M : q # m => pc'[q] = pc[q] /\ ret'[q] = ret[q]
    BY <1>ReadyLoad, <1>inv, <2>1 DEF BaseTypeOK, Goto, ReadyLoad, Return
  <2>3. (pc'[m] \in CallPCs /\ ret'[m] = ret[m]) \/ ret'[m] = "app"
    BY <1>ReadyLoad, <1>inv, <2>1
       DEF BaseTypeOK, Goto, CallPCs, EnqPCs, ReadyPCs, ReadyLoad, Return
  <2>4. pc[m] = "wake3" => ret[m] = "app"
    BY <1>inv DEF Inv4, RetPending, CallPCs, EnqPCs, ReadyPCs
  <2>5. RetPending'
    BY <1>ReadyLoad, <1>inv, <2>2, <2>3, <2>4
       DEF Inv4, RetPending, At, ReadyLoad
  <2>6. \A q \in M : Polled(q)' <=> Polled(q)
    BY <1>ReadyLoad, <1>inv, <2>1
       DEF Polled, Inv4, RetPending, BaseTypeOK, At, Goto, CallPCs, EnqPCs,
           ReadyPCs, ReadyLoad, Return
  <2>7. SleepersCounted'
    BY <1>inv, <2>1, <2>6, SameCount DEF Inv4
  <2> QED
    BY <2>5, <2>7 DEF Inv4
<1>ReadyCancel. ASSUME NEW m \in M, ReadyCancel(m) PROVE Inv4'
  <2>1. UNCHANGED <<ret, sleepers, nsleep>>
    BY <1>ReadyCancel, <1>inv
       DEF ReadyCancel, threads, frames, gs, lists, waits, scan
  <2>2. RetPending'
    BY <1>ReadyCancel, <1>inv, <2>1
       DEF Inv4, RetPending, BaseTypeOK, At, Goto, CallPCs, EnqPCs, ReadyPCs,
           ReadyCancel
  <2>3. \A q \in M : Polled(q)' <=> Polled(q)
    BY <1>ReadyCancel, <1>inv, <2>1
       DEF Polled, Inv4, RetPending, BaseTypeOK, At, Goto, CallPCs, EnqPCs,
           ReadyPCs, ReadyCancel
  <2>4. SleepersCounted'
    BY <1>inv, <2>1, <2>3, SameCount DEF Inv4
  <2> QED
    BY <2>2, <2>4 DEF Inv4
<1>ReadyMark. ASSUME NEW m \in M, ReadyMark(m) PROVE Inv4'
  <2>1. UNCHANGED <<sleepers, nsleep>>
    BY <1>ReadyMark, <1>inv
       DEF ReadyMark, Return, threads, frames, gs, lists, waits, scan
  <2>2. RetPending'
    BY <1>ReadyMark, <1>inv, <2>1
       DEF Inv4, RetPending, BaseTypeOK, At, Goto, CallPCs, EnqPCs, ReadyPCs,
           ReadyMark, Return
  <2>3. \A q \in M : Polled(q)' <=> Polled(q)
    BY <1>ReadyMark, <1>inv, <2>1
       DEF Polled, Inv4, RetPending, BaseTypeOK, At, Goto, CallPCs, EnqPCs,
           ReadyPCs, ReadyMark, Return
  <2>4. SleepersCounted'
    BY <1>inv, <2>1, <2>3, SameCount DEF Inv4
  <2> QED
    BY <2>2, <2>4 DEF Inv4
<1>ReadyPend. ASSUME NEW m \in M, ReadyPend(m) PROVE Inv4'
  <2>1. UNCHANGED <<sleepers, nsleep>>
    BY <1>ReadyPend, <1>inv
       DEF ReadyPend, Return, threads, frames, gs, lists, waits, scan
  <2>2. \A q \in M : q # m => pc'[q] = pc[q] /\ ret'[q] = ret[q]
    BY <1>ReadyPend, <1>inv, <2>1 DEF BaseTypeOK, Goto, ReadyPend, Return
  <2>3. (pc'[m] \in CallPCs /\ ret'[m] = ret[m]) \/ ret'[m] = "app"
    BY <1>ReadyPend, <1>inv, <2>1
       DEF BaseTypeOK, Goto, CallPCs, EnqPCs, ReadyPCs, ReadyPend, Return
  <2>4. pc[m] = "wake3" => ret[m] = "app"
    BY <1>inv DEF Inv4, RetPending, CallPCs, EnqPCs, ReadyPCs
  <2>5. RetPending'
    BY <1>ReadyPend, <1>inv, <2>2, <2>3, <2>4
       DEF Inv4, RetPending, At, ReadyPend
  <2>6. \A q \in M : Polled(q)' <=> Polled(q)
    BY <1>ReadyPend, <1>inv, <2>1
       DEF Polled, Inv4, RetPending, BaseTypeOK, At, Goto, CallPCs, EnqPCs,
           ReadyPCs, ReadyPend, Return
  <2>7. SleepersCounted'
    BY <1>inv, <2>1, <2>6, SameCount DEF Inv4
  <2> QED
    BY <2>5, <2>7 DEF Inv4
<1>ReadyParked. ASSUME NEW m \in M, ReadyParked(m) PROVE Inv4'
  <2>1. UNCHANGED <<sleepers, nsleep>>
    BY <1>ReadyParked, <1>inv
       DEF ReadyParked, Return, threads, frames, gs, lists, waits, scan
  <2>2. RetPending'
    BY <1>ReadyParked, <1>inv, <2>1
       DEF Inv4, RetPending, BaseTypeOK, At, Goto, CallPCs, EnqPCs, ReadyPCs,
           ReadyParked, Return
  <2>3. \A q \in M : Polled(q)' <=> Polled(q)
    BY <1>ReadyParked, <1>inv, <2>1
       DEF Polled, Inv4, RetPending, BaseTypeOK, At, Goto, CallPCs, EnqPCs,
           ReadyPCs, ReadyParked, Return
  <2>4. SleepersCounted'
    BY <1>inv, <2>1, <2>3, SameCount DEF Inv4
  <2> QED
    BY <2>2, <2>4 DEF Inv4
<1>EnqueueFind. ASSUME NEW m \in M, EnqueueFind(m) PROVE Inv4'
  <2>1. UNCHANGED <<ret, sleepers, nsleep>>
    BY <1>EnqueueFind, <1>inv
       DEF EnqueueFind, threads, frames, gs, lists, waits, scan
  <2>2. RetPending'
    BY <1>EnqueueFind, <1>inv, <2>1
       DEF Inv4, RetPending, BaseTypeOK, At, Goto, CallPCs, EnqPCs, ReadyPCs,
           EnqueueFind
  <2>3. \A q \in M : Polled(q)' <=> Polled(q)
    BY <1>EnqueueFind, <1>inv, <2>1
       DEF Polled, Inv4, RetPending, BaseTypeOK, At, Goto, CallPCs, EnqPCs,
           ReadyPCs, EnqueueFind
  <2>4. SleepersCounted'
    BY <1>inv, <2>1, <2>3, SameCount DEF Inv4
  <2> QED
    BY <2>2, <2>4 DEF Inv4
<1>EnqueueHand. ASSUME NEW m \in M, EnqueueHand(m) PROVE Inv4'
  <2>1. UNCHANGED <<sleepers, nsleep>>
    BY <1>EnqueueHand, <1>inv
       DEF EnqueueHand, Return, threads, frames, gs, lists, waits, scan
  <2>2. RetPending'
    BY <1>EnqueueHand, <1>inv, <2>1
       DEF Inv4, RetPending, BaseTypeOK, At, Goto, CallPCs, EnqPCs, ReadyPCs,
           EnqueueHand, Return
  <2>3. \A q \in M : Polled(q)' <=> Polled(q)
    BY <1>EnqueueHand, <1>inv, <2>1
       DEF Polled, Inv4, RetPending, BaseTypeOK, At, Goto, CallPCs, EnqPCs,
           ReadyPCs, EnqueueHand, Return
  <2>4. SleepersCounted'
    BY <1>inv, <2>1, <2>3, SameCount DEF Inv4
  <2> QED
    BY <2>2, <2>4 DEF Inv4
<1>EnqueuePush. ASSUME NEW m \in M, EnqueuePush(m) PROVE Inv4'
  <2>1. UNCHANGED <<sleepers, nsleep>>
    BY <1>EnqueuePush, <1>inv
       DEF EnqueuePush, Return, threads, frames, gs, lists, waits, scan
  <2>2. RetPending'
    BY <1>EnqueuePush, <1>inv, <2>1
       DEF Inv4, RetPending, BaseTypeOK, At, Goto, CallPCs, EnqPCs, ReadyPCs,
           EnqueuePush, Return
  <2>3. \A q \in M : Polled(q)' <=> Polled(q)
    BY <1>EnqueuePush, <1>inv, <2>1
       DEF Polled, Inv4, RetPending, BaseTypeOK, At, Goto, CallPCs, EnqPCs,
           ReadyPCs, EnqueuePush, Return
  <2>4. SleepersCounted'
    BY <1>inv, <2>1, <2>3, SameCount DEF Inv4
  <2> QED
    BY <2>2, <2>4 DEF Inv4
<1>SchedReap. ASSUME NEW m \in M, SchedReap(m) PROVE Inv4'
  <2>1. UNCHANGED <<pc, ret, sleepers, nsleep>>
    BY <1>SchedReap, <1>inv
       DEF SchedReap, threads, frames, gs, lists, waits, scan
  <2> QED
    BY <1>inv, <2>1 DEF Inv4, RetPending, SleepersCounted
<1>SchedRequeue. ASSUME NEW m \in M, SchedRequeue(m) PROVE Inv4'
  <2>1. UNCHANGED <<sleepers, nsleep>>
    BY <1>SchedRequeue, <1>inv
       DEF SchedRequeue, CallEnqueue, threads, frames, gs, lists, waits, scan
  <2>2. RetPending'
    BY <1>SchedRequeue, <1>inv, <2>1
       DEF Inv4, RetPending, BaseTypeOK, At, Goto, CallPCs, EnqPCs, ReadyPCs,
           SchedRequeue, CallEnqueue
  <2>3. \A q \in M : Polled(q)' <=> Polled(q)
    BY <1>SchedRequeue, <1>inv, <2>1, SMTT(30)
       DEF Polled, Inv4, RetPending, BaseTypeOK, At, Goto, CallPCs, EnqPCs,
           ReadyPCs, SchedRequeue, CallEnqueue
  <2>4. SleepersCounted'
    BY <1>inv, <2>1, <2>3, SameCount DEF Inv4
  <2> QED
    BY <2>2, <2>4 DEF Inv4
<1>SchedTake. ASSUME NEW m \in M, SchedTake(m) PROVE Inv4'
  <2>1. UNCHANGED <<ret, sleepers, nsleep>>
    BY <1>SchedTake, <1>inv
       DEF SchedTake, threads, frames, gs, lists, waits, scan
  <2>2. RetPending'
    BY <1>SchedTake, <1>inv, <2>1
       DEF Inv4, RetPending, BaseTypeOK, At, Goto, CallPCs, EnqPCs, ReadyPCs,
           SchedTake
  <2>3. \A q \in M : Polled(q)' <=> Polled(q)
    BY <1>SchedTake, <1>inv, <2>1
       DEF Polled, Inv4, RetPending, BaseTypeOK, At, Goto, CallPCs, EnqPCs,
           ReadyPCs, SchedTake
  <2>4. SleepersCounted'
    BY <1>inv, <2>1, <2>3, SameCount DEF Inv4
  <2> QED
    BY <2>2, <2>4 DEF Inv4
<1>SchedCommit. ASSUME NEW m \in M, SchedCommit(m) PROVE Inv4'
  <2>1. UNCHANGED <<ret, sleepers, nsleep>>
    BY <1>SchedCommit, <1>inv
       DEF SchedCommit, threads, frames, gs, lists, waits, scan
  <2>2. RetPending'
    BY <1>SchedCommit, <1>inv, <2>1
       DEF Inv4, RetPending, BaseTypeOK, At, Goto, CallPCs, EnqPCs, ReadyPCs,
           SchedCommit
  <2>3. \A q \in M : Polled(q)' <=> Polled(q)
    BY <1>SchedCommit, <1>inv, <2>1
       DEF Polled, Inv4, RetPending, BaseTypeOK, At, Goto, CallPCs, EnqPCs,
           ReadyPCs, SchedCommit
  <2>4. SleepersCounted'
    BY <1>inv, <2>1, <2>3, SameCount DEF Inv4
  <2> QED
    BY <2>2, <2>4 DEF Inv4
<1>SchedWake. ASSUME NEW m \in M, SchedWake(m) PROVE Inv4'
  <2>1. UNCHANGED <<sleepers, nsleep>>
    BY <1>SchedWake, <1>inv
       DEF SchedWake, CallEnqueue, threads, frames, gs, lists, waits, scan
  <2>2. \A q \in M : q # m => pc'[q] = pc[q] /\ ret'[q] = ret[q]
    BY <1>SchedWake, <1>inv, <2>1 DEF BaseTypeOK, Goto, SchedWake, CallEnqueue
  <2>3. (pc'[m] \in CallPCs) \/ ret'[m] = ret[m]
    BY <1>SchedWake, <1>inv, <2>1
       DEF BaseTypeOK, Goto, CallPCs, EnqPCs, ReadyPCs, SchedWake, CallEnqueue
  <2>4. pc[m] = "wake3" => ret[m] = "app"
    BY <1>inv DEF Inv4, RetPending, CallPCs, EnqPCs, ReadyPCs
  <2>5. RetPending'
    BY <1>SchedWake, <1>inv, <2>2, <2>3, <2>4
       DEF Inv4, RetPending, At, SchedWake
  <2>6. \A q \in M : Polled(q)' <=> Polled(q)
    BY <1>SchedWake, <1>inv, <2>1, ZenonT(60)
       DEF Polled, Inv4, RetPending, BaseTypeOK, At, Goto, CallPCs, EnqPCs,
           ReadyPCs, SchedWake, CallEnqueue
  <2>7. SleepersCounted'
    BY <1>inv, <2>1, <2>6, SameCount DEF Inv4
  <2> QED
    BY <2>5, <2>7 DEF Inv4
<1>PollDue. ASSUME NEW m \in M, NEW g \in G, PollDue(m, g) PROVE Inv4'
  <2>1. UNCHANGED <<nsleep>>
    BY <1>PollDue, <1>inv
       DEF PollDue, CallReady, threads, frames, gs, lists, waits, scan
  <2>2. RetPending'
    BY <1>PollDue, <1>inv, <2>1
       DEF Inv4, RetPending, BaseTypeOK, At, Goto, CallPCs, EnqPCs, ReadyPCs,
           PollDue, CallReady
  <2>3. sleepers' = sleepers \ {g} /\ g \in sleepers /\ nsleep' = nsleep
    BY <1>PollDue DEF PollDue
  <2>4. \A q \in M : Polled(q)' <=> Polled(q) \/ q = m
    BY <1>PollDue, <1>inv, <2>1
       DEF Polled, Inv4, RetPending, BaseTypeOK, At, Goto, CallPCs, EnqPCs,
           ReadyPCs, PollDue, CallReady
  <2>5. ~Polled(m)
    BY <1>PollDue, <1>inv
       DEF Polled, Inv4, RetPending, BaseTypeOK, At, Goto, CallPCs, EnqPCs,
           ReadyPCs, PollDue, CallReady
  <2>6. SleepersCounted'
    BY <1>inv, <2>3, <2>4, <2>5, SleeperDue DEF Inv4
  <2> QED
    BY <2>2, <2>6 DEF Inv4
<1>PollDrop. ASSUME NEW m \in M, PollDrop(m) PROVE Inv4'
  <2>1. UNCHANGED <<ret, sleepers>>
    BY <1>PollDrop, <1>inv DEF PollDrop, threads, frames, gs, lists, waits, scan
  <2>2. RetPending'
    BY <1>PollDrop, <1>inv, <2>1
       DEF Inv4, RetPending, BaseTypeOK, At, Goto, CallPCs, EnqPCs, ReadyPCs,
           PollDrop
  <2>3. sleepers' = sleepers /\ nsleep' = nsleep - 1
    BY <1>PollDrop DEF PollDrop
  <2>4. \A q \in M : Polled(q)' <=> Polled(q) /\ q # m
    BY <1>PollDrop, <1>inv, <2>1
       DEF Polled, Inv4, RetPending, BaseTypeOK, At, Goto, CallPCs, EnqPCs,
           ReadyPCs, PollDrop
  <2>5. Polled(m)
    BY <1>PollDrop, <1>inv
       DEF Polled, Inv4, RetPending, BaseTypeOK, At, Goto, CallPCs, EnqPCs,
           ReadyPCs, PollDrop
  <2>6. SleepersCounted'
    BY <1>inv, <2>3, <2>4, <2>5, SleeperDropped DEF Inv4
  <2> QED
    BY <2>2, <2>6 DEF Inv4
<1>PollDone. ASSUME NEW m \in M, PollDone(m) PROVE Inv4'
  <2>1. UNCHANGED <<ret, sleepers, nsleep>>
    BY <1>PollDone, <1>inv DEF PollDone, threads, frames, gs, lists, waits, scan
  <2>2. RetPending'
    BY <1>PollDone, <1>inv, <2>1
       DEF Inv4, RetPending, BaseTypeOK, At, Goto, CallPCs, EnqPCs, ReadyPCs,
           PollDone
  <2>3. \A q \in M : Polled(q)' <=> Polled(q)
    BY <1>PollDone, <1>inv, <2>1
       DEF Polled, Inv4, RetPending, BaseTypeOK, At, Goto, CallPCs, EnqPCs,
           ReadyPCs, PollDone
  <2>4. SleepersCounted'
    BY <1>inv, <2>1, <2>3, SameCount DEF Inv4
  <2> QED
    BY <2>2, <2>4 DEF Inv4
<1>SchedRun. ASSUME NEW m \in M, SchedRun(m) PROVE Inv4'
  <2>1. UNCHANGED <<ret, sleepers, nsleep>>
    BY <1>SchedRun, <1>inv DEF SchedRun, threads, frames, gs, lists, waits, scan
  <2>2. RetPending'
    BY <1>SchedRun, <1>inv, <2>1
       DEF Inv4, RetPending, BaseTypeOK, At, Goto, CallPCs, EnqPCs, ReadyPCs,
           SchedRun
  <2>3. \A q \in M : Polled(q)' <=> Polled(q)
    BY <1>SchedRun, <1>inv, <2>1
       DEF Polled, Inv4, RetPending, BaseTypeOK, At, Goto, CallPCs, EnqPCs,
           ReadyPCs, SchedRun
  <2>4. SleepersCounted'
    BY <1>inv, <2>1, <2>3, SameCount DEF Inv4
  <2> QED
    BY <2>2, <2>4 DEF Inv4
<1>FreeDead. ASSUME NEW m \in M, FreeDead(m) PROVE Inv4'
  <2>1. UNCHANGED <<pc, ret, sleepers, nsleep>>
    BY <1>FreeDead, <1>inv DEF FreeDead, threads, frames, gs, lists, waits, scan
  <2> QED
    BY <1>inv, <2>1 DEF Inv4, RetPending, SleepersCounted
<1>Dequeue. ASSUME NEW m \in M, Dequeue(m) PROVE Inv4'
  <2>1. UNCHANGED <<ret, sleepers, nsleep>>
    BY <1>Dequeue, <1>inv DEF Dequeue, threads, frames, gs, lists, waits, scan
  <2>2. RetPending'
    BY <1>Dequeue, <1>inv, <2>1
       DEF Inv4, RetPending, BaseTypeOK, At, Goto, CallPCs, EnqPCs, ReadyPCs,
           Dequeue
  <2>3. \A q \in M : Polled(q)' <=> Polled(q)
    BY <1>Dequeue, <1>inv, <2>1
       DEF Polled, Inv4, RetPending, BaseTypeOK, At, Goto, CallPCs, EnqPCs,
           ReadyPCs, Dequeue
  <2>4. SleepersCounted'
    BY <1>inv, <2>1, <2>3, SameCount DEF Inv4
  <2> QED
    BY <2>2, <2>4 DEF Inv4
<1>DequeueNone. ASSUME NEW m \in M, DequeueNone(m) PROVE Inv4'
  <2>1. UNCHANGED <<ret, sleepers, nsleep>>
    BY <1>DequeueNone, <1>inv
       DEF DequeueNone, threads, frames, gs, lists, waits, scan
  <2>2. RetPending'
    BY <1>DequeueNone, <1>inv, <2>1
       DEF Inv4, RetPending, BaseTypeOK, At, Goto, CallPCs, EnqPCs, ReadyPCs,
           DequeueNone
  <2>3. \A q \in M : Polled(q)' <=> Polled(q)
    BY <1>DequeueNone, <1>inv, <2>1
       DEF Polled, Inv4, RetPending, BaseTypeOK, At, Goto, CallPCs, EnqPCs,
           ReadyPCs, DequeueNone
  <2>4. SleepersCounted'
    BY <1>inv, <2>1, <2>3, SameCount DEF Inv4
  <2> QED
    BY <2>2, <2>4 DEF Inv4
<1>ScanBegin. ASSUME ScanBegin PROVE Inv4'
  <2>1. UNCHANGED <<ret, sleepers, nsleep>>
    BY <1>ScanBegin, <1>inv
       DEF ScanBegin, threads, frames, gs, lists, waits, scan
  <2>2. RetPending'
    BY <1>ScanBegin, <1>inv, <2>1
       DEF Inv4, RetPending, BaseTypeOK, At, Goto, CallPCs, EnqPCs, ReadyPCs,
           ScanBegin
  <2>3. \A q \in M : Polled(q)' <=> Polled(q)
    BY <1>ScanBegin, <1>inv, <2>1
       DEF Polled, Inv4, RetPending, BaseTypeOK, At, Goto, CallPCs, EnqPCs,
           ReadyPCs, ScanBegin
  <2>4. SleepersCounted'
    BY <1>inv, <2>1, <2>3, SameCount DEF Inv4
  <2> QED
    BY <2>2, <2>4 DEF Inv4
<1>ScanRead. ASSUME ScanRead PROVE Inv4'
  <2>1. UNCHANGED <<pc, ret, sleepers, nsleep>>
    BY <1>ScanRead, <1>inv DEF ScanRead, threads, frames, gs, lists, waits, scan
  <2> QED
    BY <1>inv, <2>1 DEF Inv4, RetPending, SleepersCounted
<1>ScanEnd. ASSUME ScanEnd PROVE Inv4'
  <2>1. UNCHANGED <<ret, sleepers, nsleep>>
    BY <1>ScanEnd, <1>inv DEF ScanEnd, threads, frames, gs, lists, waits, scan
  <2>2. RetPending'
    BY <1>ScanEnd, <1>inv, <2>1
       DEF Inv4, RetPending, BaseTypeOK, At, Goto, CallPCs, EnqPCs, ReadyPCs,
           ScanEnd
  <2>3. \A q \in M : Polled(q)' <=> Polled(q)
    BY <1>ScanEnd, <1>inv, <2>1
       DEF Polled, Inv4, RetPending, BaseTypeOK, At, Goto, CallPCs, EnqPCs,
           ReadyPCs, ScanEnd
  <2>4. SleepersCounted'
    BY <1>inv, <2>1, <2>3, SameCount DEF Inv4
  <2> QED
    BY <2>2, <2>4 DEF Inv4
<1>Go. ASSUME NEW m \in M, NEW g \in G, Go(m, g) PROVE Inv4'
  <2>1. UNCHANGED <<ret, sleepers, nsleep>>
    BY <1>Go, <1>inv DEF Go, NewG, threads, frames, gs, lists, waits, scan
  <2>2. RetPending'
    BY <1>Go, <1>inv, <2>1
       DEF Inv4, RetPending, BaseTypeOK, At, Goto, CallPCs, EnqPCs, ReadyPCs,
           Go, NewG
  <2>3. \A q \in M : Polled(q)' <=> Polled(q)
    BY <1>Go, <1>inv, <2>1
       DEF Polled, Inv4, RetPending, BaseTypeOK, At, Goto, CallPCs, EnqPCs,
           ReadyPCs, Go, NewG
  <2>4. SleepersCounted'
    BY <1>inv, <2>1, <2>3, SameCount DEF Inv4
  <2> QED
    BY <2>2, <2>4 DEF Inv4
<1>StartLocked. ASSUME NEW m \in M, NEW g \in G, StartLocked(m, g) PROVE Inv4'
  <2>1. UNCHANGED <<ret, sleepers, nsleep>>
    BY <1>StartLocked, <1>inv
       DEF StartLocked, NewG, threads, frames, gs, lists, waits, scan
  <2>2. RetPending'
    BY <1>StartLocked, <1>inv, <2>1
       DEF Inv4, RetPending, BaseTypeOK, At, Goto, CallPCs, EnqPCs, ReadyPCs,
           StartLocked, NewG
  <2>3. \A q \in M : Polled(q)' <=> Polled(q)
    BY <1>StartLocked, <1>inv, <2>1
       DEF Polled, Inv4, RetPending, BaseTypeOK, At, Goto, CallPCs, EnqPCs,
           ReadyPCs, StartLocked, NewG
  <2>4. SleepersCounted'
    BY <1>inv, <2>1, <2>3, SameCount DEF Inv4
  <2> QED
    BY <2>2, <2>4 DEF Inv4
<1>Wake. ASSUME NEW m \in M, NEW g \in G, Wake(m, g) PROVE Inv4'
  <2>1. UNCHANGED <<sleepers, nsleep>>
    BY <1>Wake, <1>inv
       DEF Wake, CallReady, threads, frames, gs, lists, waits, scan
  <2>2. RetPending'
    BY <1>Wake, <1>inv, <2>1
       DEF Inv4, RetPending, BaseTypeOK, At, Goto, CallPCs, EnqPCs, ReadyPCs,
           Wake, CallReady
  <2>3. \A q \in M : Polled(q)' <=> Polled(q)
    BY <1>Wake, <1>inv, <2>1
       DEF Polled, Inv4, RetPending, BaseTypeOK, At, Goto, CallPCs, EnqPCs,
           ReadyPCs, Wake, CallReady
  <2>4. SleepersCounted'
    BY <1>inv, <2>1, <2>3, SameCount DEF Inv4
  <2> QED
    BY <2>2, <2>4 DEF Inv4
<1>SpawnThread. ASSUME NEW m \in M, NEW n \in M, SpawnThread(m, n) PROVE Inv4'
  <2>1. UNCHANGED <<ret, sleepers, nsleep>>
    BY <1>SpawnThread, <1>inv
       DEF SpawnThread, threads, frames, gs, lists, waits, scan
  <2>2. RetPending'
    BY <1>SpawnThread, <1>inv, <2>1
       DEF Inv4, RetPending, BaseTypeOK, At, Goto, CallPCs, EnqPCs, ReadyPCs,
           SpawnThread
  <2>3. \A q \in M : Polled(q)' <=> Polled(q)
    BY <1>SpawnThread, <1>inv, <2>1
       DEF Polled, Inv4, RetPending, BaseTypeOK, At, Goto, CallPCs, EnqPCs,
           ReadyPCs, SpawnThread
  <2>4. SleepersCounted'
    BY <1>inv, <2>1, <2>3, SameCount DEF Inv4
  <2> QED
    BY <2>2, <2>4 DEF Inv4
<1>SpawnWorker. ASSUME NEW m \in M, NEW n \in M, SpawnWorker(m, n) PROVE Inv4'
  <2>1. UNCHANGED <<ret, sleepers, nsleep>>
    BY <1>SpawnWorker, <1>inv
       DEF SpawnWorker, threads, frames, gs, lists, waits, scan
  <2>2. RetPending'
    BY <1>SpawnWorker, <1>inv, <2>1
       DEF Inv4, RetPending, BaseTypeOK, At, Goto, CallPCs, EnqPCs, ReadyPCs,
           SpawnWorker
  <2>3. \A q \in M : Polled(q)' <=> Polled(q)
    BY <1>SpawnWorker, <1>inv, <2>1
       DEF Polled, Inv4, RetPending, BaseTypeOK, At, Goto, CallPCs, EnqPCs,
           ReadyPCs, SpawnWorker
  <2>4. SleepersCounted'
    BY <1>inv, <2>1, <2>3, SameCount DEF Inv4
  <2> QED
    BY <2>2, <2>4 DEF Inv4
<1>SpawnFail. ASSUME NEW m \in M, SpawnFail(m) PROVE Inv4'
  <2>1. UNCHANGED <<ret, sleepers, nsleep>>
    BY <1>SpawnFail, <1>inv
       DEF SpawnFail, threads, frames, gs, lists, waits, scan
  <2>2. RetPending'
    BY <1>SpawnFail, <1>inv, <2>1
       DEF Inv4, RetPending, BaseTypeOK, At, Goto, CallPCs, EnqPCs, ReadyPCs,
           SpawnFail
  <2>3. \A q \in M : Polled(q)' <=> Polled(q)
    BY <1>SpawnFail, <1>inv, <2>1
       DEF Polled, Inv4, RetPending, BaseTypeOK, At, Goto, CallPCs, EnqPCs,
           ReadyPCs, SpawnFail
  <2>4. SleepersCounted'
    BY <1>inv, <2>1, <2>3, SameCount DEF Inv4
  <2> QED
    BY <2>2, <2>4 DEF Inv4
<1>Gosched. ASSUME NEW m \in M, Gosched(m) PROVE Inv4'
  <2>1. UNCHANGED <<ret, sleepers, nsleep>>
    BY <1>Gosched, <1>inv
       DEF Gosched, SwitchToG0, threads, frames, gs, lists, waits, scan
  <2>2. RetPending'
    BY <1>Gosched, <1>inv, <2>1
       DEF Inv4, RetPending, BaseTypeOK, At, Goto, CallPCs, EnqPCs, ReadyPCs,
           Gosched, SwitchToG0
  <2>3. \A q \in M : Polled(q)' <=> Polled(q)
    BY <1>Gosched, <1>inv, <2>1
       DEF Polled, Inv4, RetPending, BaseTypeOK, At, Goto, CallPCs, EnqPCs,
           ReadyPCs, Gosched, SwitchToG0
  <2>4. SleepersCounted'
    BY <1>inv, <2>1, <2>3, SameCount DEF Inv4
  <2> QED
    BY <2>2, <2>4 DEF Inv4
<1>ParkRegister. ASSUME NEW m \in M, ParkRegister(m) PROVE Inv4'
  <2>1. UNCHANGED <<ret, sleepers, nsleep>>
    BY <1>ParkRegister, <1>inv
       DEF ParkRegister, threads, frames, gs, lists, waits, scan
  <2>2. RetPending'
    BY <1>ParkRegister, <1>inv, <2>1
       DEF Inv4, RetPending, BaseTypeOK, At, Goto, CallPCs, EnqPCs, ReadyPCs,
           ParkRegister
  <2>3. \A q \in M : Polled(q)' <=> Polled(q)
    BY <1>ParkRegister, <1>inv, <2>1
       DEF Polled, Inv4, RetPending, BaseTypeOK, At, Goto, CallPCs, EnqPCs,
           ReadyPCs, ParkRegister
  <2>4. SleepersCounted'
    BY <1>inv, <2>1, <2>3, SameCount DEF Inv4
  <2> QED
    BY <2>2, <2>4 DEF Inv4
<1>Sleep. ASSUME NEW m \in M, Sleep(m) PROVE Inv4'
  <2>1. UNCHANGED <<ret>>
    BY <1>Sleep, <1>inv DEF Sleep, threads, frames, gs, lists, waits, scan
  <2>2. RetPending'
    BY <1>Sleep, <1>inv, <2>1
       DEF Inv4, RetPending, BaseTypeOK, At, Goto, CallPCs, EnqPCs, ReadyPCs,
           Sleep
  <2>3. PICK x \in G : x = reg[m]["curg"]
    BY <1>Sleep, <1>inv, Pointers DEF Sleep, At
  <2>4. x \notin sleepers
    BY <1>Sleep, <1>inv, <2>3, HeldNotWoken, RegNames DEF Sleep, At, CanBeWoken
  <2>5. sleepers' = sleepers \cup {x} /\ nsleep' = nsleep + 1
    BY <1>Sleep, <2>3 DEF Sleep
  <2>6. \A q \in M : Polled(q)' <=> Polled(q)
    BY <1>Sleep, <1>inv, <2>1
       DEF Polled, Inv4, RetPending, BaseTypeOK, At, Goto, CallPCs, EnqPCs,
           ReadyPCs, Sleep
  <2>7. SleepersCounted'
    BY <1>inv, <2>4, <2>5, <2>6, SleeperAdded DEF Inv4
  <2> QED
    BY <2>2, <2>7 DEF Inv4
<1>ParkSwitch. ASSUME NEW m \in M, ParkSwitch(m) PROVE Inv4'
  <2>1. UNCHANGED <<ret, sleepers, nsleep>>
    BY <1>ParkSwitch, <1>inv
       DEF ParkSwitch, SwitchToG0, threads, frames, gs, lists, waits, scan
  <2>2. RetPending'
    BY <1>ParkSwitch, <1>inv, <2>1
       DEF Inv4, RetPending, BaseTypeOK, At, Goto, CallPCs, EnqPCs, ReadyPCs,
           ParkSwitch, SwitchToG0
  <2>3. \A q \in M : Polled(q)' <=> Polled(q)
    BY <1>ParkSwitch, <1>inv, <2>1
       DEF Polled, Inv4, RetPending, BaseTypeOK, At, Goto, CallPCs, EnqPCs,
           ReadyPCs, ParkSwitch, SwitchToG0
  <2>4. SleepersCounted'
    BY <1>inv, <2>1, <2>3, SameCount DEF Inv4
  <2> QED
    BY <2>2, <2>4 DEF Inv4
<1>LockOSThread. ASSUME NEW m \in M, LockOSThread(m) PROVE Inv4'
  <2>1. UNCHANGED <<pc, ret, sleepers, nsleep>>
    BY <1>LockOSThread, <1>inv
       DEF LockOSThread, threads, frames, gs, lists, waits, scan
  <2> QED
    BY <1>inv, <2>1 DEF Inv4, RetPending, SleepersCounted
<1>UnlockOSThread. ASSUME NEW m \in M, UnlockOSThread(m) PROVE Inv4'
  <2>1. UNCHANGED <<pc, ret, sleepers, nsleep>>
    BY <1>UnlockOSThread, <1>inv
       DEF UnlockOSThread, threads, frames, gs, lists, waits, scan
  <2> QED
    BY <1>inv, <2>1 DEF Inv4, RetPending, SleepersCounted
<1>Goexit. ASSUME NEW m \in M, Goexit(m) PROVE Inv4'
  <2>1. UNCHANGED <<ret, sleepers, nsleep>>
    BY <1>Goexit, <1>inv
       DEF Goexit, SwitchToG0, threads, frames, gs, lists, waits, scan
  <2>2. RetPending'
    BY <1>Goexit, <1>inv, <2>1
       DEF Inv4, RetPending, BaseTypeOK, At, Goto, CallPCs, EnqPCs, ReadyPCs,
           Goexit, SwitchToG0
  <2>3. \A q \in M : Polled(q)' <=> Polled(q)
    BY <1>Goexit, <1>inv, <2>1
       DEF Polled, Inv4, RetPending, BaseTypeOK, At, Goto, CallPCs, EnqPCs,
           ReadyPCs, Goexit, SwitchToG0
  <2>4. SleepersCounted'
    BY <1>inv, <2>1, <2>3, SameCount DEF Inv4
  <2> QED
    BY <2>2, <2>4 DEF Inv4
<1>MainReturn. ASSUME NEW m \in M, MainReturn(m) PROVE Inv4'
  <2>1. UNCHANGED <<pc, ret, sleepers, nsleep>>
    BY <1>MainReturn, <1>inv
       DEF MainReturn, threads, frames, gs, lists, waits, scan
  <2> QED
    BY <1>inv, <2>1 DEF Inv4, RetPending, SleepersCounted
<1>ExitThread. ASSUME NEW m \in M, ExitThread(m) PROVE Inv4'
  <2>1. UNCHANGED <<ret, sleepers, nsleep>>
    BY <1>ExitThread, <1>inv
       DEF ExitThread, threads, frames, gs, lists, waits, scan
  <2>2. RetPending'
    BY <1>ExitThread, <1>inv, <2>1
       DEF Inv4, RetPending, BaseTypeOK, At, Goto, CallPCs, EnqPCs, ReadyPCs,
           ExitThread
  <2>3. \A q \in M : Polled(q)' <=> Polled(q)
    BY <1>ExitThread, <1>inv, <2>1
       DEF Polled, Inv4, RetPending, BaseTypeOK, At, Goto, CallPCs, EnqPCs,
           ReadyPCs, ExitThread
  <2>4. SleepersCounted'
    BY <1>inv, <2>1, <2>3, SameCount DEF Inv4
  <2> QED
    BY <2>2, <2>4 DEF Inv4
<1>MPublish. ASSUME NEW m \in M, MPublish(m) PROVE Inv4'
  <2>1. UNCHANGED <<ret, sleepers, nsleep>>
    BY <1>MPublish, <1>inv DEF MPublish, threads, frames, gs, lists, waits, scan
  <2>2. RetPending'
    BY <1>MPublish, <1>inv, <2>1
       DEF Inv4, RetPending, BaseTypeOK, At, Goto, CallPCs, EnqPCs, ReadyPCs,
           MPublish
  <2>3. \A q \in M : Polled(q)' <=> Polled(q)
    BY <1>MPublish, <1>inv, <2>1
       DEF Polled, Inv4, RetPending, BaseTypeOK, At, Goto, CallPCs, EnqPCs,
           ReadyPCs, MPublish
  <2>4. SleepersCounted'
    BY <1>inv, <2>1, <2>3, SameCount DEF Inv4
  <2> QED
    BY <2>2, <2>4 DEF Inv4
<1>MFirst. ASSUME NEW m \in M, MFirst(m) PROVE Inv4'
  <2>1. UNCHANGED <<ret, sleepers, nsleep>>
    BY <1>MFirst, <1>inv DEF MFirst, threads, frames, gs, lists, waits, scan
  <2>2. RetPending'
    BY <1>MFirst, <1>inv, <2>1
       DEF Inv4, RetPending, BaseTypeOK, At, Goto, CallPCs, EnqPCs, ReadyPCs,
           MFirst
  <2>3. \A q \in M : Polled(q)' <=> Polled(q)
    BY <1>MFirst, <1>inv, <2>1
       DEF Polled, Inv4, RetPending, BaseTypeOK, At, Goto, CallPCs, EnqPCs,
           ReadyPCs, MFirst
  <2>4. SleepersCounted'
    BY <1>inv, <2>1, <2>3, SameCount DEF Inv4
  <2> QED
    BY <2>2, <2>4 DEF Inv4
<1>stutter. ASSUME UNCHANGED vars PROVE Inv4'
  BY <1>inv, <1>stutter
     DEF vars, threads, frames, waits, Inv4, RetPending, SleepersCounted
<1> QED
  BY <1>ReadyLoad, <1>ReadyCancel, <1>ReadyMark, <1>ReadyPend, <1>ReadyParked,
     <1>EnqueueFind, <1>EnqueueHand, <1>EnqueuePush, <1>SchedReap,
     <1>SchedRequeue, <1>SchedTake, <1>SchedCommit, <1>SchedWake, <1>PollDue,
     <1>PollDrop, <1>PollDone, <1>SchedRun, <1>FreeDead, <1>Dequeue,
     <1>DequeueNone, <1>ScanBegin, <1>ScanRead, <1>ScanEnd, <1>Go,
     <1>StartLocked, <1>Wake, <1>SpawnThread, <1>SpawnWorker, <1>SpawnFail,
     <1>Gosched, <1>ParkRegister, <1>Sleep, <1>ParkSwitch, <1>LockOSThread,
     <1>UnlockOSThread, <1>Goexit, <1>MainReturn, <1>ExitThread, <1>MPublish,
     <1>MFirst, <1>stutter
     DEF Next, Step, Ready, Enqueue, Schedule, Goroutine, Ended

-----------------------------------------------------------------------------
\* The first states satisfy the layers above the types: Main is in the run queue
\* and everything else is empty.
LEMMA Inv2Init == Init => Inv2
<1> SUFFICES ASSUME Init PROVE Inv2
  OBVIOUS
<1>1. \A m \in M, r \in Registers : reg[m][r] = None
  BY DEF Init
<1>2. \A m \in M : pc[m] \in {"sched", "mstart", "none"}
  BY DEF Init
<1>3. \A g \in G : ~CanBeWoken(g) /\ ~Held(g)
  BY <1>1, <1>2, Consts DEF Init, CanBeWoken, Waking, ReadyPCs, Held
<1>4. \A g \in G : g \in deadq \/ status[g] = "free" => ~Queued(g)
  BY DEF Init, Queued
<1>5. SingleOwner
  BY <1>1 DEF Init, SingleOwner, OneRegister, HeldNotQueued, QueuedOnce
<1>6. OneWaker /\ SeenIsSafe
  BY <1>2 DEF Init, OneWaker, SeenIsSafe, Waking, ReadyPCs
<1> QED
  BY <1>3, <1>4, <1>5, <1>6
     DEF Init, Inv2, ParkHandshake, GoneForGood, DeadNotFree

\* No goroutine is locked at first.
LEMMA LockedInit == Init => LockedInPlace
BY RegNames DEF Init, LockedInPlace

\* Nobody sleeps at first.
LEMMA CountInit == Init => Inv4
<1> SUFFICES ASSUME Init PROVE Inv4
  OBVIOUS
<1>1. \A m \in M : pc[m] # "polled" /\ ret[m] = "app"
  BY DEF Init
<1>2. sleepers = {} /\ nsleep = 0 /\ {m \in M : Polled(m)} = {}
  BY <1>1 DEF Init, Polled
<1>3. Cardinality({}) = 0
  BY FS_EmptySet
<1> QED
  BY <1>1, <1>2, <1>3, CountPolled DEF Inv4, RetPending

\* The inductive invariant holds of every reachable state.
THEOREM SchedInvariant == Spec => []IndInv
<1>1. Init => IndInv
  BY Inv1Init, Inv2Init, LockedInit, CountInit DEF IndInv
<1>2. IndInv /\ [Next]_vars => IndInv'
  BY Inv1Step, Inv2Step, LockedStep, CountStep DEF IndInv
<1> QED
  BY <1>1, <1>2, PTL DEF Spec

\* Every variable keeps its type; in particular runtime_sleepers_count, which is
\* a uint32_t, never drops below zero.
THEOREM TypeInvariant == Spec => []TypeOK
<1>1. IndInv => TypeOK
  <2> SUFFICES ASSUME IndInv PROVE TypeOK
    OBVIOUS
  <2>1. BaseTypeOK /\ SleepersCounted
    BY DEF IndInv, Inv1, Inv4
  <2>2. /\ Cardinality(sleepers) \in Nat
        /\ Cardinality({m \in M : Polled(m)}) \in Nat
    BY <2>1, FiniteSleepers, FS_CardinalityType
  <2>3. nsleep \in Nat
    BY <2>1, <2>2, CountPolled
  <2> QED
    BY <2>1, <2>3 DEF BaseTypeOK, TypeOK
<1> QED
  BY <1>1, SchedInvariant, PTL

\* A goroutine is in one place: no two threads run it, and none runs it while
\* another still has to save its context or commit its park.
THEOREM OneOwner == Spec => []SingleOwner
<1>1. IndInv => SingleOwner
  BY DEF IndInv, Inv2
<1> QED
  BY <1>1, SchedInvariant, PTL

\* A goroutine that can be woken is in one of the three stages of the parking
\* handshake, so that a wakeup never makes a second copy of it.
THEOREM Handshake == Spec => []ParkHandshake
<1>1. IndInv => ParkHandshake
  BY DEF IndInv, Inv2
<1> QED
  BY <1>1, SchedInvariant, PTL

\* A goroutine locked to its thread runs on no other.
THEOREM LockedHome == Spec => []LockedStaysHome
<1>1. IndInv => LockedStaysHome
  BY DEF IndInv, LockedInPlace, LockedStaysHome
<1> QED
  BY <1>1, SchedInvariant, PTL

\* The count of sleepers is exact at every step of a poll.
THEOREM SleeperCount == Spec => []SleepersCounted
<1>1. IndInv => SleepersCounted
  BY DEF IndInv, Inv4
<1> QED
  BY <1>1, SchedInvariant, PTL
===============================================================================
