----------------------------- MODULE HeapProofs -----------------------------
(***************************************************************************)
(* Proofs about Heap: its type invariant, that a slot is in one place,     *)
(* that what the program may use stays linked, that the scheduler knows of *)
(* finalizers that wait, and what a collection queues and leaves behind.   *)
(***************************************************************************)
EXTENDS Heap, FiniteSetTheorems, TLAPS

-----------------------------------------------------------------------------
(***************************************************************************)
(* The inductive invariant                                                 *)
(***************************************************************************)

\* A thread holds a slot from the step that takes it to the step that links it.
Phase ==
    \A t \in T : pc[t] \in {"fill", "out", "checked", "linking"}
                    <=> out[t] # None

Kinds == {"list", "tail", "live", "empty", "unmapped", "local", "out"}

\* kind says in which part of the heap a slot is ...
Shared(kind, x) ==
    /\ x \in list <=> kind[x] = "list"
    /\ x \in tail <=> kind[x] = "tail"
    /\ x \in bits <=> kind[x] = "live"
    /\ (\E c \in empty : x \in c) <=> kind[x] = "empty"
    /\ (\E c \in Chunks \ chunks : x \in c) <=> kind[x] = "unmapped"

\* ... and by, of a slot in a thread's hands, which thread.
Owned(kind, by, x) ==
    \A t \in T : /\ x \in local[t] <=> kind[x] = "local" /\ by[x] = t
                 /\ x = out[t] <=> kind[x] = "out" /\ by[x] = t

Describes(kind, by) ==
    /\ kind \in [Slots -> Kinds] /\ by \in [Slots -> T]
    /\ \A x \in Slots : Shared(kind, x) /\ Owned(kind, by, x)

Placed == \E kind, by : Describes(kind, by)

\* Variables, finalizers and linked objects refer to linked objects; a slot that
\* is taken is clear.
VarsLinked == \A t \in T : var[t] # None => var[t] \in bits
PtrsLinked == \A x \in bits : ptr[x] # None => ptr[x] \in bits
RecordLinked(r) ==
    r.object \in bits /\ (r.function # None => r.function \in bits)
RecordsLinked == \A r \in finals \cup Queued : RecordLinked(r)
OutsClear == \A t \in T : out[t] # None => ptr[out[t]] = None

Closed == VarsLinked /\ PtrsLinked /\ RecordsLinked /\ OutsClear

\* Both hold until a collection hurts a chunk.
Sound == hurt \/ (Placed /\ Closed)

IndInv == TypeOK /\ Phase /\ FinalizersWanted /\ Sound

-----------------------------------------------------------------------------
(***************************************************************************)
(* Types                                                                   *)
(***************************************************************************)

LEMMA InitTypes == Init => TypeOK
  BY HeapAssumption DEF Init, TypeOK, Pointers, Records

\* Taking a slot from the central keeps its types.
LEMMA CentralTypes ==
    ASSUME TypeOK, NEW s \in Slots, Central(s)
    PROVE  /\ chunks' \subseteq Chunks /\ empty' \subseteq chunks'
           /\ list' \subseteq Slots /\ tail' \subseteq Slots
           /\ bits' \subseteq Slots
  BY HeapAssumption DEF TypeOK, Central

\* What is marked, traced and queued is linked.
LEMMA MarkedLinked == \A R : Mark(R) \subseteq bits
  BY DEF Mark

LEMMA TracedLinked == Traced \subseteq bits
  BY MarkedLinked DEF Traced

\* A collection keeps the types.
LEMMA CollectTypes ==
    ASSUME TypeOK, Collect
    PROVE  /\ chunks' \subseteq Chunks /\ empty' \subseteq chunks'
           /\ list' \subseteq Slots /\ tail' \subseteq Slots
           /\ bits' \subseteq Slots
           /\ local' \in [T -> SUBSET Slots]
           /\ ptr' \in [Slots -> Pointers]
           /\ finals' \subseteq Records /\ ready' \subseteq Records
           /\ pending' \in BOOLEAN /\ hurt' \in BOOLEAN
           /\ active' \in Records \cup {None} /\ worker' \in BOOLEAN
<1> DEFINE dead == Candidates(Traced)
           kept == Traced \cup {r.object : r \in dead}
<1>1. dead \subseteq finals /\ \A r \in dead : r.object \in bits
  BY DEF Candidates
<1>2. kept \subseteq bits
  BY <1>1, TracedLinked
<1>3. /\ bits' = kept
      /\ ptr' = [s \in Slots |-> IF s \in Swept(kept) THEN None ELSE ptr[s]]
      /\ finals' = finals \ dead /\ ready' = ready \cup dead
      /\ pending' = (pending \/ dead # {})
      /\ list' = Listed(Swept(kept)) \ UNION empty'
      /\ tail' = {} /\ local' = [t \in T |-> {}]
      /\ UNCHANGED <<chunks, active, worker>>
      /\ Reclaim(kept)
  BY DEF Collect
<1> HIDE DEF dead, kept
<1>4. hurt' \in BOOLEAN /\ empty' \subseteq chunks'
  BY <1>3 DEF Reclaim, TypeOK
<1>5. list' \subseteq Slots
  BY <1>3 DEF Listed, Swept, TypeOK
<1>6. ptr' \in [Slots -> Pointers]
  BY <1>3 DEF TypeOK, Pointers
<1>7. finals' \subseteq Records /\ ready' \subseteq Records
  BY <1>1, <1>3 DEF TypeOK
<1>8. bits' \subseteq Slots /\ pending' \in BOOLEAN
  BY <1>2, <1>3 DEF TypeOK
<1>9. /\ chunks' \subseteq Chunks /\ tail' \subseteq Slots
      /\ local' \in [T -> SUBSET Slots]
      /\ active' \in Records \cup {None} /\ worker' \in BOOLEAN
  BY <1>3 DEF TypeOK
<1> QED
  BY <1>4, <1>5, <1>6, <1>7, <1>8, <1>9

LEMMA StepTypes == TypeOK /\ Phase /\ [Next]_vars => TypeOK'
<1> SUFFICES ASSUME TypeOK, Phase, [Next]_vars PROVE TypeOK'
  OBVIOUS
<1> USE HeapAssumption
<1>1. CASE UNCHANGED vars
  BY <1>1 DEF TypeOK, vars, central, queue, idle
<1>2. ASSUME NEW t \in T, TakeLocal(t) PROVE TypeOK'
  BY <1>2 DEF TypeOK, TakeLocal, Allocates, Takes, At, Goto, Pointers,
              central, queue, idle
<1>3. ASSUME NEW t \in T, TakeRefill(t) PROVE TypeOK'
  <2>1. PICK s \in Slots : Central(s) /\ Takes(t, s, "fill")
    BY <1>3 DEF TakeRefill
  <2> QED
    BY <1>3, <2>1, CentralTypes
    DEF TypeOK, TakeRefill, Takes, Goto, Pointers, queue, idle
<1>4. ASSUME NEW t \in T, Fill(t) PROVE TypeOK'
  <2>1. CASE \E s \in Slots : Central(s) /\ local' = [local EXCEPT ![t] = @ \cup {s}]
                              /\ pc' = pc
    BY <1>4, <2>1, CentralTypes DEF TypeOK, Fill, queue, idle
  <2>2. CASE Goto(t, "out") /\ UNCHANGED <<central, bits, local>>
    BY <1>4, <2>2 DEF TypeOK, Fill, Goto, central, queue, idle
  <2> QED
    BY <1>4, <2>1, <2>2 DEF Fill
<1>5. ASSUME NEW t \in T, TakeCentral(t) PROVE TypeOK'
  <2>1. PICK s \in Slots : Central(s) /\ Takes(t, s, "out")
    BY <1>5 DEF TakeCentral
  <2> QED
    BY <1>5, <2>1, CentralTypes
    DEF TypeOK, TakeCentral, Takes, Goto, Pointers, queue, idle
<1>6. ASSUME NEW t \in T, Link(t) PROVE TypeOK'
  <2>1. out[t] \in Slots
    BY <1>6 DEF TypeOK, Phase, Link, At, Pointers
  <2> QED
    BY <1>6, <2>1 DEF TypeOK, Link, Goto, Pointers, central, queue, idle
<1>7. ASSUME NEW t \in T, NEW p \in {"run", "second", "out", "checked", "again"},
             NEW q \in {"run", "second", "checked", "linking", "again", "retry"},
             Collects(t, p, q)
      PROVE  TypeOK'
  <2>1. Collect /\ Goto(t, q) /\ UNCHANGED <<out, started, var>>
    BY <1>7 DEF Collects
  <2>2. pc' \in [T -> {"run", "fill", "out", "checked", "linking",
                        "second", "again", "retry"}]
    BY <2>1 DEF Goto, TypeOK
  <2> QED
    BY <2>1, <2>2, CollectTypes DEF TypeOK
<1>8. ASSUME NEW t \in T,
             \/ ForceGC(t) \/ SecondGC(t) \/ LowMemory(t) \/ Threshold(t)
             \/ NoMemory(t) \/ NoMemoryAgain(t)
      PROVE  TypeOK'
  BY <1>7, <1>8 DEF ForceGC, SecondGC, LowMemory, Threshold, NoMemory, NoMemoryAgain
<1>9. ASSUME NEW t \in T, Panic(t) PROVE TypeOK'
  BY <1>9 DEF TypeOK, Panic, Goto, central, queue, idle
<1>10. ASSUME NEW t \in T, Store(t) \/ Assign(t) \/ StartThread(t) PROVE TypeOK'
  <2>1. CASE Store(t)
    <3>1. var[t] \in Slots
      BY <2>1 DEF TypeOK, Store, Pointers
    <3>2. PICK u \in T : ptr' = [ptr EXCEPT ![var[t]] = var[u]]
      BY <2>1 DEF Store
    <3>3. ptr' \in [Slots -> Pointers]
      BY <3>1, <3>2 DEF TypeOK
    <3> QED
      BY <2>1, <3>3 DEF TypeOK, Store, central, queue, idle
  <2>2. CASE Assign(t)
    <3>1. PICK p \in {var[u] : u \in T \ {t}}
                     \cup (IF var[t] = None THEN {} ELSE {ptr[var[t]]}) :
              var' = [var EXCEPT ![t] = p]
      BY <2>2 DEF Assign
    <3>2. p \in Pointers
      BY <3>1 DEF TypeOK, Pointers
    <3> QED
      BY <2>2, <3>1, <3>2 DEF TypeOK, Assign, central, queue, idle
  <2>3. CASE StartThread(t)
    BY <2>3 DEF TypeOK, StartThread, central, queue
  <2> QED
    BY <1>10, <2>1, <2>2, <2>3
<1>11. ASSUME NEW t \in T, FreeExact(t) PROVE TypeOK'
  <2>1. var[t] \in Slots
    BY <1>11 DEF TypeOK, FreeExact
  <2>2. local' \in [T -> SUBSET Slots] /\ list' \subseteq Slots
    BY <1>11, <2>1 DEF TypeOK, FreeExact, Release
  <2>3. UNCHANGED <<chunks, tail, empty, pc, out, idle, queue>>
    BY <1>11 DEF FreeExact
  <2>4. bits' \subseteq Slots /\ ptr' \in [Slots -> Pointers]
        /\ var' \in [T -> Pointers]
    BY <1>11 DEF TypeOK, FreeExact, Pointers
  <2> QED
    BY <2>2, <2>3, <2>4 DEF TypeOK, queue, idle
<1>12. ASSUME NEW t \in T, SetFinalizer(t) \/ ClearFinalizer(t) PROVE TypeOK'
  BY <1>12 DEF TypeOK, SetFinalizer, ClearFinalizer, Records, Pointers,
               central, idle
<1>13. CASE StartWorker \/ TakeReady \/ Finalized \/ WorkerExit
  <2>1. active' \in Records \cup {None} /\ ready' \subseteq Records
    BY <1>13 DEF TypeOK, StartWorker, TakeReady, Finalized, WorkerExit
  <2>2. worker' \in BOOLEAN /\ pending' \in BOOLEAN
    BY <1>13 DEF TypeOK, StartWorker, TakeReady, Finalized, WorkerExit
  <2>3. UNCHANGED <<central, bits, local, pc, out, idle, var, ptr, finals>>
    BY <1>13 DEF StartWorker, TakeReady, Finalized, WorkerExit
  <2> QED
    BY <2>1, <2>2, <2>3 DEF TypeOK, central, idle
<1>14. CASE Resurrect
  <2>1. active.object \in Slots
    BY <1>14 DEF Resurrect, TypeOK, Records
  <2> QED
    BY <1>14, <2>1 DEF TypeOK, Resurrect, Pointers, central, queue, idle
<1> QED
  BY <1>1, <1>2, <1>3, <1>4, <1>5, <1>6, <1>8, <1>9, <1>10, <1>11, <1>12, <1>13,
     <1>14
  DEF Next

-----------------------------------------------------------------------------
(***************************************************************************)
(* Where a thread is, and the finalizers' flags                            *)
(***************************************************************************)

LEMMA InitPhase == Init => Phase /\ FinalizersWanted
  BY DEF Init, Phase, FinalizersWanted

\* The steps that leave out and pc as they are.
LEMMA StepPhase == TypeOK /\ Phase /\ [Next]_vars => Phase'
<1> SUFFICES ASSUME TypeOK, Phase, [Next]_vars PROVE Phase'
  OBVIOUS
<1> USE HeapAssumption DEF Phase
<1>1. CASE pc' = pc /\ out' = out
  BY <1>1
<1>2. ASSUME NEW t \in T, NEW s \in Slots, NEW p \in {"fill", "out"},
             Takes(t, s, p)
      PROVE  Phase'
  BY <1>2 DEF Takes, Goto, TypeOK
<1>3. ASSUME NEW t \in T, TakeLocal(t) PROVE Phase'
  <2>1. PICK s \in local[t] : Takes(t, s, "out")
    BY <1>3 DEF TakeLocal
  <2>2. s \in Slots
    BY DEF TypeOK
  <2> QED
    BY <1>2, <2>1, <2>2
<1>4. ASSUME NEW t \in T, TakeRefill(t) \/ TakeCentral(t) PROVE Phase'
  BY <1>2, <1>4 DEF TakeRefill, TakeCentral
<1>5. ASSUME NEW t \in T, Fill(t) PROVE Phase'
  <2>1. pc[t] = "fill" /\ out' = out /\ (pc' = pc \/ Goto(t, "out"))
    BY <1>5 DEF Fill, At
  <2> QED
    BY <2>1 DEF Goto, TypeOK
<1>6. ASSUME NEW t \in T, Link(t) PROVE Phase'
  BY <1>6 DEF Link, Goto, TypeOK
<1>7. ASSUME NEW t \in T,
             \/ ForceGC(t) \/ SecondGC(t) \/ LowMemory(t) \/ Threshold(t)
             \/ NoMemory(t) \/ NoMemoryAgain(t)
      PROVE  Phase'
  <2>1. PICK p \in {"run", "second", "out", "checked", "again"},
             q \in {"run", "second", "checked", "linking", "again", "retry"} :
           /\ Collects(t, p, q)
           /\ p \in {"out", "checked"} <=> q \in {"checked", "linking"}
    BY <1>7 DEF ForceGC, SecondGC, LowMemory, Threshold, NoMemory, NoMemoryAgain
  <2>2. pc[t] = p /\ Goto(t, q) /\ out' = out
    BY <2>1 DEF Collects, At
  <2> QED
    BY <2>1, <2>2 DEF Goto, TypeOK
<1>8. ASSUME NEW t \in T, Panic(t) PROVE Phase'
  BY <1>8 DEF Panic, At, Goto, TypeOK
<1>9. ASSUME NEW t \in T,
             \/ Store(t) \/ Assign(t) \/ StartThread(t) \/ FreeExact(t)
             \/ SetFinalizer(t) \/ ClearFinalizer(t)
      PROVE  Phase'
  BY <1>1, <1>9
  DEF Store, Assign, StartThread, FreeExact, SetFinalizer, ClearFinalizer
<1>10. CASE StartWorker \/ TakeReady \/ Resurrect \/ Finalized \/ WorkerExit
  BY <1>1, <1>10 DEF StartWorker, TakeReady, Resurrect, Finalized, WorkerExit
<1>11. CASE UNCHANGED vars
  BY <1>1, <1>11 DEF vars
<1> QED
  BY <1>3, <1>4, <1>5, <1>6, <1>7, <1>8, <1>9, <1>10, <1>11 DEF Next

LEMMA StepWanted == FinalizersWanted /\ [Next]_vars => FinalizersWanted'
<1> SUFFICES ASSUME FinalizersWanted, [Next]_vars PROVE FinalizersWanted'
  OBVIOUS
<1> USE DEF FinalizersWanted
<1>1. CASE UNCHANGED queue
  BY <1>1 DEF queue
<1>2. ASSUME NEW t \in T, NEW p, NEW q, Collects(t, p, q) PROVE FinalizersWanted'
  <2>1. Collect
    BY <1>2 DEF Collects
  <2> QED
    BY <2>1 DEF Collect
<1>3. ASSUME NEW t \in T,
             \/ ForceGC(t) \/ SecondGC(t) \/ LowMemory(t) \/ Threshold(t)
             \/ NoMemory(t) \/ NoMemoryAgain(t)
      PROVE  FinalizersWanted'
  BY <1>2, <1>3
  DEF ForceGC, SecondGC, LowMemory, Threshold, NoMemory, NoMemoryAgain
<1>4. ASSUME NEW t \in T, SetFinalizer(t) \/ ClearFinalizer(t)
      PROVE  FinalizersWanted'
  BY <1>4 DEF SetFinalizer, ClearFinalizer
<1>5. ASSUME NEW t \in T,
             \/ TakeLocal(t) \/ TakeRefill(t) \/ Fill(t) \/ TakeCentral(t)
             \/ Link(t) \/ Panic(t)
             \/ Store(t) \/ Assign(t) \/ StartThread(t) \/ FreeExact(t)
      PROVE  FinalizersWanted'
  BY <1>1, <1>5 DEF TakeLocal, TakeRefill, Fill, TakeCentral, Link, Panic,
                    Store, Assign, StartThread, FreeExact
<1>6. CASE StartWorker \/ TakeReady \/ Resurrect \/ Finalized \/ WorkerExit
  BY <1>1, <1>6 DEF StartWorker, TakeReady, Resurrect, Finalized, WorkerExit
<1>7. CASE UNCHANGED vars
  BY <1>1, <1>7 DEF vars
<1> QED
  BY <1>3, <1>4, <1>5, <1>6, <1>7 DEF Next

-----------------------------------------------------------------------------
(***************************************************************************)
(* Where a slot is                                                         *)
(***************************************************************************)

LEMMA InitPlaced == Init => Placed
<1> SUFFICES ASSUME Init PROVE Placed
  OBVIOUS
<1> DEFINE kind == [x \in Slots |-> "unmapped"]
           by == [x \in Slots |-> Main]
<1> USE HeapAssumption
<1>1. kind \in [Slots -> Kinds] /\ by \in [Slots -> T]
  BY DEF Kinds
<1>2. ASSUME NEW x \in Slots PROVE Shared(kind, x) /\ Owned(kind, by, x)
  BY DEF Init, Shared, Owned
<1>3. Describes(kind, by)
  BY <1>1, <1>2 DEF Describes
<1> HIDE DEF kind, by
<1> QED
  BY <1>3 DEF Placed

\* The slot s is in no part of the heap after the step; the others are
\* where k says, as before if a thread has them.
Nowhere(s) ==
    /\ s \notin list' /\ s \notin tail' /\ s \notin bits'
    /\ \A c \in empty' : s \notin c
    /\ \A c \in Chunks \ chunks' : s \notin c

Rest(kind, k, s) ==
    \A x \in Slots \ {s} :
        /\ Shared(k, x)'
        /\ {kind[x], k[x]} \cap {"local", "out"} # {} => k[x] = kind[x]

\* What the central yields was free and is nowhere for the moment; the other
\* slots of its chunk may come to the tail.
LEMMA CentralMoves ==
    ASSUME TypeOK, NEW kind, NEW by, Describes(kind, by),
           NEW s \in Slots, Central(s)
    PROVE  /\ kind[s] \notin {"local", "out", "live"}
           /\ bits' = bits
           /\ Nowhere(s)
           /\ \E k \in [Slots -> Kinds] : Rest(kind, k, s)
<1> USE HeapAssumption
<1>1. /\ kind \in [Slots -> Kinds]
      /\ \A x \in Slots : Shared(kind, x)
      /\ chunks \subseteq Chunks /\ empty \subseteq chunks
      /\ bits \subseteq Slots /\ list \subseteq Slots /\ tail \subseteq Slots
      /\ \A c \in Chunks : c \subseteq Slots
  BY DEF Describes, TypeOK
<1>2. CASE \/ /\ s \in list /\ list' = list \ {s}
              /\ UNCHANGED <<chunks, tail, empty, bits>>
           \/ /\ s \in tail /\ tail' = tail \ {s}
              /\ UNCHANGED <<chunks, list, empty, bits>>
  <2>1. \A x \in Slots \ {s} : Shared(kind, x)'
    BY <1>1, <1>2 DEF Shared
  <2>2. kind[s] \in {"list", "tail"}
    BY <1>1, <1>2 DEF Shared
  <2>3. Nowhere(s)
    BY <1>1, <1>2 DEF Nowhere, Shared
  <2> QED
    BY <1>1, <1>2, <2>1, <2>2, <2>3 DEF Rest
<1>3. ASSUME list = {}, tail = {}, NEW c \in Chunks, s \in c,
             \/ /\ c \in empty /\ empty' = empty \ {c} /\ bits' = bits \ c
                /\ chunks' = chunks
             \/ /\ c \notin chunks /\ chunks' = chunks \cup {c}
                /\ UNCHANGED <<empty, bits>>,
             tail' = c \ {s}, list' = list
      PROVE  /\ kind[s] \in {"empty", "unmapped"} /\ bits' = bits
             /\ Nowhere(s)
             /\ \E k \in [Slots -> Kinds] : Rest(kind, k, s)
  <2> DEFINE k == [x \in Slots |-> IF x \in c THEN "tail" ELSE kind[x]]
  <2>1. \A x \in c : x \in Slots /\ kind[x] \in {"empty", "unmapped"}
    <3>1. \A x \in c : x \in Slots
      BY <1>1
    <3>2. c \in empty \/ c \in Chunks \ chunks
      BY <1>3
    <3> QED
      BY <1>1, <3>1, <3>2 DEF Shared
  <2>2. bits' = bits
    <3>1. bits \cap c = {}
      BY <1>1, <2>1 DEF Shared
    <3> QED
      BY <1>3, <3>1
  <2>3. \A d \in Chunks \ {c} : d \cap c = {}
    OBVIOUS
  <2>4. Nowhere(s)
    BY <1>1, <1>3, <2>1, <2>2, <2>3 DEF Nowhere, Shared
  <2>5. k \in [Slots -> Kinds]
    BY <1>1 DEF Kinds
  <2>6. ASSUME NEW x \in Slots \ {s}, x \in c PROVE Shared(k, x)'
    BY <1>1, <1>3, <2>1, <2>2, <2>3, <2>6 DEF Shared
  <2>7. ASSUME NEW x \in Slots \ {s}, x \notin c PROVE Shared(k, x)'
    BY <1>1, <1>3, <2>2, <2>7 DEF Shared
  <2>8. Rest(kind, k, s)
    BY <2>1, <2>6, <2>7 DEF Rest
  <2> QED
    BY <1>3, <2>1, <2>2, <2>4, <2>5, <2>8
<1> QED
  BY <1>1, <1>2, <1>3 DEF Central

LEMMA Settled ==
    ASSUME NEW k \in [Slots -> Kinds], NEW b \in [Slots -> T],
           \A x \in Slots : Shared(k, x)' /\ Owned(k, b, x)'
    PROVE  Placed'
  BY DEF Placed, Describes

\* A slot goes to the thread t: into its cache, or to be linked by it.
LEMMA MovedPlaced ==
    ASSUME NEW kind, NEW by, Describes(kind, by),
           NEW t \in T, NEW s \in Slots, NEW h \in {"local", "out"},
           NEW k \in [Slots -> Kinds], Rest(kind, k, s), Nowhere(s),
           \A u \in T : /\ s \in local'[u] <=> h = "local" /\ u = t
                        /\ s = out'[u] <=> h = "out" /\ u = t,
           \A x \in Slots \ {s} : \A u \in T :
               /\ x \in local'[u] <=> x \in local[u]
               /\ x = out'[u] <=> x = out[u]
    PROVE  Placed'
<1>1. PICK k2 : k2 = [k EXCEPT ![s] = h]
  OBVIOUS
<1>2. PICK b2 : b2 = [by EXCEPT ![s] = t]
  OBVIOUS
<1>3. kind \in [Slots -> Kinds] /\ by \in [Slots -> T]
      /\ \A x \in Slots : Owned(kind, by, x)
  BY DEF Describes
<1>4. k2 \in [Slots -> Kinds] /\ b2 \in [Slots -> T]
  BY <1>1, <1>2, <1>3 DEF Kinds
<1>5. k2[s] = h /\ b2[s] = t
  BY <1>1, <1>2, <1>3
<1>6. Shared(k2, s)'
  BY <1>5 DEF Shared, Nowhere
<1>7. Owned(k2, b2, s)'
  <2>1. ASSUME NEW u \in T
        PROVE  /\ s \in local'[u] <=> k2[s] = "local" /\ b2[s] = u
               /\ s = out'[u] <=> k2[s] = "out" /\ b2[s] = u
    BY <1>5
  <2> QED
    BY <2>1 DEF Owned
<1>8. ASSUME NEW x \in Slots, x # s PROVE Shared(k2, x)' /\ Owned(k2, b2, x)'
  <2>1. k2[x] = k[x] /\ b2[x] = by[x]
    BY <1>1, <1>2, <1>3, <1>8
  <2>2. /\ Shared(k, x)'
        /\ {kind[x], k[x]} \cap {"local", "out"} # {} => k[x] = kind[x]
    BY <1>8 DEF Rest
  <2>3. Shared(k2, x)'
    BY <2>1, <2>2 DEF Shared
  <2>4. /\ k2[x] = "local" <=> kind[x] = "local"
        /\ k2[x] = "out" <=> kind[x] = "out"
    BY <2>1, <2>2
  <2>5. ASSUME NEW u \in T
        PROVE  /\ x \in local'[u] <=> k2[x] = "local" /\ b2[x] = u
               /\ x = out'[u] <=> k2[x] = "out" /\ b2[x] = u
    BY <1>3, <1>8, <2>1, <2>4 DEF Owned
  <2> QED
    BY <2>3, <2>5 DEF Owned
<1> QED
  BY <1>4, <1>6, <1>7, <1>8, Settled

\* A slot goes from the heap to a thread.
LEMMA CentralPlaced ==
    ASSUME TypeOK, Placed, NEW t \in T, NEW s \in Slots, Central(s),
           \/ out[t] = None /\ out' = [out EXCEPT ![t] = s] /\ local' = local
           \/ local' = [local EXCEPT ![t] = @ \cup {s}] /\ out' = out
    PROVE  Placed' /\ bits' = bits /\ s \notin bits
<1>1. PICK kind, by : Describes(kind, by)
  BY DEF Placed
<1>2. /\ kind[s] \notin {"local", "out", "live"}
      /\ bits' = bits /\ Nowhere(s)
      /\ \E k \in [Slots -> Kinds] : Rest(kind, k, s)
  BY <1>1, CentralMoves
<1>3. PICK k \in [Slots -> Kinds] : Rest(kind, k, s)
  BY <1>2
<1>4. out \in [T -> Pointers] /\ local \in [T -> SUBSET Slots] /\ s # None
  BY HeapAssumption DEF TypeOK
<1>5. Owned(kind, by, s)
  BY <1>1 DEF Describes
<1>6. \A u \in T : s \notin local[u] /\ s # out[u]
  BY <1>2, <1>5 DEF Owned
<1>7. PICK h \in {"local", "out"} :
          \A u \in T : /\ s \in local'[u] <=> h = "local" /\ u = t
                       /\ s = out'[u] <=> h = "out" /\ u = t
  <2>1. CASE out' = [out EXCEPT ![t] = s] /\ local' = local
    BY <1>4, <1>6, <2>1
  <2>2. CASE local' = [local EXCEPT ![t] = @ \cup {s}] /\ out' = out
    BY <1>4, <1>6, <2>2
  <2> QED
    BY <2>1, <2>2
<1>8. \A x \in Slots \ {s} : \A u \in T :
          /\ x \in local'[u] <=> x \in local[u]
          /\ x = out'[u] <=> x = out[u]
  BY <1>4, HeapAssumption
<1>9. Placed'
  BY <1>1, <1>2, <1>3, <1>7, <1>8, MovedPlaced
<1>10. s \notin bits
  BY <1>1, <1>2 DEF Describes, Shared
<1> QED
  BY <1>2, <1>9, <1>10

\* What the sweep keeps.
Kept == Traced \cup {r.object : r \in Candidates(Traced)}

LEMMA KeptLinked == Kept \subseteq bits
  BY TracedLinked DEF Kept, Candidates

\* A collection that hurts no chunk moves what it sweeps and what is cached to
\* the list or to an empty chunk.
LEMMA CollectPlaced ==
    ASSUME TypeOK, Placed, Collect, ~hurt', out' = out
    PROVE  Placed'
<1> USE HeapAssumption
<1>1. PICK kind, by : Describes(kind, by)
  BY DEF Placed
<1>2. /\ bits' = Kept
      /\ list' = Listed(Swept(Kept)) \ UNION empty'
      /\ tail' = {} /\ local' = [t \in T |-> {}] /\ chunks' = chunks
      /\ Reclaim(Kept)
  BY DEF Collect, Kept
<1>3. PICK new : /\ new \subseteq {c \in chunks \ empty : c \cap Kept = {}}
                 /\ empty' = empty \cup new
                 /\ hurt' = (hurt \/ \E t \in T : out[t] \in UNION new)
  BY <1>2 DEF Reclaim
<1>4. /\ kind \in [Slots -> Kinds] /\ by \in [Slots -> T]
      /\ \A x \in Slots : Shared(kind, x) /\ Owned(kind, by, x)
  BY <1>1 DEF Describes
<1>5. /\ chunks \subseteq Chunks /\ empty \subseteq chunks
      /\ \A c \in Chunks : c \subseteq Slots
      /\ \A c, d \in Chunks : c # d => c \cap d = {}
  BY DEF TypeOK
<1>6. Kept \subseteq bits
  BY KeptLinked
<1>7. PICK E, K : E = empty' /\ K = Kept
  OBVIOUS
<1>8. PICK k : k = [x \in Slots |->
                      IF kind[x] \in {"out", "unmapped"} THEN kind[x]
                      ELSE IF x \in K THEN "live"
                      ELSE IF \E c \in E : x \in c THEN "empty" ELSE "list"]
  OBVIOUS
<1>9. k \in [Slots -> Kinds]
  <2>1. \A x \in Slots : k[x] \in Kinds
    BY <1>4, <1>8 DEF Kinds
  <2> QED
    BY <1>8, <2>1
<1>10. ASSUME NEW x \in Slots PROVE Shared(k, x)' /\ Owned(k, by, x)'
  <2> DEFINE emptied == \E c \in E : x \in c
  <2>1. Shared(kind, x) /\ Owned(kind, by, x)
    BY <1>4
  <2>2. kind[x] = "unmapped" => ~emptied
    BY <1>3, <1>5, <1>7, <2>1 DEF Shared
  <2>3. kind[x] = "out" => ~emptied
    <3>1. SUFFICES ASSUME kind[x] = "out", emptied PROVE FALSE
      OBVIOUS
    <3>2. x = out[by[x]] /\ by[x] \in T
      BY <1>4, <2>1, <3>1 DEF Owned
    <3>3. \E c \in new : x \in c
      BY <1>3, <1>7, <2>1, <3>1 DEF Shared
    <3> QED
      BY <1>3, <3>2, <3>3, out[by[x]] \in UNION new
  <2>4. x \in K => kind[x] = "live" /\ ~emptied
    BY <1>3, <1>6, <1>7, <2>1 DEF Shared
  <2>5. kind[x] = "empty" => emptied
    BY <1>3, <1>7, <2>1 DEF Shared
  <2>6. x \in list' <=>
            /\ kind[x] \in {"list", "tail", "local"} \/ (kind[x] = "live" /\ x \notin K)
            /\ ~emptied
    <3>1. x \in UNION {local[t] : t \in T} <=> kind[x] = "local"
      BY <1>4, <2>1 DEF Owned
    <3>2. x \in list' <=>
              /\ x \in list \cup tail \cup (bits \ K) \cup UNION {local[t] : t \in T}
              /\ ~emptied
      BY <1>2, <1>7 DEF Listed, Swept
    <3> QED
      BY <2>1, <3>1, <3>2 DEF Shared
  <2>7. k[x] = IF kind[x] \in {"out", "unmapped"} THEN kind[x]
               ELSE IF x \in K THEN "live"
               ELSE IF emptied THEN "empty" ELSE "list"
    BY <1>8
  <2>8. kind[x] \in Kinds
    BY <1>4
  <2>9. /\ x \in list' <=> k[x] = "list"
        /\ x \in tail' <=> k[x] = "tail"
        /\ x \in bits' <=> k[x] = "live"
        /\ emptied <=> k[x] = "empty"
        /\ k[x] = "unmapped" <=> kind[x] = "unmapped"
        /\ k[x] = "out" <=> kind[x] = "out"
        /\ k[x] # "local"
    <3> HIDE DEF emptied
    <3> QED
      BY <1>2, <1>7, <2>2, <2>3, <2>4, <2>5, <2>6, <2>7, <2>8 DEF Kinds
  <2>10. Shared(k, x)'
    BY <1>2, <1>7, <2>1, <2>9 DEF Shared
  <2>11. ASSUME NEW t \in T
         PROVE  /\ x \in local'[t] <=> k[x] = "local" /\ by[x] = t
                /\ x = out'[t] <=> k[x] = "out" /\ by[x] = t
    BY <1>2, <2>1, <2>9 DEF Owned
  <2> QED
    BY <2>10, <2>11 DEF Owned
<1>11. \A x \in Slots : Shared(k, x)' /\ Owned(k, by, x)'
  BY <1>10
<1> QED
  <2>1. by \in [Slots -> T]
    BY <1>4
  <2> QED
    BY <1>9, <1>11, <2>1, Settled

-----------------------------------------------------------------------------
(***************************************************************************)
(* What a collection keeps                                                 *)
(***************************************************************************)

\* The roots that are linked are marked, and so is what marked objects refer to.
LEMMA MarkedRoots == \A R : R \cap bits \subseteq Mark(R)
  BY DEF Mark, Found

LEMMA MarkedClosed ==
    ASSUME NEW R, NEW x \in Mark(R), ptr[x] \in bits
    PROVE  ptr[x] \in Mark(R)
<1>1. ASSUME NEW S \in SUBSET bits, Found(R) \subseteq S,
             Found({ptr[y] : y \in S}) \subseteq S
      PROVE  ptr[x] \in S
  <2>1. x \in S
    BY <1>1 DEF Mark
  <2>2. ptr[x] \in Found({ptr[y] : y \in S})
    BY <2>1 DEF Found
  <2> QED
    BY <1>1, <2>2
<1> QED
  BY <1>1 DEF Mark

LEMMA TracedRoots == Roots \cap bits \subseteq Traced
  BY MarkedRoots DEF Traced

LEMMA TracedClosed ==
    ASSUME NEW x \in Traced, ptr[x] \in bits
    PROVE  ptr[x] \in Traced
<1> DEFINE dying == {r \in finals : r.object \in bits \ Mark(Roots)}
           used == Mark({ptr[r.object] : r \in dying})
<1>1. Traced = Mark(Roots) \cup used
  BY DEF Traced
<1>2. x \in Mark(Roots) => ptr[x] \in Mark(Roots)
  BY MarkedClosed
<1>3. x \in used => ptr[x] \in used
  BY MarkedClosed
<1> QED
  BY <1>1, <1>2, <1>3

\* What an object with a finalizer refers to is traced, whether the object is
\* or not.
LEMMA TracedUsed ==
    ASSUME NEW r \in finals, r.object \in bits, ptr[r.object] \in bits
    PROVE  ptr[r.object] \in Traced
<1> DEFINE dying == {q \in finals : q.object \in bits \ Mark(Roots)}
           used == {ptr[q.object] : q \in dying}
<1>1. Traced = Mark(Roots) \cup Mark(used)
  BY DEF Traced
<1>2. CASE r.object \in Mark(Roots)
  BY <1>1, <1>2, MarkedClosed
<1>3. CASE r.object \notin Mark(Roots)
  <2>1. ptr[r.object] \in used \cap bits
    BY <1>3
  <2> HIDE DEF used
  <2> QED
    BY <1>1, <2>1, MarkedRoots
<1> QED
  BY <1>2, <1>3

\* What linked objects that are kept refer to is traced.
LEMMA KeptClosed ==
    ASSUME Closed, NEW x \in Kept, ptr[x] # None
    PROVE  ptr[x] \in Traced
<1>1. ptr[x] \in bits
  BY KeptLinked DEF Closed, PtrsLinked
<1>2. CASE x \in Traced
  BY <1>1, <1>2, TracedClosed
<1>3. CASE x \notin Traced
  <2>1. PICK r \in Candidates(Traced) : x = r.object
    BY <1>3 DEF Kept
  <2>2. r \in finals /\ r.object \in bits
    BY <2>1 DEF Candidates
  <2> QED
    BY <1>1, <2>1, <2>2, TracedUsed
<1> QED
  BY <1>2, <1>3

\* What a record refers to is kept.
LEMMA RecordsKept ==
    ASSUME Closed, NEW r \in finals \cup Queued
    PROVE  /\ r.object \in Kept
           /\ r.function # None => r.function \in Traced
           /\ r \in Queued => r.object \in Traced
<1>1. RecordLinked(r)
  BY DEF Closed, RecordsLinked
<1>2. r \in Queued => Fields(r) \subseteq FinalizerRoots
  <2>1. r \in ready => Fields(r) \subseteq UNION {Fields(q) : q \in ready}
    OBVIOUS
  <2>2. r = active /\ active # None =>
            Fields(r) \subseteq (IF active = None THEN {} ELSE Fields(active))
    OBVIOUS
  <2> QED
    BY <2>1, <2>2 DEF Queued, FinalizerRoots
<1>3. /\ r.function \in Roots
      /\ r \in Queued => r.object \in Roots
  <2>1. r \in finals => r.function \in FinalizerRoots
    BY DEF FinalizerRoots
  <2>2. r.object \in Fields(r) /\ r.function \in Fields(r)
    BY DEF Fields
  <2> QED
    BY <1>2, <2>1, <2>2 DEF Roots
<1>4. r.object \in Kept
  <2>1. CASE r.object \in Traced
    BY <2>1 DEF Kept
  <2>2. CASE r \in finals /\ r.object \notin Traced
    <3>1. r \in Candidates(Traced)
      BY <1>1, <2>2 DEF Candidates, RecordLinked
    <3> QED
      BY <3>1 DEF Kept
  <2>3. CASE r \in Queued
    BY <1>1, <1>3, <2>3, TracedRoots DEF Kept, RecordLinked
  <2> QED
    BY <2>1, <2>2, <2>3
<1> QED
  BY <1>1, <1>3, <1>4, TracedRoots DEF RecordLinked

LEMMA CollectClosed ==
    ASSUME TypeOK, Closed, Collect, out' = out, var' = var
    PROVE  Closed'
<1>1. /\ bits' = Kept
      /\ ptr' = [s \in Slots |-> IF s \in Swept(Kept) THEN None ELSE ptr[s]]
      /\ finals' \subseteq finals /\ ready' = ready \cup Candidates(Traced)
      /\ active' = active
  BY DEF Collect, Kept
<1>2. Candidates(Traced) \subseteq finals
  BY DEF Candidates
<1>3. VarsLinked'
  <2>1. ASSUME NEW t \in T, var[t] # None PROVE var[t] \in Kept
    <3>1. var[t] \in Roots \cap bits
      BY <2>1 DEF Closed, VarsLinked, Roots
    <3> QED
      BY <3>1, TracedRoots DEF Kept
  <2> QED
    BY <1>1, <2>1 DEF VarsLinked
<1>4. PtrsLinked'
  <2>1. ASSUME NEW x \in Kept, ptr'[x] # None PROVE ptr'[x] \in Kept
    <3>1. x \in Slots /\ x \notin Swept(Kept)
      BY KeptLinked DEF TypeOK, Swept
    <3>2. ptr'[x] = ptr[x]
      BY <1>1, <3>1
    <3>3. ptr[x] \in Traced
      BY <2>1, <3>2, KeptClosed
    <3> QED
      BY <3>2, <3>3 DEF Kept
  <2> QED
    BY <1>1, <2>1 DEF PtrsLinked
<1>5. RecordsLinked'
  <2>1. finals' \cup Queued' \subseteq finals \cup Queued
    BY <1>1, <1>2 DEF Queued
  <2>2. ASSUME NEW r \in finals \cup Queued PROVE RecordLinked(r)'
    BY <1>1, RecordsKept DEF RecordLinked, Kept
  <2> QED
    BY <2>1, <2>2 DEF RecordsLinked
<1>6. OutsClear'
  <2>1. ASSUME NEW t \in T, out[t] # None PROVE ptr'[out[t]] = None
    <3>1. out[t] \in Slots /\ ptr[out[t]] = None
      BY <2>1 DEF Closed, OutsClear, TypeOK, Pointers
    <3> QED
      BY <1>1, <3>1
  <2> QED
    BY <2>1 DEF OutsClear
<1> QED
  BY <1>3, <1>4, <1>5, <1>6 DEF Closed

-----------------------------------------------------------------------------
(***************************************************************************)
(* Each step keeps slots in one place, and what is in use linked           *)
(***************************************************************************)

\* No slot changes its place.
LEMMA SamePlaced ==
    ASSUME Placed, UNCHANGED <<central, bits, local, out>>
    PROVE  Placed'
  BY DEF Placed, Describes, Shared, Owned, central

\* The linked objects are the same, and nothing refers to other slots.
LEMMA SameClosed ==
    ASSUME Closed, bits' = bits, UNCHANGED <<var, finals, ready, active>>,
           \A x \in bits : ptr'[x] = ptr[x] \/ ptr'[x] \in bits \cup {None},
           OutsClear'
    PROVE  Closed'
<1>1. VarsLinked'
  BY DEF Closed, VarsLinked
<1>2. PtrsLinked'
  BY DEF Closed, PtrsLinked
<1>3. RecordsLinked'
  BY DEF Closed, RecordsLinked, RecordLinked, Queued
<1> QED
  BY <1>1, <1>2, <1>3 DEF Closed

\* A slot that is taken is cleared.
LEMMA TakesClosed ==
    ASSUME TypeOK, Closed, NEW t \in T, NEW s \in Slots, NEW p, Takes(t, s, p),
           s \notin bits, bits' = bits, UNCHANGED <<var, queue>>
    PROVE  Closed'
<1>1. ptr' = [ptr EXCEPT ![s] = None] /\ out' = [out EXCEPT ![t] = s]
      /\ ptr \in [Slots -> Pointers] /\ out \in [T -> Pointers]
      /\ bits \subseteq Slots
  BY DEF Takes, TypeOK
<1>2. \A x \in bits : ptr'[x] = ptr[x]
  BY <1>1
<1>3. OutsClear'
  <2>1. ASSUME NEW u \in T, out'[u] # None PROVE ptr'[out'[u]] = None
    <3>1. CASE u = t
      BY <1>1, <3>1
    <3>2. CASE u # t
      <4>1. out'[u] = out[u] /\ out[u] \in Slots
        BY <1>1, <2>1, <3>2 DEF Pointers
      <4>2. ptr[out[u]] = None
        BY <2>1, <4>1 DEF Closed, OutsClear
      <4> QED
        BY <1>1, <4>1, <4>2
    <3> QED
      BY <3>1, <3>2
  <2> QED
    BY <2>1 DEF OutsClear
<1> QED
  BY <1>2, <1>3, SameClosed DEF queue

LEMMA TakeLocalSound ==
    ASSUME TypeOK, Phase, Placed, Closed, NEW t \in T, TakeLocal(t)
    PROVE  Placed' /\ Closed'
<1>1. PICK s \in local[t] : /\ local' = [local EXCEPT ![t] = @ \ {s}]
                            /\ Takes(t, s, "out")
  BY DEF TakeLocal
<1>2. /\ local \in [T -> SUBSET Slots] /\ out \in [T -> Pointers]
      /\ s \in Slots /\ s # None
  BY HeapAssumption DEF TypeOK
<1>3. out[t] = None /\ out' = [out EXCEPT ![t] = s]
  BY <1>1 DEF TakeLocal, Allocates, At, Phase, Takes
<1>4. UNCHANGED <<chunks, list, tail, empty, bits, var, queue>>
  BY DEF TakeLocal, central
<1>5. PICK kind, by : Describes(kind, by)
  BY DEF Placed
<1>6. /\ kind \in [Slots -> Kinds]
      /\ \A x \in Slots : Shared(kind, x) /\ Owned(kind, by, x)
  BY <1>5 DEF Describes
<1>7. kind[s] = "local" /\ by[s] = t
  BY <1>1, <1>2, <1>6 DEF Owned
<1>8. Nowhere(s) /\ s \notin bits
  BY <1>2, <1>4, <1>6, <1>7 DEF Nowhere, Shared
<1>9. Rest(kind, kind, s)
  BY <1>4, <1>6 DEF Rest, Shared
<1>10. \A u \in T : s \in local[u] <=> u = t
  BY <1>2, <1>6, <1>7 DEF Owned
<1>11. \A u \in T : s # out[u]
  BY <1>2, <1>6, <1>7 DEF Owned
<1>12. \A u \in T : /\ s \in local'[u] <=> "out" = "local" /\ u = t
                    /\ s = out'[u] <=> "out" = "out" /\ u = t
  BY <1>1, <1>2, <1>3, <1>10, <1>11
<1>13. \A x \in Slots \ {s} : \A u \in T :
           /\ x \in local'[u] <=> x \in local[u]
           /\ x = out'[u] <=> x = out[u]
  BY <1>1, <1>2, <1>3, HeapAssumption
<1>14. Placed'
  BY <1>2, <1>5, <1>6, <1>8, <1>9, <1>12, <1>13, MovedPlaced
<1> QED
  BY <1>1, <1>2, <1>4, <1>8, <1>14, TakesClosed

\* An allocation takes a slot of the central.
LEMMA TakeCentralSound ==
    ASSUME TypeOK, Phase, Placed, Closed, NEW t \in T,
           TakeRefill(t) \/ TakeCentral(t)
    PROVE  Placed' /\ Closed'
<1>1. PICK s \in Slots, p \in {"fill", "out"} : Central(s) /\ Takes(t, s, p)
  BY DEF TakeRefill, TakeCentral
<1>2. out[t] = None
  BY DEF TakeRefill, TakeCentral, Allocates, At, Phase
<1>3. out' = [out EXCEPT ![t] = s] /\ local' = local
  BY <1>1 DEF TakeRefill, TakeCentral, Takes
<1>4. Placed' /\ bits' = bits /\ s \notin bits
  BY <1>1, <1>2, <1>3, CentralPlaced
<1>5. UNCHANGED <<var, queue>>
  BY DEF TakeRefill, TakeCentral
<1> QED
  BY <1>1, <1>4, <1>5, TakesClosed

LEMMA FillSound ==
    ASSUME TypeOK, Placed, Closed, NEW t \in T, Fill(t)
    PROVE  Placed' /\ Closed'
<1>1. UNCHANGED <<out, var, ptr, queue>>
  BY DEF Fill
<1>2. OutsClear'
  BY <1>1 DEF Closed, OutsClear
<1>3. ASSUME NEW s \in Slots, Central(s),
             local' = [local EXCEPT ![t] = @ \cup {s}]
      PROVE  Placed' /\ bits' = bits
  BY <1>1, <1>3, CentralPlaced
<1>4. ASSUME UNCHANGED <<central, bits, local>> PROVE Placed' /\ bits' = bits
  BY <1>1, <1>4, SamePlaced
<1>5. Placed' /\ bits' = bits
  BY <1>3, <1>4 DEF Fill
<1> QED
  BY <1>1, <1>2, <1>5, SameClosed DEF queue

LEMMA LinkSound ==
    ASSUME TypeOK, Phase, Placed, Closed, NEW t \in T, Link(t)
    PROVE  Placed' /\ Closed'
<1>1. /\ bits' = bits \cup {out[t]}
      /\ var' = [var EXCEPT ![t] = out[t]] /\ out' = [out EXCEPT ![t] = None]
      /\ UNCHANGED <<chunks, list, tail, empty, local, ptr>>
      /\ UNCHANGED <<finals, ready, active>>
  BY DEF Link, central, queue
<1>2. out[t] \in Slots /\ out \in [T -> Pointers] /\ var \in [T -> Pointers]
  BY DEF TypeOK, Phase, Link, At, Pointers
<1>3. PICK s : s = out[t]
  OBVIOUS
<1>4. PICK kind, by : Describes(kind, by)
  BY DEF Placed
<1>5. /\ kind \in [Slots -> Kinds] /\ by \in [Slots -> T]
      /\ \A x \in Slots : Shared(kind, x) /\ Owned(kind, by, x)
  BY <1>4 DEF Describes
<1>6. PICK k : k = [kind EXCEPT ![s] = "live"]
  OBVIOUS
<1>7. k \in [Slots -> Kinds] /\ k[s] = "live"
  BY <1>2, <1>3, <1>5, <1>6 DEF Kinds
<1>8. kind[s] = "out" /\ by[s] = t
  BY <1>2, <1>3, <1>5 DEF Owned
<1>9. Shared(k, s)' /\ Owned(k, by, s)'
  <2>1. Shared(k, s)'
    BY <1>1, <1>2, <1>3, <1>5, <1>7, <1>8 DEF Shared
  <2>2. \A u \in T : s \notin local[u] /\ (s = out[u] <=> u = t)
    BY <1>2, <1>3, <1>5, <1>8 DEF Owned
  <2>3. \A u \in T : s \notin local'[u] /\ s # out'[u]
    BY <1>1, <1>2, <1>3, <2>2, HeapAssumption
  <2> QED
    BY <1>7, <2>1, <2>3 DEF Owned
<1>10. ASSUME NEW x \in Slots, x # s PROVE Shared(k, x)' /\ Owned(k, by, x)'
  <2>1. k[x] = kind[x] /\ Shared(kind, x) /\ Owned(kind, by, x)
    BY <1>5, <1>6, <1>10
  <2>2. Shared(k, x)'
    BY <1>1, <1>3, <1>10, <2>1 DEF Shared
  <2>3. \A u \in T : x = out'[u] <=> x = out[u]
    BY <1>1, <1>2, <1>3, <1>10, HeapAssumption
  <2>4. Owned(k, by, x)'
    BY <1>1, <2>1, <2>3 DEF Owned
  <2> QED
    BY <2>2, <2>4
<1>11. Placed'
  BY <1>5, <1>7, <1>9, <1>10, Settled
<1>12. ptr[s] = None
  BY <1>2, <1>3, HeapAssumption DEF Closed, OutsClear
<1>13. VarsLinked'
  BY <1>1, <1>2 DEF Closed, VarsLinked
<1>14. PtrsLinked'
  BY <1>1, <1>3, <1>12 DEF Closed, PtrsLinked
<1>15. RecordsLinked'
  <2>1. ASSUME NEW r \in finals \cup Queued PROVE RecordLinked(r)'
    BY <1>1 DEF Closed, RecordsLinked, RecordLinked
  <2> QED
    BY <1>1, <2>1 DEF RecordsLinked, Queued
<1>16. OutsClear'
  BY <1>1, <1>2 DEF Closed, OutsClear
<1> QED
  BY <1>11, <1>13, <1>14, <1>15, <1>16 DEF Closed

LEMMA CollectsSound ==
    ASSUME TypeOK, Placed, Closed, Collect, UNCHANGED <<out, var>>
    PROVE  Sound'
  BY CollectPlaced, CollectClosed DEF Sound

\* An object that is freed goes to the thread's cache or to the list; nothing
\* else refers to it.
LEMMA FreeExactPlaced ==
    ASSUME TypeOK, Placed, NEW t \in T, FreeExact(t)
    PROVE  Placed'
<1>1. PICK s : s = var[t]
  OBVIOUS
<1>2. /\ s \in bits /\ s \in Slots /\ bits' = bits \ {s}
      /\ local \in [T -> SUBSET Slots]
      /\ UNCHANGED <<chunks, tail, empty, out>>
  BY <1>1 DEF FreeExact, TypeOK
<1>3. \/ local' = [local EXCEPT ![t] = @ \cup {s}] /\ list' = list
      \/ list' = list \cup {s} /\ local' = local
  BY <1>1 DEF FreeExact, Release
<1>4. PICK kind, by : Describes(kind, by)
  BY DEF Placed
<1>5. /\ kind \in [Slots -> Kinds] /\ by \in [Slots -> T]
      /\ \A x \in Slots : Shared(kind, x) /\ Owned(kind, by, x)
  BY <1>4 DEF Describes
<1>6. kind[s] = "live"
  BY <1>2, <1>5 DEF Shared
<1>7. \A u \in T : s \notin local[u] /\ s # out[u]
  BY <1>2, <1>5, <1>6 DEF Owned
<1>8. CASE local' = [local EXCEPT ![t] = @ \cup {s}] /\ list' = list
  <2>1. Nowhere(s)
    BY <1>2, <1>5, <1>6, <1>8 DEF Nowhere, Shared
  <2>2. Rest(kind, kind, s)
    BY <1>2, <1>5, <1>8 DEF Rest, Shared
  <2>3. \A u \in T : /\ s \in local'[u] <=> "local" = "local" /\ u = t
                     /\ s = out'[u] <=> "local" = "out" /\ u = t
    BY <1>2, <1>7, <1>8
  <2>4. \A x \in Slots \ {s} : \A u \in T :
            /\ x \in local'[u] <=> x \in local[u]
            /\ x = out'[u] <=> x = out[u]
    BY <1>2, <1>8
  <2> QED
    BY <1>2, <1>4, <1>5, <2>1, <2>2, <2>3, <2>4, MovedPlaced
<1>9. CASE list' = list \cup {s} /\ local' = local
  <2>1. PICK k : k = [kind EXCEPT ![s] = "list"]
    OBVIOUS
  <2>2. k \in [Slots -> Kinds] /\ k[s] = "list"
    BY <1>2, <1>5, <2>1 DEF Kinds
  <2>3. Shared(k, s)'
    BY <1>2, <1>5, <1>6, <1>9, <2>2 DEF Shared
  <2>4. Owned(k, by, s)'
    BY <1>2, <1>7, <1>9, <2>2 DEF Owned
  <2>5. ASSUME NEW x \in Slots, x # s PROVE Shared(k, x)' /\ Owned(k, by, x)'
    <3>1. k[x] = kind[x] /\ Shared(kind, x) /\ Owned(kind, by, x)
      BY <1>5, <2>1, <2>5
    <3>2. Shared(k, x)'
      BY <1>2, <1>9, <2>5, <3>1 DEF Shared
    <3>3. Owned(k, by, x)'
      BY <1>2, <1>9, <3>1 DEF Owned
    <3> QED
      BY <3>2, <3>3
  <2> QED
    BY <1>5, <2>2, <2>3, <2>4, <2>5, Settled
<1> QED
  BY <1>3, <1>8, <1>9

LEMMA FreeExactClosed ==
    ASSUME TypeOK, Closed, NEW t \in T, FreeExact(t)
    PROVE  Closed'
<1>1. PICK s : s = var[t]
  OBVIOUS
<1>2. /\ s \in bits /\ s \in Slots /\ bits' = bits \ {s} /\ ~Referred(s, t)
      /\ ptr' = [ptr EXCEPT ![s] = None] /\ var' = [var EXCEPT ![t] = None]
      /\ UNCHANGED <<out, finals, ready, active>>
      /\ bits \subseteq Slots
      /\ ptr \in [Slots -> Pointers] /\ var \in [T -> Pointers]
  BY <1>1 DEF FreeExact, TypeOK, queue
<1>3. /\ \A u \in T \ {t} : s # var[u]
      /\ \A x \in bits : s # ptr[x]
  BY <1>2 DEF Referred
<1>4. \A r \in finals \cup Queued : s \notin Fields(r)
  BY <1>2 DEF Referred, Queued
<1>5. VarsLinked'
  BY <1>2, <1>3 DEF Closed, VarsLinked
<1>6. PtrsLinked'
  <2>1. ASSUME NEW x \in bits \ {s}, ptr'[x] # None PROVE ptr'[x] \in bits \ {s}
    <3>1. ptr'[x] = ptr[x]
      BY <1>2
    <3> QED
      BY <1>3, <2>1, <3>1 DEF Closed, PtrsLinked
  <2> QED
    BY <1>2, <2>1 DEF PtrsLinked
<1>7. RecordsLinked'
  <2>1. ASSUME NEW r \in finals \cup Queued PROVE RecordLinked(r)'
    <3>1. RecordLinked(r) /\ s # r.object /\ s # r.function
      BY <1>4 DEF Closed, RecordsLinked, Fields
    <3> QED
      BY <1>2, <3>1 DEF RecordLinked
  <2> QED
    BY <1>2, <2>1 DEF RecordsLinked, Queued
<1>8. OutsClear'
  <2>1. ASSUME NEW u \in T, out[u] # None PROVE ptr'[out[u]] = None
    <3>1. ptr[out[u]] = None /\ out[u] \in Slots
      BY <2>1 DEF Closed, OutsClear, TypeOK, Pointers
    <3> QED
      BY <1>2, <3>1
  <2> QED
    BY <1>2, <2>1 DEF OutsClear
<1> QED
  BY <1>5, <1>6, <1>7, <1>8 DEF Closed

\* A slot that is taken is not linked.
LEMMA OutNotLinked ==
    ASSUME TypeOK, Placed, NEW t \in T, out[t] # None
    PROVE  out[t] \notin bits
<1>1. PICK kind, by : Describes(kind, by)
  BY DEF Placed
<1>2. out[t] \in Slots
  BY DEF TypeOK, Pointers
<1>3. kind[out[t]] = "out"
  BY <1>1, <1>2 DEF Describes, Owned
<1> QED
  BY <1>1, <1>2, <1>3 DEF Describes, Shared

LEMMA StoreSound ==
    ASSUME TypeOK, Placed, Closed, NEW t \in T, Store(t)
    PROVE  Placed' /\ Closed'
<1>1. PICK u \in T : ptr' = [ptr EXCEPT ![var[t]] = var[u]]
  BY DEF Store
<1>2. /\ bits' = bits /\ UNCHANGED <<var, finals, ready, active>>
      /\ UNCHANGED <<central, bits, local, out>>
  BY DEF Store, queue
<1>3. Placed'
  BY <1>2, SamePlaced
<1>4. var[t] \in bits /\ var[u] \in bits \cup {None}
  BY DEF Store, Closed, VarsLinked
<1>5. ptr \in [Slots -> Pointers] /\ bits \subseteq Slots
  BY DEF TypeOK
<1>6. \A x \in bits : ptr'[x] = ptr[x] \/ ptr'[x] \in bits \cup {None}
  BY <1>1, <1>4, <1>5
<1>7. OutsClear'
  <2>1. ASSUME NEW v \in T, out[v] # None PROVE ptr'[out[v]] = None
    <3>1. out[v] \notin bits
      BY <2>1, OutNotLinked
    <3>2. ptr[out[v]] = None /\ out[v] \in Slots
      BY <2>1 DEF Closed, OutsClear, TypeOK, Pointers
    <3> QED
      BY <1>1, <1>4, <1>5, <3>1, <3>2
  <2> QED
    BY <1>2, <2>1 DEF OutsClear
<1> QED
  BY <1>2, <1>3, <1>6, <1>7, SameClosed

\* A variable gets what is linked, and nothing else changes.
LEMMA VarClosed ==
    ASSUME TypeOK, Closed, NEW t \in T, NEW p \in bits \cup {None},
           var' = [var EXCEPT ![t] = p],
           UNCHANGED <<bits, out, ptr, finals, ready, active>>
    PROVE  Closed'
<1>1. var \in [T -> Pointers]
  BY DEF TypeOK
<1>2. VarsLinked'
  BY <1>1 DEF Closed, VarsLinked
<1>3. PtrsLinked' /\ OutsClear'
  BY DEF Closed, PtrsLinked, OutsClear
<1>4. RecordsLinked'
  BY DEF Closed, RecordsLinked, RecordLinked, Queued
<1> QED
  BY <1>2, <1>3, <1>4 DEF Closed

LEMMA AssignSound ==
    ASSUME TypeOK, Placed, Closed, NEW t \in T, Assign(t)
    PROVE  Placed' /\ Closed'
<1>1. PICK p \in {var[u] : u \in T \ {t}}
                 \cup (IF var[t] = None THEN {} ELSE {ptr[var[t]]}) :
          var' = [var EXCEPT ![t] = p]
  BY DEF Assign
<1>2. p \in bits \cup {None}
  <2>1. CASE p \in {var[u] : u \in T \ {t}}
    BY <2>1 DEF Closed, VarsLinked
  <2>2. CASE var[t] # None /\ p = ptr[var[t]]
    BY <2>2 DEF Closed, VarsLinked, PtrsLinked
  <2> QED
    BY <1>1, <2>1, <2>2
<1>3. /\ UNCHANGED <<central, bits, local, out>>
      /\ UNCHANGED <<bits, out, ptr, finals, ready, active>>
  BY DEF Assign, queue
<1> QED
  BY <1>1, <1>2, <1>3, VarClosed, SamePlaced

\* Records come from records, or refer to what is linked.
LEMMA RecordsClosed ==
    ASSUME Closed, UNCHANGED <<bits, out, ptr, var>>,
           \A r \in finals' \cup Queued' : r \in finals \cup Queued \/ RecordLinked(r)
    PROVE  Closed'
<1>1. VarsLinked' /\ PtrsLinked' /\ OutsClear'
  BY DEF Closed, VarsLinked, PtrsLinked, OutsClear
<1>2. ASSUME NEW r \in finals' \cup Queued' PROVE RecordLinked(r)'
  <2>1. RecordLinked(r)
    BY DEF Closed, RecordsLinked
  <2> QED
    BY <2>1 DEF RecordLinked
<1> QED
  BY <1>1, <1>2 DEF Closed, RecordsLinked

LEMMA FinalizersSound ==
    ASSUME TypeOK, Placed, Closed,
           \/ \E t \in T : SetFinalizer(t) \/ ClearFinalizer(t)
           \/ StartWorker \/ TakeReady \/ Finalized \/ WorkerExit
    PROVE  Placed' /\ Closed'
<1>1. UNCHANGED <<central, bits, local, out, var, ptr>>
  BY DEF SetFinalizer, ClearFinalizer, StartWorker, TakeReady, Finalized, WorkerExit
<1>2. Placed'
  BY <1>1, SamePlaced
<1>3. ASSUME NEW t \in T, SetFinalizer(t), NEW r \in finals' \cup Queued'
      PROVE  r \in finals \cup Queued \/ RecordLinked(r)
  <2>1. PICK u \in T : finals' = finals \cup {[object |-> var[t], function |-> var[u]]}
    BY <1>3 DEF SetFinalizer
  <2>2. var[t] \in bits /\ ready' = ready /\ active' = active
    BY <1>3 DEF SetFinalizer
  <2>3. RecordLinked([object |-> var[t], function |-> var[u]])
    BY <2>2 DEF Closed, VarsLinked, RecordLinked
  <2> QED
    BY <2>1, <2>2, <2>3 DEF Queued
<1>4. ASSUME NEW t \in T, ClearFinalizer(t) PROVE finals' \cup Queued' \subseteq finals \cup Queued
  BY <1>4 DEF ClearFinalizer, Queued
<1>5. CASE TakeReady
  <2>1. finals' \cup Queued' \subseteq finals \cup Queued
    BY <1>5 DEF TakeReady, Queued
  <2> QED
    BY <1>1, <1>2, <2>1, RecordsClosed
<1>6. CASE StartWorker \/ Finalized \/ WorkerExit
  <2>1. finals' \cup Queued' \subseteq finals \cup Queued
    BY <1>6 DEF StartWorker, Finalized, WorkerExit, Queued
  <2> QED
    BY <1>1, <1>2, <2>1, RecordsClosed
<1> QED
  BY <1>1, <1>2, <1>3, <1>4, <1>5, <1>6, RecordsClosed

LEMMA ResurrectSound ==
    ASSUME TypeOK, Placed, Closed, Resurrect
    PROVE  Placed' /\ Closed'
<1>1. PICK t \in T : var' = [var EXCEPT ![t] = active.object]
  BY DEF Resurrect
<1>2. active.object \in bits
  BY DEF Resurrect, Closed, RecordsLinked, RecordLinked, Queued
<1>3. /\ UNCHANGED <<central, bits, local, out>>
      /\ UNCHANGED <<bits, out, ptr, finals, ready, active>>
  BY DEF Resurrect, queue
<1> QED
  BY <1>1, <1>2, <1>3, VarClosed, SamePlaced

\* A step that moves no slot and changes no pointer.
LEMMA StillSound ==
    ASSUME Placed, Closed, UNCHANGED <<central, bits, local, out, var, ptr, queue>>
    PROVE  Placed' /\ Closed'
  BY SamePlaced DEF Closed, VarsLinked, PtrsLinked, RecordsLinked, RecordLinked,
                    Queued, OutsClear, queue

\* After a chunk is hurt nothing happens.
LEMMA HurtStops == hurt /\ [Next]_vars => hurt'
<1> SUFFICES ASSUME hurt, Next PROVE FALSE
  BY DEF vars, idle
<1>1. \A t \in T : /\ ~At(t, "run") /\ ~At(t, "retry") /\ ~At(t, "fill")
                   /\ ~At(t, "out") /\ ~At(t, "checked") /\ ~At(t, "linking")
                   /\ ~At(t, "second") /\ ~At(t, "again")
  BY DEF At, Runs
<1>2. ~Scheduled
  BY <1>1 DEF Scheduled
<1>3. \A t \in T : ~Link(t)
  BY <1>1 DEF Link
<1>4. \A t \in T : ~Threshold(t)
  BY <1>1 DEF Threshold, Collects
<1> QED
  BY <1>1, <1>2, <1>3, <1>4
  DEF Next, TakeLocal, TakeRefill, Fill, TakeCentral, Allocates, ForceGC,
      SecondGC, LowMemory, NoMemory, NoMemoryAgain, Collects, Panic,
      Store, Assign, StartThread, FreeExact, SetFinalizer, ClearFinalizer,
      StartWorker, TakeReady, Resurrect, Finalized, WorkerExit

LEMMA StepSound == TypeOK /\ Phase /\ Sound /\ [Next]_vars => Sound'
<1> SUFFICES ASSUME TypeOK, Phase, Placed, Closed, [Next]_vars PROVE Sound'
  BY HurtStops DEF Sound
<1> USE DEF Sound
<1>1. CASE UNCHANGED vars
  BY <1>1, StillSound DEF vars, central, queue
<1>2. ASSUME NEW t \in T, TakeLocal(t) PROVE Sound'
  BY <1>2, TakeLocalSound
<1>3. ASSUME NEW t \in T, TakeRefill(t) \/ TakeCentral(t) PROVE Sound'
  BY <1>3, TakeCentralSound
<1>4. ASSUME NEW t \in T, Fill(t) PROVE Sound'
  BY <1>4, FillSound
<1>5. ASSUME NEW t \in T, Link(t) PROVE Sound'
  BY <1>5, LinkSound
<1>6. ASSUME NEW t \in T,
             \/ ForceGC(t) \/ SecondGC(t) \/ LowMemory(t) \/ Threshold(t)
             \/ NoMemory(t) \/ NoMemoryAgain(t)
      PROVE  Sound'
  <2>1. Collect /\ UNCHANGED <<out, var>>
    BY <1>6 DEF ForceGC, SecondGC, LowMemory, Threshold, NoMemory, NoMemoryAgain,
                Collects
  <2> QED
    BY <2>1, CollectsSound
<1>7. ASSUME NEW t \in T, Panic(t) \/ StartThread(t) PROVE Sound'
  BY <1>7, StillSound DEF Panic, StartThread
<1>8. ASSUME NEW t \in T, Store(t) PROVE Sound'
  BY <1>8, StoreSound
<1>9. ASSUME NEW t \in T, Assign(t) PROVE Sound'
  BY <1>9, AssignSound
<1>10. ASSUME NEW t \in T, FreeExact(t) PROVE Sound'
  BY <1>10, FreeExactPlaced, FreeExactClosed
<1>11. CASE \/ \E t \in T : SetFinalizer(t) \/ ClearFinalizer(t)
            \/ StartWorker \/ TakeReady \/ Finalized \/ WorkerExit
  BY <1>11, FinalizersSound
<1>12. CASE Resurrect
  BY <1>12, ResurrectSound
<1> QED
  BY <1>1, <1>2, <1>3, <1>4, <1>5, <1>6, <1>7, <1>8, <1>9, <1>10, <1>11, <1>12
  DEF Next

LEMMA InitSound == Init => Sound
<1> SUFFICES ASSUME Init PROVE Closed
  BY InitPlaced DEF Sound
<1> QED
  BY DEF Init, Closed, VarsLinked, PtrsLinked, RecordsLinked, Queued, OutsClear

\* The strengthening of the properties below: a slot is described by one kind
\* and one thread, what is in use refers to linked objects, and a thread that
\* has taken a slot is between the two steps of an allocation.
THEOREM HeapInvariant == Spec => []IndInv
<1>1. Init => IndInv
  BY InitTypes, InitPhase, InitSound DEF IndInv
<1>2. IndInv /\ [Next]_vars => IndInv'
  BY StepTypes, StepPhase, StepWanted, StepSound DEF IndInv
<1> QED
  BY <1>1, <1>2, PTL DEF Spec

-----------------------------------------------------------------------------
(***************************************************************************)
(* The theorems                                                            *)
(***************************************************************************)

\* TypeOK: the state keeps its shape.
THEOREM HeapTypes == Spec => []TypeOK
<1>1. IndInv => TypeOK
  BY DEF IndInv
<1> QED
  BY <1>1, HeapInvariant, PTL

\* While a finalizer waits, the worker runs or the scheduler knows that it has
\* to start it.
THEOREM FinalizersKnown == Spec => []FinalizersWanted
<1>1. IndInv => FinalizersWanted
  BY DEF IndInv
<1> QED
  BY <1>1, HeapInvariant, PTL

\* The descriptions of a slot's place say the same.
LEMMA DescribedOnce ==
    ASSUME NEW kind, NEW by, Describes(kind, by), NEW s \in Slots
    PROVE  \E p : Places(s) = {p}
<1>1. /\ kind \in [Slots -> Kinds] /\ by \in [Slots -> T]
      /\ Shared(kind, s) /\ Owned(kind, by, s)
  BY DEF Describes
<1> DEFINE inHeap == {<<"heap", h>> : h \in {h \in DOMAIN Homes : s \in Homes[h]}}
           inLocal == {<<"local", t>> : t \in {t \in T : s \in local[t]}}
           inOut == {<<"out", t>> : t \in {t \in T : s = out[t]}}
<1>2. Places(s) = inHeap \cup inLocal \cup inOut
  BY DEF Places
<1>3. \A h \in DOMAIN Homes : s \in Homes[h] <=> h = kind[s]
  <2>1. DOMAIN Homes = {"list", "tail", "live", "empty", "unmapped"}
    BY DEF Homes
  <2>2. /\ Homes["list"] = list /\ Homes["tail"] = tail
        /\ Homes["live"] = bits /\ Homes["empty"] = UNION empty
        /\ Homes["unmapped"] = UNION (Chunks \ chunks)
    BY DEF Homes
  <2>3. /\ s \in UNION empty <=> kind[s] = "empty"
        /\ s \in UNION (Chunks \ chunks) <=> kind[s] = "unmapped"
        /\ s \in list <=> kind[s] = "list"
        /\ s \in tail <=> kind[s] = "tail"
        /\ s \in bits <=> kind[s] = "live"
    BY <1>1 DEF Shared
  <2> QED
    BY <2>1, <2>2, <2>3
<1>4. \A t \in T : /\ s \in local[t] <=> kind[s] = "local" /\ by[s] = t
                   /\ s = out[t] <=> kind[s] = "out" /\ by[s] = t
  BY <1>1 DEF Owned
<1>5. kind[s] \in Kinds /\ by[s] \in T
  BY <1>1
<1>6. DOMAIN Homes = {"list", "tail", "live", "empty", "unmapped"}
  BY DEF Homes
<1>7. CASE kind[s] = "local"
  <2>1. inHeap = {} /\ inOut = {} /\ inLocal = {<<"local", by[s]>>}
    BY <1>3, <1>4, <1>5, <1>6, <1>7
  <2> HIDE DEF inHeap, inOut, inLocal
  <2> QED
    BY <1>2, <2>1
<1>8. CASE kind[s] = "out"
  <2>1. inHeap = {} /\ inLocal = {} /\ inOut = {<<"out", by[s]>>}
    BY <1>3, <1>4, <1>5, <1>6, <1>8
  <2> HIDE DEF inHeap, inOut, inLocal
  <2> QED
    BY <1>2, <2>1
<1>9. CASE kind[s] \in DOMAIN Homes
  <2>1. inLocal = {} /\ inOut = {}
    BY <1>4, <1>6, <1>9
  <2>2. inHeap = {<<"heap", kind[s]>>}
    BY <1>3, <1>9
  <2> HIDE DEF inHeap, inOut, inLocal
  <2> QED
    BY <1>2, <2>1, <2>2
<1> QED
  BY <1>5, <1>6, <1>7, <1>8, <1>9 DEF Kinds

\* OnePlace: whatever collections, threads and frees do, a slot is in exactly
\* one list, cache, chunk or hand, until a collection makes a chunk empty under
\* a slot that is taken.
THEOREM SlotsOnePlace == Spec => []OnePlace
<1>1. IndInv => OnePlace
  <2> SUFFICES ASSUME IndInv, ~hurt, NEW s \in Slots
               PROVE  Cardinality(Places(s)) = 1
    BY DEF OnePlace
  <2>1. PICK kind, by : Describes(kind, by)
    BY DEF IndInv, Sound, Placed
  <2>2. PICK p : Places(s) = {p}
    BY <2>1, DescribedOnce
  <2> QED
    BY <2>2, FS_Singleton
<1> QED
  BY <1>1, HeapInvariant, PTL

\* LiveKept: what the program may use, and what it refers to, is linked.
THEOREM LiveObjects == Spec => []LiveKept
<1>1. IndInv => LiveKept
  <2> SUFFICES ASSUME TypeOK, Closed
               PROVE  Reach(Held \cup {r.object : r \in finals}) \subseteq bits
    BY DEF IndInv, Sound, LiveKept
  <2>1. (Held \cup {r.object : r \in finals}) \ {None} \subseteq bits
    BY DEF Held, Closed, VarsLinked, RecordsLinked, RecordLinked
  <2>2. {ptr[x] : x \in bits} \ {None} \subseteq bits
    BY DEF Closed, PtrsLinked
  <2>3. bits \in SUBSET Slots
    BY DEF TypeOK
  <2> QED
    BY <2>1, <2>2, <2>3 DEF Reach
<1> QED
  BY <1>1, HeapInvariant, PTL

\* What is needed, apart from the objects that have finalizers themselves, is
\* traced by a collection.
LEMMA NeededTraced == ASSUME TypeOK, Closed PROVE Needed \subseteq Traced
<1>1. Held \ {None} \subseteq Traced
  <2>1. ASSUME NEW t \in T, var[t] # None PROVE var[t] \in Traced
    <3>1. var[t] \in Roots \cap bits
      BY <2>1 DEF Closed, VarsLinked, Roots
    <3> QED
      BY <3>1, TracedRoots
  <2>2. ASSUME NEW r \in finals \cup Queued
        PROVE  /\ r.function # None => r.function \in Traced
               /\ r \in Queued => r.object \in Traced
    BY RecordsKept
  <2> QED
    BY <2>1, <2>2 DEF Held
<1>2. {ptr[r.object] : r \in finals} \ {None} \subseteq Traced
  <2> SUFFICES ASSUME NEW r \in finals, ptr[r.object] # None
               PROVE  ptr[r.object] \in Traced
    OBVIOUS
  <2>1. r.object \in bits /\ ptr[r.object] \in bits
    BY DEF Closed, RecordsLinked, RecordLinked, PtrsLinked
  <2> QED
    BY <2>1, TracedUsed
<1>3. {ptr[x] : x \in Traced} \ {None} \subseteq Traced
  BY KeptClosed DEF Kept
<1>4. Traced \in SUBSET Slots
  BY TracedLinked DEF TypeOK
<1> QED
  BY <1>1, <1>2, <1>3, <1>4 DEF Needed, Reach

\* Only a collection queues finalizers.
LEMMA QueuesCollect ==
    ASSUME [Next]_vars, ~(ready' \subseteq ready)
    PROVE  Collect
<1>1. ASSUME NEW t \in T, NEW p, NEW q, Collects(t, p, q) PROVE Collect
  BY <1>1 DEF Collects
<1>2. ASSUME NEW t \in T,
             \/ ForceGC(t) \/ SecondGC(t) \/ LowMemory(t) \/ Threshold(t)
             \/ NoMemory(t) \/ NoMemoryAgain(t)
      PROVE  Collect
  BY <1>1, <1>2
  DEF ForceGC, SecondGC, LowMemory, Threshold, NoMemory, NoMemoryAgain
<1>3. ASSUME NEW t \in T,
             \/ TakeLocal(t) \/ TakeRefill(t) \/ Fill(t) \/ TakeCentral(t)
             \/ Link(t) \/ Panic(t)
             \/ Store(t) \/ Assign(t) \/ StartThread(t) \/ FreeExact(t)
             \/ SetFinalizer(t) \/ ClearFinalizer(t)
      PROVE  ready' = ready
  BY <1>3 DEF TakeLocal, TakeRefill, Fill, TakeCentral, Link, Panic, queue,
              Store, Assign, StartThread, FreeExact, SetFinalizer, ClearFinalizer
<1>4. CASE StartWorker \/ TakeReady \/ Resurrect \/ Finalized \/ WorkerExit
  BY <1>4 DEF StartWorker, TakeReady, Resurrect, Finalized, WorkerExit, queue
<1>5. CASE UNCHANGED vars
  BY <1>5 DEF vars, queue
<1> QED
  BY <1>2, <1>3, <1>4, <1>5 DEF Next

\* FinalizedInOrder: a finalizer is queued only for an object that neither the
\* program nor another object with a finalizer reaches.
THEOREM FinalizersInOrder == Spec => FinalizedInOrder
<1> DEFINE A == hurt' \/ \A r \in ready' \ ready : r.object \notin Needed
<1>1. IndInv /\ [Next]_vars => [A]_vars
  <2> SUFFICES ASSUME IndInv, [Next]_vars, ~hurt', NEW r \in ready' \ ready
               PROVE  r.object \notin Needed
    OBVIOUS
  <2>1. TypeOK /\ Closed
    BY HurtStops DEF IndInv, Sound
  <2>2. Collect
    BY QueuesCollect
  <2>3. r \in Candidates(Traced)
    BY <2>2 DEF Collect
  <2> QED
    BY <2>1, <2>3, NeededTraced DEF Candidates
<1> QED
  BY <1>1, HeapInvariant, PTL DEF Spec, FinalizedInOrder

\* What is kept can be reached after the collection, from what the program may
\* use or from what has a finalizer.
LEMMA KeptNeeded ==
    ASSUME TypeOK, Closed, Collect, UNCHANGED <<out, var>>
    PROVE  Kept \subseteq Needed'
<1>1. /\ ptr' = [s \in Slots |-> IF s \in Swept(Kept) THEN None ELSE ptr[s]]
      /\ finals' = finals \ Candidates(Traced)
      /\ ready' = ready \cup Candidates(Traced)
      /\ active' = active /\ var' = var
  BY DEF Collect, Kept
<1>2. Kept \subseteq bits /\ bits \subseteq Slots
  BY KeptLinked DEF TypeOK
<1>3. \A x \in Kept : ptr'[x] = ptr[x]
  BY <1>1, <1>2 DEF Swept
<1> SUFFICES ASSUME NEW S \in SUBSET Slots,
                    (Held' \cup {ptr'[r.object] : r \in finals'}) \ {None} \subseteq S,
                    {ptr'[x] : x \in S} \ {None} \subseteq S
             PROVE  Kept \subseteq S
  BY <1>2 DEF Needed, Reach
<1>4. None \notin bits /\ \A r \in finals \cup Queued : r.object \in Slots
  BY HeapAssumption DEF TypeOK, Records, Queued
<1>5. \A r \in Candidates(Traced) : r.object \in S \cap Kept
  <2> SUFFICES ASSUME NEW r \in Candidates(Traced) PROVE r.object \in S \cap Kept
    OBVIOUS
  <2>1. r \in finals /\ r \in Queued'
    BY <1>1 DEF Candidates, Queued
  <2>2. r.object \in Held'
    BY <2>1 DEF Held
  <2>3. r.object # None
    BY <1>4, <2>1, HeapAssumption
  <2> QED
    BY <2>2, <2>3 DEF Kept
<1>6. ASSUME NEW x \in S \cap Kept, ptr[x] # None PROVE ptr[x] \in S \cap Kept
  <2>1. ptr[x] \in Kept
    BY <1>6, KeptClosed DEF Kept
  <2>2. ptr'[x] \in S
    BY <1>3, <1>6
  <2> QED
    BY <1>3, <2>1, <2>2
<1>7. Roots \cap bits \subseteq S \cap Kept
  <2>1. Roots \cap bits \subseteq Kept
    BY TracedRoots DEF Kept
  <2>2. Queued \subseteq Queued' /\ finals \subseteq finals' \cup Queued'
    BY <1>1 DEF Queued
  <2>3. ASSUME NEW x \in Roots, x \in bits PROVE x \in Held'
    <3>1. CASE x \in {var[t] : t \in T}
      BY <1>1, <3>1 DEF Held
    <3>2. CASE x \in {r.function : r \in finals}
      BY <2>2, <3>2 DEF Held
    <3>3. CASE x \in UNION {Fields(r) : r \in Queued}
      BY <2>2, <3>3 DEF Held, Fields
    <3>4. FinalizerRoots =
            {r.function : r \in finals} \cup (UNION {Fields(r) : r \in Queued})
      <4>1. UNION {Fields(r) : r \in Queued} =
              (UNION {Fields(r) : r \in ready})
              \cup (IF active = None THEN {} ELSE Fields(active))
        BY DEF Queued
      <4> QED
        BY <4>1 DEF FinalizerRoots
    <3> QED
      BY <2>3, <3>1, <3>2, <3>3, <3>4 DEF Roots
  <2> QED
    BY <1>4, <2>1, <2>3
<1>8. ASSUME NEW r \in finals, ptr[r.object] \in bits
      PROVE  ptr[r.object] \in S \cap Kept
  <2>1. r.object \in Kept /\ ptr[r.object] # None
    BY <1>4, <1>8, RecordsKept
  <2>2. CASE r \in finals'
    <3>1. ptr'[r.object] \in S
      BY <1>3, <2>1, <2>2
    <3>2. ptr[r.object] \in Kept
      BY <2>1, KeptClosed DEF Kept
    <3> QED
      BY <1>3, <2>1, <3>1, <3>2
  <2>3. CASE r \in Candidates(Traced)
    BY <1>5, <1>6, <2>1, <2>3
  <2> QED
    BY <1>1, <2>2, <2>3
<1>9. ASSUME NEW R, R \cap bits \subseteq S \cap Kept
      PROVE  Mark(R) \subseteq S
  <2>1. Found({ptr[x] : x \in S \cap Kept}) \subseteq S \cap Kept
    BY <1>4, <1>6 DEF Found
  <2>2. S \cap Kept \in SUBSET bits
    BY <1>2
  <2>3. Found(R) \subseteq S \cap Kept
    BY <1>9 DEF Found
  <2> HIDE DEF Found
  <2> QED
    BY <2>1, <2>2, <2>3 DEF Mark
<1>10. Traced \subseteq S
  <2> DEFINE dying == {r \in finals : r.object \in bits \ Mark(Roots)}
             used == {ptr[r.object] : r \in dying}
  <2>1. Traced = Mark(Roots) \cup Mark(used)
    BY DEF Traced
  <2>2. used \cap bits \subseteq S \cap Kept
    BY <1>8
  <2> HIDE DEF used
  <2> QED
    BY <1>7, <1>9, <2>1, <2>2
<1> QED
  BY <1>5, <1>10 DEF Kept

\* Only the second collection of runtime.GC ends it.
LEMMA SecondEnds ==
    ASSUME TypeOK, [Next]_vars, NEW t \in T, pc[t] = "second", pc'[t] = "run"
    PROVE  SecondGC(t)
<1>1. ASSUME NEW u \in T, NEW p, NEW q, pc[u] = p, Goto(u, q), p # "second"
      PROVE  FALSE
  BY <1>1 DEF Goto, TypeOK
<1>2. ASSUME NEW u \in T, NEW p, NEW q, Collects(u, p, q), p # "second"
      PROVE  FALSE
  BY <1>1, <1>2 DEF Collects, At
<1>3. ASSUME NEW u \in T,
             \/ ForceGC(u) \/ LowMemory(u) \/ Threshold(u)
             \/ NoMemory(u) \/ NoMemoryAgain(u)
      PROVE  FALSE
  BY <1>2, <1>3 DEF ForceGC, LowMemory, Threshold, NoMemory, NoMemoryAgain
<1>4. ASSUME NEW u \in T, SecondGC(u) PROVE u = t
  BY <1>4 DEF SecondGC, Collects, Goto, TypeOK
<1>5. ASSUME NEW u \in T,
             TakeLocal(u) \/ TakeRefill(u) \/ Fill(u) \/ TakeCentral(u)
      PROVE  FALSE
  <2>1. pc[u] # "second"
    BY <1>5 DEF TakeLocal, TakeRefill, Fill, TakeCentral, Allocates, At
  <2>2. pc' = pc \/ \E q : Goto(u, q)
    BY <1>5 DEF TakeLocal, TakeRefill, Fill, TakeCentral, Takes
  <2> QED
    BY <1>1, <2>1, <2>2
<1>6. ASSUME NEW u \in T, Link(u) \/ Panic(u) PROVE FALSE
  <2>1. pc[u] # "second" /\ Goto(u, "run")
    BY <1>6 DEF Link, Panic, At
  <2> QED
    BY <1>1, <2>1
<1>7. ASSUME NEW u \in T,
             \/ Store(u) \/ Assign(u) \/ StartThread(u) \/ FreeExact(u)
             \/ SetFinalizer(u) \/ ClearFinalizer(u)
      PROVE  pc' = pc
  BY <1>7 DEF Store, Assign, StartThread, FreeExact, SetFinalizer, ClearFinalizer
<1>8. CASE StartWorker \/ TakeReady \/ Resurrect \/ Finalized \/ WorkerExit
  BY <1>8 DEF StartWorker, TakeReady, Resurrect, Finalized, WorkerExit
<1>9. CASE UNCHANGED vars
  BY <1>9 DEF vars
<1> QED
  BY <1>3, <1>4, <1>5, <1>6, <1>7, <1>8, <1>9 DEF Next

\* GarbageGone: what is linked when runtime.GC is done can be reached.
THEOREM NoGarbage == Spec => GarbageGone
<1> DEFINE A == \A t \in T : pc[t] = "second" /\ pc'[t] = "run"
                             => bits' \subseteq Needed'
<1>1. IndInv /\ [Next]_vars => [A]_vars
  <2> SUFFICES ASSUME IndInv, [Next]_vars, NEW t \in T,
                      pc[t] = "second", pc'[t] = "run"
               PROVE  bits' \subseteq Needed'
    OBVIOUS
  <2>1. SecondGC(t)
    BY SecondEnds DEF IndInv
  <2>2. ~hurt /\ Collect /\ UNCHANGED <<out, var>>
    BY <2>1 DEF SecondGC, Collects, At, Runs
  <2>3. TypeOK /\ Closed
    BY <2>2 DEF IndInv, Sound
  <2>4. bits' = Kept
    BY <2>2 DEF Collect, Kept
  <2> QED
    BY <2>2, <2>3, <2>4, KeptNeeded
<1> QED
  BY <1>1, HeapInvariant, PTL DEF Spec, GarbageGone
=============================================================================
