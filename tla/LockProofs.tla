------------------------------ MODULE LockProofs ------------------------------
(***************************************************************************)
(* Proofs about Sema, for every number of goroutines and of addresses: no  *)
(* release is lost, no wait record outlives its wait, and every step is    *)
(* one that AbsSema allows; and about StopWorld, for every finite set of   *)
(* threads: its types, that only one thread stops the world, and that the  *)
(* others wait meanwhile.                                                  *)
(***************************************************************************)
EXTENDS Sema, StopWorld, QueueLemmas, FiniteSetTheorems

-----------------------------------------------------------------------------
(***************************************************************************)
(* The inductive invariant                                                 *)
(***************************************************************************)
Queued(g) == \E i \in DOMAIN queue : queue[i] = g
Distinct(q) == \A i, j \in DOMAIN q : q[i] = q[j] => i = j

\* A call in progress is about an address; only a goroutine locks, parks and is
\* woken; the register of a release is full from the unlinking to the ready.
CallStates ==
    \A c \in callers :
        /\ pc[c] = "idle" <=> address[c] = None
        /\ pc[c] \in {"lock", "parked", "woken"} => c \in G
        /\ pc[c] = "ready" <=> waiter[c] # None

\* A linked record waits: nobody has unlinked it or handed it a token.
LinkedWaits ==
    /\ Distinct(queue)
    /\ \A g \in G : Queued(g) => pc[g] = "parked" /\ ~Unlinked(g) /\ ~ticket[g]

\* An unlinked record waits for the release that unlinked it, and no other.
UnlinkedWaits ==
    \A c \in callers :
        waiter[c] # None =>
            /\ pc[waiter[c]] = "parked"
            /\ \A d \in callers : waiter[c] = waiter[d] => c = d

Control == TypeOK /\ CallStates /\ LinkedWaits /\ UnlinkedWaits

Covered(a) == QueuedFor(a) # {} => value[a] <= Cardinality(Noticing(a))

IndInv == Control /\ \A a \in A : Covered(a)

-----------------------------------------------------------------------------
(***************************************************************************)
(* Finite sets                                                             *)
(***************************************************************************)
LEMMA CardLess ==
    ASSUME NEW S, NEW R, NEW x, IsFiniteSet(R), S \subseteq R \cup {x}
    PROVE  IsFiniteSet(S) /\ Cardinality(S) <= Cardinality(R) + 1
<1>1. /\ IsFiniteSet(R \cup {x})
      /\ Cardinality(R \cup {x}) <= Cardinality(R) + 1
      /\ Cardinality(R) \in Nat /\ Cardinality(R \cup {x}) \in Nat
  BY FS_AddElement, FS_CardinalityType
<1>2. /\ IsFiniteSet(S) /\ Cardinality(S) <= Cardinality(R \cup {x})
      /\ Cardinality(S) \in Nat
  BY <1>1, FS_Subset, FS_CardinalityType
<1> QED
  BY <1>1, <1>2

LEMMA CardMore ==
    ASSUME NEW S, NEW R, NEW x, IsFiniteSet(R),
           S \subseteq R, x \in R, x \notin S
    PROVE  IsFiniteSet(S) /\ Cardinality(S) + 1 <= Cardinality(R)
<1>1. IsFiniteSet(S) /\ Cardinality(S) \in Nat
  BY FS_Subset, FS_CardinalityType
<1>2. Cardinality(S \cup {x}) = Cardinality(S) + 1
  BY <1>1, FS_AddElement
<1>3. Cardinality(S \cup {x}) <= Cardinality(R)
  BY FS_Subset
<1> QED
  BY <1>1, <1>2, <1>3

LEMMA CardSwap ==
    ASSUME NEW S, NEW R, NEW x, NEW y, IsFiniteSet(R),
           S \subseteq R \cup {x}, y \in R, y \notin S
    PROVE  IsFiniteSet(S) /\ Cardinality(S) <= Cardinality(R)
<1>1. /\ IsFiniteSet(R \ {y})
      /\ Cardinality(R \ {y}) = Cardinality(R) - 1
      /\ Cardinality(R) \in Nat
  BY FS_RemoveElement, FS_CardinalityType
<1>2. S \subseteq (R \ {y}) \cup {x}
  OBVIOUS
<1>3. IsFiniteSet(S) /\ Cardinality(S) <= Cardinality(R \ {y}) + 1
  BY <1>1, <1>2, CardLess
<1> QED
  BY <1>1, <1>3

-----------------------------------------------------------------------------
(***************************************************************************)
(* What a step may do to the tokens of an address                          *)
(***************************************************************************)
LEMMA NoticingFinite ==
    \A a : IsFiniteSet(Noticing(a)) /\ IsFiniteSet(Noticing(a)')
<1>1. IsFiniteSet(callers)
  BY SemaAssumption, FS_Union DEF callers
<1>2. \A a : Noticing(a) \subseteq callers /\ Noticing(a)' \subseteq callers
  BY DEF Noticing
<1> QED
  BY <1>1, <1>2, FS_Subset

\* Nobody queues, nobody stops noticing, no token is added.
LEMMA CoverKept ==
    ASSUME NEW a \in A, TypeOK, TypeOK', Covered(a), value'[a] <= value[a],
           QueuedFor(a)' \subseteq QueuedFor(a),
           Noticing(a) \subseteq Noticing(a)'
    PROVE  Covered(a)'
<1>1. /\ Cardinality(Noticing(a)) <= Cardinality(Noticing(a)')
      /\ Cardinality(Noticing(a)) \in Nat /\ Cardinality(Noticing(a)') \in Nat
  BY NoticingFinite, FS_Subset, FS_CardinalityType
<1>2. value[a] \in Nat /\ value'[a] \in Nat
  BY DEF TypeOK
<1> QED
  BY <1>1, <1>2 DEF Covered

\* Somebody who noticed a token takes it.
LEMMA CoverTaken ==
    ASSUME NEW a \in A, NEW x, TypeOK, Covered(a), value[a] > 0,
           value'[a] = value[a] - 1,
           QueuedFor(a)' \subseteq QueuedFor(a),
           Noticing(a) \subseteq Noticing(a)' \cup {x}
    PROVE  Covered(a)'
<1>1. /\ Cardinality(Noticing(a)) <= Cardinality(Noticing(a)') + 1
      /\ Cardinality(Noticing(a)) \in Nat /\ Cardinality(Noticing(a)') \in Nat
  BY NoticingFinite, CardLess, FS_CardinalityType
<1>2. value[a] \in Nat
  BY DEF TypeOK
<1> QED
  BY <1>1, <1>2 DEF Covered

\* A release adds a token and will notice it.
LEMMA CoverPosted ==
    ASSUME NEW a \in A, NEW x, TypeOK, Covered(a), value'[a] = value[a] + 1,
           QueuedFor(a)' \subseteq QueuedFor(a),
           Noticing(a) \subseteq Noticing(a)',
           x \in Noticing(a)', x \notin Noticing(a)
    PROVE  Covered(a)'
<1>1. /\ Cardinality(Noticing(a)) + 1 <= Cardinality(Noticing(a)')
      /\ Cardinality(Noticing(a)) \in Nat /\ Cardinality(Noticing(a)') \in Nat
  BY NoticingFinite, CardMore, FS_CardinalityType
<1>2. value[a] \in Nat
  BY DEF TypeOK
<1> QED
  BY <1>1, <1>2 DEF Covered

\* A release passes what it noticed on to a waiter.
LEMMA CoverPassed ==
    ASSUME NEW a \in A, NEW x, NEW y, TypeOK, Covered(a),
           value'[a] = value[a],
           QueuedFor(a)' \subseteq QueuedFor(a),
           Noticing(a) \subseteq Noticing(a)' \cup {x},
           y \in Noticing(a)', y \notin Noticing(a)
    PROVE  Covered(a)'
<1>1. /\ Cardinality(Noticing(a)) <= Cardinality(Noticing(a)')
      /\ Cardinality(Noticing(a)) \in Nat /\ Cardinality(Noticing(a)') \in Nat
  BY NoticingFinite, CardSwap, FS_CardinalityType
<1>2. value[a] \in Nat
  BY DEF TypeOK
<1> QED
  BY <1>1, <1>2 DEF Covered

\* Nobody is queued, or there is no token.
LEMMA CoverEmpty ==
    ASSUME NEW a \in A, QueuedFor(a)' = {} \/ value'[a] = 0
    PROVE  Covered(a)'
<1>1. Cardinality(Noticing(a)') \in Nat
  BY NoticingFinite, FS_CardinalityType
<1> QED
  BY <1>1 DEF Covered

-----------------------------------------------------------------------------
(***************************************************************************)
(* Steps that move one caller and leave the wait records alone             *)
(***************************************************************************)
Moves(c) ==
    /\ UNCHANGED <<queue, ticket, waiter>>
    /\ \A d \in callers \ {c} : pc'[d] = pc[d] /\ address'[d] = address[d]
    /\ pc[c] \notin {"parked", "ready"} /\ pc'[c] \notin {"parked", "ready"}
    /\ pc'[c] = "idle" <=> address'[c] = None
    /\ pc'[c] \in {"lock", "woken"} => c \in G

LEMMA MoveControl ==
    ASSUME Control, TypeOK', NEW c \in callers, Moves(c)
    PROVE  Control'
<1>1. CallStates'
  <2> SUFFICES ASSUME NEW d \in callers
      PROVE  /\ pc'[d] = "idle" <=> address'[d] = None
             /\ pc'[d] \in {"lock", "parked", "woken"} => d \in G
             /\ pc'[d] = "ready" <=> waiter'[d] # None
    BY DEF CallStates
  <2>1. /\ pc[d] = "idle" <=> address[d] = None
        /\ pc[d] \in {"lock", "parked", "woken"} => d \in G
        /\ pc[d] = "ready" <=> waiter[d] # None
    BY DEF Control, CallStates
  <2>2. CASE d = c
    BY <2>1, <2>2 DEF Moves
  <2>3. CASE d # c
    BY <2>1, <2>3 DEF Moves
  <2> QED
    BY <2>2, <2>3
<1>2. LinkedWaits'
  <2>1. Distinct(queue')
    BY DEF Control, LinkedWaits, Moves
  <2>2. ASSUME NEW g \in G, Queued(g)'
        PROVE  pc'[g] = "parked" /\ ~Unlinked(g)' /\ ~ticket'[g]
    <3>1. pc[g] = "parked" /\ ~Unlinked(g) /\ ~ticket[g]
      BY <2>2 DEF Control, LinkedWaits, Moves, Queued
    <3>2. g \in callers \ {c}
      BY <3>1 DEF Moves, callers
    <3> QED
      BY <3>1, <3>2 DEF Moves, Unlinked
  <2> QED
    BY <2>1, <2>2 DEF LinkedWaits
<1>3. UnlinkedWaits'
  <2> SUFFICES ASSUME NEW d \in callers, waiter'[d] # None
      PROVE  /\ pc'[waiter'[d]] = "parked"
             /\ \A e \in callers : waiter'[d] = waiter'[e] => d = e
    BY DEF UnlinkedWaits
  <2>1. waiter' = waiter /\ waiter[d] \in G
    BY DEF Control, TypeOK, Moves
  <2>2. /\ pc[waiter[d]] = "parked"
        /\ \A e \in callers : waiter[d] = waiter[e] => d = e
    BY <2>1 DEF Control, UnlinkedWaits
  <2>3. waiter[d] \in callers \ {c}
    BY <2>1, <2>2 DEF Moves, callers
  <2> QED
    BY <2>1, <2>2, <2>3 DEF Moves
<1> QED
  BY <1>1, <1>2, <1>3 DEF Control

LEMMA MoveCover ==
    ASSUME Control, NEW c \in callers, Moves(c), NEW b
    PROVE  /\ QueuedFor(b)' = QueuedFor(b)
           /\ Noticing(b) \subseteq Noticing(b)' \cup {c}
           /\ Noticing(b)' \subseteq Noticing(b) \cup {c}
<1>1. \A g \in G : Queued(g) => g \in callers \ {c}
  BY DEF Control, LinkedWaits, Moves, callers
<1>2. QueuedFor(b)' = QueuedFor(b)
  BY <1>1 DEF QueuedFor, Queued, Moves
<1>3. \A d \in callers \ {c} : d \in Noticing(b)' <=> d \in Noticing(b)
  BY DEF Noticing, Unlinked, Moves
<1> QED
  BY <1>2, <1>3 DEF Noticing

\* A move that leaves every Noticing set alone and adds no token.
LEMMA QuietMove ==
    ASSUME IndInv, TypeOK', NEW c \in callers, Moves(c),
           pc[c] \notin {"release", "woken"},
           \A b \in A : value'[b] <= value[b]
    PROVE  IndInv'
<1>1. Control'
  BY MoveControl DEF IndInv
<1>2. ASSUME NEW b \in A
      PROVE  Covered(b)'
  <2>1. /\ QueuedFor(b)' = QueuedFor(b)
        /\ Noticing(b) \subseteq Noticing(b)' \cup {c}
    BY MoveCover DEF IndInv
  <2>2. c \notin Noticing(b)
    BY DEF Noticing, Moves
  <2> QED
    BY <2>1, <2>2, CoverKept DEF IndInv, Control
<1> QED
  BY <1>1, <1>2 DEF IndInv

\* The address of a call in progress.
LEMMA CallAddress ==
    ASSUME Control, NEW c \in callers, pc[c] # "idle"
    PROVE  address[c] \in A
BY DEF Control, TypeOK, CallStates

\* Taking a token keeps the types and adds none.
LEMMA TakeTypes ==
    ASSUME TypeOK, NEW a \in A, value[a] > 0, TakeToken(a)
    PROVE  /\ value' \in [A -> Nat] /\ value'[a] = value[a] - 1
           /\ \A b \in A : b # a => value'[b] = value[b]
           /\ \A b \in A : value'[b] <= value[b]
BY DEF TypeOK, TakeToken

LEMMA FinishMoves ==
    ASSUME TypeOK, NEW c \in callers, Finish(c),
           UNCHANGED <<queue, ticket, waiter>>,
           pc[c] \notin {"parked", "ready"}
    PROVE  /\ Moves(c)
           /\ pc' \in [callers -> PCs]
           /\ address' \in [callers -> A \cup {None}]
BY SemaAssumption DEF TypeOK, PCs, Finish, Goto, Moves

LEMMA SemAcquireStep ==
    ASSUME IndInv, NEW c \in callers, NEW a \in A, SemAcquire(c, a)
    PROVE  IndInv'
<1>1. TypeOK' /\ Moves(c) /\ pc[c] = "idle"
  BY SemaAssumption
     DEF IndInv, Control, TypeOK, PCs, SemAcquire, Goto, Moves
<1>2. \A b \in A : value'[b] <= value[b]
  BY DEF IndInv, Control, TypeOK, SemAcquire
<1> QED
  BY <1>1, <1>2, QuietMove

LEMMA AcquireFastStep ==
    ASSUME IndInv, NEW c \in callers, AcquireFast(c)
    PROVE  IndInv'
<1> USE DEF AcquireFast, CanAcquire
<1>1. TypeOK /\ address[c] \in A /\ pc[c] = "try"
  BY CallAddress DEF IndInv, Control
<1>2. CASE CanAcquire(c)
  <2>1. /\ value' \in [A -> Nat]
        /\ \A b \in A : value'[b] <= value[b]
    BY <1>1, <1>2, TakeTypes
  <2>2. TypeOK' /\ Moves(c)
    BY <1>1, <1>2, <2>1, FinishMoves DEF TypeOK
  <2> QED
    BY <1>1, <2>1, <2>2, QuietMove
<1>3. CASE ~CanAcquire(c)
  <2>1. TypeOK' /\ Moves(c)
    BY <1>1, <1>3, SemaAssumption DEF TypeOK, PCs, Goto, Moves
  <2>2. \A b \in A : value'[b] <= value[b]
    BY <1>1, <1>3 DEF TypeOK
  <2> QED
    BY <1>1, <2>1, <2>2, QuietMove
<1> QED
  BY <1>2, <1>3

LEMMA AcquireSpinStep ==
    ASSUME IndInv, NEW c \in callers, AcquireSpin(c)
    PROVE  IndInv'
<1> USE DEF AcquireSpin, CanAcquire
<1>1. TypeOK /\ address[c] \in A /\ pc[c] = "spin"
  BY CallAddress DEF IndInv, Control
<1>2. /\ value' \in [A -> Nat]
      /\ \A b \in A : value'[b] <= value[b]
  BY <1>1, TakeTypes
<1>3. TypeOK' /\ Moves(c)
  BY <1>1, <1>2, FinishMoves DEF TypeOK
<1> QED
  BY <1>1, <1>2, <1>3, QuietMove

\* The queue with one more record, last or first.
LEMMA Enqueued ==
    ASSUME TypeOK, Distinct(queue), NEW g \in G, ~Queued(g),
           NEW lifo \in BOOLEAN,
           queue' = IF lifo THEN <<g>> \o queue ELSE Append(queue, g)
    PROVE  /\ queue' \in Seq(G) /\ Distinct(queue')
           /\ \A h : Queued(h)' <=> Queued(h) \/ h = g
<1>1. /\ queue \in Seq(G)
      /\ \A j, k \in DOMAIN queue : queue[j] = queue[k] => j = k
      /\ \A j \in DOMAIN queue : queue[j] # g
  BY DEF TypeOK, Distinct, Queued
<1> DEFINE gains(r) == /\ r \in Seq(G)
                       /\ \A j, k \in DOMAIN r : r[j] = r[k] => j = k
                       /\ \A h : (\E j \in DOMAIN r : r[j] = h)
                                    <=> Queued(h) \/ h = g
<1>2. gains(<<g>> \o queue)
  BY <1>1, PrependedQueue, ZenonT(60) DEF Queued
<1>3. gains(Append(queue, g))
  BY <1>1, AppendedQueue, ZenonT(60) DEF Queued
<1>4. queue' = <<g>> \o queue \/ queue' = Append(queue, g)
  OBVIOUS
<1>5. gains(queue')
  <2> HIDE DEF gains
  <2> QED
    BY <1>2, <1>3, <1>4, Zenon
<1> QED
  BY <1>5, Zenon DEF Distinct, Queued

LEMMA ParkStep ==
    ASSUME IndInv, NEW g \in G, NEW lifo \in BOOLEAN, AcquireLocked(g, lifo),
           ~CanAcquire(g)
    PROVE  IndInv'
<1> USE DEF AcquireLocked, CanAcquire
<1>1. /\ TypeOK /\ address[g] \in A /\ pc[g] = "lock" /\ g \in callers
      /\ CallStates /\ LinkedWaits /\ UnlinkedWaits
  BY CallAddress DEF IndInv, Control, callers
<1>2. ~Queued(g)
  BY <1>1 DEF LinkedWaits
<1>3. /\ queue' \in Seq(G) /\ Distinct(queue')
      /\ \A h : Queued(h)' <=> Queued(h) \/ h = g
  BY <1>1, <1>2, Enqueued DEF LinkedWaits
<1>4. /\ UNCHANGED <<value, address, waiter>>
      /\ ticket' = [ticket EXCEPT ![g] = FALSE]
      /\ pc' = [pc EXCEPT ![g] = "parked"]
  BY DEF Goto
<1>5. TypeOK'
  BY <1>1, <1>3, <1>4 DEF TypeOK, PCs
<1>6. CallStates'
  BY <1>1, <1>4 DEF TypeOK, CallStates
<1>7. \A c \in callers : waiter[c] # g
  BY <1>1, SemaAssumption DEF UnlinkedWaits
<1>8. LinkedWaits'
  <2> SUFFICES ASSUME NEW h \in G, Queued(h)'
               PROVE  pc'[h] = "parked" /\ ~Unlinked(h)' /\ ~ticket'[h]
    BY <1>3 DEF LinkedWaits
  <2>1. CASE h = g
    BY <1>1, <1>4, <1>7, <2>1 DEF Unlinked, TypeOK
  <2>2. CASE h # g
    <3>1. pc[h] = "parked" /\ ~Unlinked(h) /\ ~ticket[h]
      BY <1>1, <1>3, <2>2 DEF LinkedWaits
    <3> QED
      BY <1>1, <1>4, <2>2, <3>1 DEF Unlinked, TypeOK, callers
  <2> QED
    BY <2>1, <2>2
<1>9. UnlinkedWaits'
  BY <1>1, <1>4, <1>7 DEF UnlinkedWaits, TypeOK, callers
<1>10. ASSUME NEW b \in A PROVE Covered(b)'
  <2>1. CASE b = address[g]
    <3>1. value'[b] = 0
      BY <1>1, <1>4, <2>1 DEF TypeOK
    <3> QED
      BY <3>1, CoverEmpty
  <2>2. CASE b # address[g]
    <3>1. QueuedFor(b)' \subseteq QueuedFor(b)
      BY <1>3, <1>4, <2>2 DEF QueuedFor, Queued
    <3>2. Noticing(b) \subseteq Noticing(b)'
      BY <1>1, <1>4, <2>2 DEF Noticing, Unlinked, TypeOK
    <3>3. value'[b] <= value[b]
      BY <1>1, <1>4 DEF TypeOK
    <3> QED
      BY <1>1, <1>5, <3>1, <3>2, <3>3, CoverKept DEF IndInv
  <2> QED
    BY <2>1, <2>2
<1> QED
  BY <1>5, <1>6, <1>8, <1>9, <1>10 DEF IndInv, Control

LEMMA AcquireLockedStep ==
    ASSUME IndInv, NEW g \in G, NEW lifo \in BOOLEAN, AcquireLocked(g, lifo)
    PROVE  IndInv'
<1>1. CASE CanAcquire(g)
  <2> USE DEF AcquireLocked, CanAcquire
  <2>1. TypeOK /\ address[g] \in A /\ pc[g] = "lock" /\ g \in callers
    BY CallAddress DEF IndInv, Control, callers
  <2>2. /\ value' \in [A -> Nat]
        /\ \A b \in A : value'[b] <= value[b]
    BY <1>1, <2>1, TakeTypes
  <2>3. TypeOK' /\ Moves(g)
    BY <1>1, <2>1, <2>2, FinishMoves DEF TypeOK
  <2> QED
    BY <2>1, <2>2, <2>3, QuietMove
<1>2. CASE ~CanAcquire(g)
  BY <1>2, ParkStep
<1> QED
  BY <1>1, <1>2

\* A move about address a: what is left to show is that a stays covered.
LEMMA MoveAbout ==
    ASSUME IndInv, TypeOK', NEW c \in callers, Moves(c), NEW a \in A,
           Covered(a)',
           \A b \in A : b # a => c \notin Noticing(b) /\ value'[b] = value[b]
    PROVE  IndInv'
<1>1. Control'
  BY MoveControl DEF IndInv
<1>2. ASSUME NEW b \in A
      PROVE  Covered(b)'
  <2>1. CASE b = a
    BY <2>1
  <2>2. CASE b # a
    <3>1. /\ QueuedFor(b)' = QueuedFor(b)
          /\ Noticing(b) \subseteq Noticing(b)' \cup {c}
      BY MoveCover DEF IndInv
    <3>2. c \notin Noticing(b) /\ value'[b] <= value[b]
      BY <2>2 DEF IndInv, Control, TypeOK
    <3> QED
      BY <3>1, <3>2, CoverKept DEF IndInv, Control
  <2> QED
    BY <2>1, <2>2
<1> QED
  BY <1>1, <1>2 DEF IndInv

LEMMA AcquireWokenStep ==
    ASSUME IndInv, NEW g \in G, AcquireWoken(g)
    PROVE  IndInv'
<1>0. PICK a : a = address[g]
  OBVIOUS
<1>1. /\ TypeOK /\ a \in A /\ pc[g] = "woken" /\ g \in callers /\ Control
      /\ Covered(a)
  BY <1>0, CallAddress DEF IndInv, Control, callers, AcquireWoken
<1>2. \A b : b # a => g \notin Noticing(b)
  BY <1>0 DEF Noticing
<1>3. CASE ticket[g]
  <2>1. TypeOK' /\ Moves(g) /\ value' = value
    BY <1>1, <1>3, FinishMoves DEF AcquireWoken, TypeOK
  <2>2. /\ QueuedFor(a)' = QueuedFor(a)
        /\ Noticing(a) \subseteq Noticing(a)' \cup {g}
    BY <1>1, <2>1, MoveCover
  <2>3. g \notin Noticing(a) /\ value'[a] <= value[a]
    BY <1>1, <1>3, <2>1 DEF Noticing, TypeOK
  <2>4. Covered(a)'
    BY <1>1, <2>1, <2>2, <2>3, CoverKept
  <2> QED
    BY <1>1, <1>2, <2>1, <2>4, MoveAbout
<1>4. CASE ~ticket[g] /\ CanAcquire(g)
  <2>1. /\ value' \in [A -> Nat] /\ value'[a] = value[a] - 1
        /\ \A b \in A : b # a => value'[b] = value[b]
        /\ value[a] > 0
    BY <1>0, <1>1, <1>4, TakeTypes DEF AcquireWoken, CanAcquire
  <2>2. TypeOK' /\ Moves(g)
    BY <1>1, <1>4, <2>1, FinishMoves DEF AcquireWoken, TypeOK
  <2>3. /\ QueuedFor(a)' = QueuedFor(a)
        /\ Noticing(a) \subseteq Noticing(a)' \cup {g}
    BY <1>1, <2>2, MoveCover
  <2>4. Covered(a)'
    BY <1>1, <2>1, <2>3, CoverTaken
  <2> QED
    BY <1>1, <1>2, <2>1, <2>2, <2>4, MoveAbout
<1>5. CASE ~ticket[g] /\ ~CanAcquire(g)
  <2>1. TypeOK' /\ Moves(g)
    BY <1>0, <1>1, <1>5, SemaAssumption
       DEF AcquireWoken, TypeOK, PCs, Goto, Moves
  <2>2. value' = value /\ value[a] = 0
    <3>1. value' = value /\ ~(value[a] > 0)
      BY <1>0, <1>1, <1>5 DEF AcquireWoken, CanAcquire
    <3>2. value[a] \in Nat
      BY <1>1 DEF TypeOK
    <3> QED
      BY <3>1, <3>2
  <2>3. Covered(a)'
    BY <1>1, <2>2, CoverEmpty
  <2> QED
    BY <1>1, <1>2, <2>1, <2>2, <2>3, MoveAbout
<1> QED
  BY <1>3, <1>4, <1>5

LEMMA SemReleaseStep ==
    ASSUME IndInv, NEW c \in callers, NEW a \in A, SemRelease(c, a)
    PROVE  IndInv'
<1>1. Control /\ TypeOK /\ pc[c] = "idle" /\ Covered(a)
  BY DEF IndInv, Control, SemRelease
<1>2. TypeOK' /\ Moves(c)
  BY <1>1, SemaAssumption DEF SemRelease, TypeOK, PCs, Goto, Moves
<1>3. /\ value'[a] = value[a] + 1
      /\ \A b \in A : b # a => value'[b] = value[b]
      /\ pc'[c] = "release" /\ address'[c] = a
  BY <1>1 DEF SemRelease, TypeOK, Goto
<1>4. \A b : c \notin Noticing(b)
  BY <1>1 DEF Noticing
<1>5. c \in Noticing(a)'
  BY <1>3 DEF Noticing
<1>6. /\ QueuedFor(a)' = QueuedFor(a)
      /\ Noticing(a) \subseteq Noticing(a)' \cup {c}
  BY <1>1, <1>2, MoveCover
<1>7. Covered(a)'
  BY <1>1, <1>3, <1>4, <1>5, <1>6, CoverPosted
<1> QED
  BY <1>1, <1>2, <1>3, <1>4, <1>7, MoveAbout

\* A release that finds nobody.
LEMMA NobodyStep ==
    ASSUME IndInv, NEW c \in callers, NEW handoff \in BOOLEAN,
           ReleaseLocked(c, handoff), NoWaiter(address[c])
    PROVE  IndInv'
<1>0. PICK a : a = address[c]
  OBVIOUS
<1>1. TypeOK /\ a \in A /\ pc[c] = "release" /\ Control
  BY <1>0, CallAddress DEF IndInv, Control, ReleaseLocked
<1>2. TypeOK' /\ Moves(c) /\ value' = value
  BY <1>1, FinishMoves DEF ReleaseLocked, TypeOK
<1>3. QueuedFor(a) = {}
  BY <1>0 DEF QueuedFor, NoWaiter
<1>4. QueuedFor(a)' = {}
  BY <1>1, <1>2, <1>3, MoveCover
<1>5. Covered(a)'
  BY <1>1, <1>4, CoverEmpty
<1>6. \A b : b # a => c \notin Noticing(b)
  BY <1>0 DEF Noticing
<1> QED
  BY <1>1, <1>2, <1>5, <1>6, MoveAbout

\* A release that unlinks the record at place i.
LEMMA UnlinkStep ==
    ASSUME IndInv, NEW c \in callers, NEW handoff \in BOOLEAN,
           NEW i \in FirstWaiter(address[c]), pc[c] = "release",
           queue' = Unlink(queue, i),
           waiter' = [waiter EXCEPT ![c] = queue[i]],
           IF handoff /\ CanAcquire(c)
           THEN /\ TakeToken(address[c])
                /\ ticket' = [ticket EXCEPT ![queue[i]] = TRUE]
           ELSE UNCHANGED <<value, ticket>>,
           Goto(c, "ready"), UNCHANGED address
    PROVE  IndInv'
<1>0. PICK a, w : a = address[c] /\ w = queue[i]
  OBVIOUS
<1>1. /\ TypeOK /\ a \in A /\ Control /\ Covered(a)
      /\ CallStates /\ LinkedWaits /\ UnlinkedWaits
  BY <1>0, CallAddress DEF IndInv, Control
<1>2. i \in DOMAIN queue /\ address[w] = a
  BY <1>0 DEF FirstWaiter
<1>3. /\ w \in G /\ queue' \in Seq(G) /\ Distinct(queue')
      /\ \A h : Queued(h)' <=> Queued(h) /\ h # w
  <2>1. queue \in Seq(G) /\ \A j, k \in DOMAIN queue : queue[j] = queue[k] => j = k
    BY <1>1 DEF TypeOK, LinkedWaits, Distinct
  <2>2. /\ queue' \in Seq(G) /\ queue[i] \in G
        /\ \A j, k \in DOMAIN queue' : queue'[j] = queue'[k] => j = k
        /\ \A h : (\E j \in DOMAIN queue' : queue'[j] = h)
                     <=> (\E j \in DOMAIN queue : queue[j] = h) /\ h # queue[i]
    <3> DEFINE loses(r, j) ==
                 /\ r \in Seq(G) /\ queue[j] \in G
                 /\ \A k, l \in DOMAIN r : r[k] = r[l] => k = l
                 /\ \A h : (\E k \in DOMAIN r : r[k] = h)
                             <=> /\ \E k \in DOMAIN queue : queue[k] = h
                                 /\ h # queue[j]
    <3>1. \A j \in DOMAIN queue : loses(RemoveAt(queue, j), j)
      BY <2>1, RemovedQueue, ZenonT(60)
    <3>2. queue' = RemoveAt(queue, i)
      BY DEF Unlink
    <3>3. loses(queue', i)
      <4> HIDE DEF loses
      <4> QED
        BY <1>2, <3>1, <3>2, Zenon
    <3> QED
      BY <3>3, Zenon
  <2> QED
    BY <1>0, <2>2, Zenon DEF Distinct, Queued
<1>4. /\ pc[w] = "parked" /\ ~Unlinked(w) /\ ~ticket[w] /\ w # c
      /\ w \in callers /\ w # None
  <2>1. Queued(w)
    BY <1>0, <1>2 DEF Queued
  <2> QED
    BY <1>1, <1>3, <2>1, SemaAssumption DEF LinkedWaits, callers
<1>5. /\ waiter'[c] = w /\ waiter[c] = None
      /\ \A d \in callers \ {c} : waiter'[d] = waiter[d]
      /\ pc'[c] = "ready" /\ \A d \in callers \ {c} : pc'[d] = pc[d]
      /\ address' = address
  BY <1>0, <1>1 DEF TypeOK, CallStates, Goto
<1>6. \A h \in G : Unlinked(h)' <=> Unlinked(h) \/ h = w
  BY <1>5, SemaAssumption DEF Unlinked
<1>7. /\ value' \in [A -> Nat] /\ ticket' \in [G -> BOOLEAN]
      /\ \A b \in A : b # a => value'[b] = value[b]
      /\ \A h \in G : h # w => ticket'[h] = ticket[h]
      /\ \/ value'[a] = value[a] - 1 /\ value[a] > 0
         \/ value'[a] = value[a] /\ ~ticket'[w]
  <2>1. CASE handoff /\ CanAcquire(c)
    <3>1. TakeToken(a) /\ value[a] > 0
      BY <1>0, <2>1 DEF CanAcquire
    <3>2. ticket' = [ticket EXCEPT ![w] = TRUE]
      BY <1>0, <2>1
    <3> QED
      BY <1>1, <3>1, <3>2, TakeTypes DEF TypeOK
  <2>2. CASE ~(handoff /\ CanAcquire(c))
    BY <1>1, <1>4, <2>2 DEF TypeOK
  <2> QED
    BY <2>1, <2>2
<1>8. TypeOK'
  <2>1. waiter' \in [callers -> G \cup {None}]
    BY <1>0, <1>1, <1>3 DEF TypeOK
  <2>2. pc' \in [callers -> PCs]
    BY <1>1 DEF TypeOK, Goto, PCs
  <2> QED
    BY <1>1, <1>3, <1>7, <2>1, <2>2 DEF TypeOK
<1>9. CallStates'
  <2> SUFFICES ASSUME NEW d \in callers
      PROVE  /\ pc'[d] = "idle" <=> address'[d] = None
             /\ pc'[d] \in {"lock", "parked", "woken"} => d \in G
             /\ pc'[d] = "ready" <=> waiter'[d] # None
    BY DEF CallStates
  <2>1. CASE d = c
    BY <1>0, <1>1, <1>4, <1>5, <2>1, SemaAssumption
  <2>2. CASE d # c
    BY <1>1, <1>5, <2>2 DEF CallStates
  <2> QED
    BY <2>1, <2>2
<1>10. LinkedWaits'
  <2> SUFFICES ASSUME NEW h \in G, Queued(h)'
               PROVE  pc'[h] = "parked" /\ ~Unlinked(h)' /\ ~ticket'[h]
    BY <1>3 DEF LinkedWaits
  <2>1. h # w /\ pc[h] = "parked" /\ ~Unlinked(h) /\ ~ticket[h]
    BY <1>1, <1>3 DEF LinkedWaits
  <2>2. h \in callers \ {c}
    BY <2>1 DEF callers
  <2> QED
    BY <1>5, <1>6, <1>7, <2>1, <2>2
<1>11. UnlinkedWaits'
  <2> SUFFICES ASSUME NEW d \in callers, waiter'[d] # None
      PROVE  /\ pc'[waiter'[d]] = "parked"
             /\ \A e \in callers : waiter'[d] = waiter'[e] => d = e
    BY DEF UnlinkedWaits
  <2>1. \A e \in callers : waiter[e] # w
    BY <1>3, <1>4 DEF Unlinked
  <2>2. CASE d = c
    BY <1>4, <1>5, <2>1, <2>2
  <2>3. CASE d # c
    <3>1. waiter'[d] = waiter[d] /\ waiter[d] \in G
      BY <1>1, <1>5, <2>3 DEF TypeOK
    <3>2. /\ pc[waiter[d]] = "parked"
          /\ \A e \in callers : waiter[d] = waiter[e] => d = e
      BY <1>1, <3>1 DEF UnlinkedWaits
    <3>3. waiter[d] \in callers \ {c}
      BY <3>1, <3>2 DEF callers
    <3> QED
      BY <1>5, <2>1, <2>3, <3>1, <3>2, <3>3
  <2> QED
    BY <2>2, <2>3
<1>12. \A b : QueuedFor(b)' \subseteq QueuedFor(b)
  BY <1>3, <1>5 DEF QueuedFor, Queued
<1>13. \A b : Noticing(b) \subseteq Noticing(b)' \cup {c}
  <2> SUFFICES ASSUME NEW b, NEW d \in Noticing(b), d # c
               PROVE  d \in Noticing(b)'
    OBVIOUS
  <2>1. /\ d \in callers \ {c} /\ address[d] = b
        /\ \/ pc[d] = "release"
           \/ /\ pc[d] \in {"parked", "woken"}
              /\ pc[d] = "woken" \/ Unlinked(d)
              /\ ~ticket[d]
    BY DEF Noticing
  <2>2. pc'[d] = pc[d] /\ address'[d] = b
    BY <1>5, <2>1
  <2>3. CASE pc[d] = "release"
    BY <2>1, <2>2, <2>3 DEF Noticing
  <2>4. CASE /\ pc[d] \in {"parked", "woken"}
             /\ pc[d] = "woken" \/ Unlinked(d)
             /\ ~ticket[d]
    <3>1. d \in G /\ d # w
      BY <1>1, <1>4, <2>1, <2>4 DEF CallStates
    <3> QED
      BY <1>6, <1>7, <2>1, <2>2, <2>4, <3>1 DEF Noticing
  <2> QED
    BY <2>1, <2>3, <2>4
<1>14. Covered(a)'
  <2>1. CASE value'[a] = value[a] - 1 /\ value[a] > 0
    BY <1>1, <1>12, <1>13, <2>1, CoverTaken
  <2>2. CASE value'[a] = value[a] /\ ~ticket'[w]
    <3>1. w \in Noticing(a)'
      BY <1>2, <1>3, <1>4, <1>5, <1>6, <2>2 DEF Noticing
    <3>2. w \notin Noticing(a)
      BY <1>4 DEF Noticing
    <3> QED
      BY <1>1, <1>12, <1>13, <2>2, <3>1, <3>2, CoverPassed
  <2> QED
    BY <1>7, <2>1, <2>2
<1>15. ASSUME NEW b \in A, b # a
       PROVE  Covered(b)'
  <2>1. c \notin Noticing(b)
    BY <1>0, <1>15 DEF Noticing
  <2>2. value'[b] <= value[b]
    BY <1>1, <1>7, <1>15 DEF TypeOK
  <2>3. /\ QueuedFor(b)' \subseteq QueuedFor(b)
        /\ Noticing(b) \subseteq Noticing(b)'
    BY <1>12, <1>13, <2>1
  <2> QED
    BY <1>1, <1>8, <2>2, <2>3, CoverKept DEF IndInv
<1> QED
  BY <1>8, <1>9, <1>10, <1>11, <1>14, <1>15 DEF IndInv, Control

LEMMA ReleaseLockedStep ==
    ASSUME IndInv, NEW c \in callers, NEW handoff \in BOOLEAN,
           ReleaseLocked(c, handoff)
    PROVE  IndInv'
<1>1. CASE NoWaiter(address[c])
  BY <1>1, NobodyStep
<1>2. CASE ~NoWaiter(address[c])
  <2>1. PICK i \in FirstWaiter(address[c]) :
           /\ queue' = Unlink(queue, i)
           /\ waiter' = [waiter EXCEPT ![c] = queue[i]]
           /\ IF handoff /\ CanAcquire(c)
              THEN /\ TakeToken(address[c])
                   /\ ticket' = [ticket EXCEPT ![queue[i]] = TRUE]
              ELSE UNCHANGED <<value, ticket>>
           /\ Goto(c, "ready")
           /\ UNCHANGED address
    BY <1>2, Zenon DEF ReleaseLocked
  <2>2. pc[c] = "release"
    BY DEF ReleaseLocked
  <2> QED
    BY <2>1, <2>2, UnlinkStep
<1> QED
  BY <1>1, <1>2

LEMMA ReleaseReadyStep ==
    ASSUME IndInv, NEW c \in callers, ReleaseReady(c)
    PROVE  IndInv'
<1>0. PICK w : w = waiter[c]
  OBVIOUS
<1>1. /\ TypeOK /\ Control
      /\ CallStates /\ LinkedWaits /\ UnlinkedWaits
  BY DEF IndInv, Control
<1>2. /\ pc[c] = "ready" /\ w \in G /\ w \in callers /\ pc[w] = "parked"
      /\ w # c /\ Unlinked(w)
  BY <1>0, <1>1
     DEF ReleaseReady, TypeOK, CallStates, UnlinkedWaits, Unlinked, callers
<1>3. /\ pc'[c] = "idle" /\ pc'[w] = "woken"
      /\ address'[c] = None /\ waiter'[c] = None
      /\ \A d \in callers \ {c} : waiter'[d] = waiter[d] /\ address'[d] = address[d]
      /\ \A d \in callers \ {c, w} : pc'[d] = pc[d]
      /\ value' = value /\ queue' = queue /\ ticket' = ticket
  BY <1>0, <1>1, <1>2 DEF ReleaseReady, TypeOK
<1>4. TypeOK'
  BY <1>0, <1>1, <1>2 DEF ReleaseReady, TypeOK, PCs
<1>5. \A d \in callers \ {c} : waiter[d] # w
  BY <1>0, <1>1, <1>2, SemaAssumption DEF UnlinkedWaits
<1>6. \A h \in G : h # w => (Unlinked(h)' <=> Unlinked(h))
  BY <1>0, <1>2, <1>3, SemaAssumption DEF Unlinked
<1>7. CallStates'
  <2> SUFFICES ASSUME NEW d \in callers
      PROVE  /\ pc'[d] = "idle" <=> address'[d] = None
             /\ pc'[d] \in {"lock", "parked", "woken"} => d \in G
             /\ pc'[d] = "ready" <=> waiter'[d] # None
    BY DEF CallStates
  <2>1. CASE d = c
    BY <1>3, <2>1
  <2>2. CASE d = w
    BY <1>1, <1>2, <1>3, <2>2 DEF CallStates
  <2>3. CASE d # c /\ d # w
    BY <1>1, <1>3, <2>3 DEF CallStates
  <2> QED
    BY <2>1, <2>2, <2>3
<1>8. LinkedWaits'
  <2> SUFFICES ASSUME NEW h \in G, Queued(h)'
               PROVE  pc'[h] = "parked" /\ ~Unlinked(h)' /\ ~ticket'[h]
    BY <1>1, <1>3 DEF LinkedWaits
  <2>1. pc[h] = "parked" /\ ~Unlinked(h) /\ ~ticket[h]
    BY <1>1, <1>3 DEF LinkedWaits, Queued
  <2>2. h \in callers \ {c, w}
    BY <1>2, <2>1 DEF callers
  <2> QED
    BY <1>3, <1>6, <2>1, <2>2
<1>9. UnlinkedWaits'
  <2> SUFFICES ASSUME NEW d \in callers, waiter'[d] # None
      PROVE  /\ pc'[waiter'[d]] = "parked"
             /\ \A e \in callers : waiter'[d] = waiter'[e] => d = e
    BY DEF UnlinkedWaits
  <2>1. d # c /\ waiter'[d] = waiter[d] /\ waiter[d] \in G
    BY <1>1, <1>3, SemaAssumption DEF TypeOK
  <2>2. /\ pc[waiter[d]] = "parked" /\ waiter[d] # w
        /\ \A e \in callers : waiter[d] = waiter[e] => d = e
    BY <1>1, <1>5, <2>1, SemaAssumption DEF UnlinkedWaits
  <2>3. waiter[d] \in callers \ {c, w}
    BY <1>2, <2>1, <2>2 DEF callers
  <2> QED
    BY <1>3, <2>1, <2>2, <2>3, SemaAssumption
<1>10. ASSUME NEW b \in A
       PROVE  Covered(b)'
  <2>1. QueuedFor(b)' \subseteq QueuedFor(b)
    <3> SUFFICES ASSUME NEW h \in G, address'[h] = b,
                        \E j \in DOMAIN queue : queue[j] = h
                 PROVE  address[h] = b
      BY <1>3 DEF QueuedFor
    <3>1. h # c
      BY <1>3, SemaAssumption
    <3> QED
      BY <1>3, <3>1 DEF callers
  <2>2. ASSUME NEW d \in Noticing(b)
        PROVE  d \in Noticing(b)'
    <3>1. /\ d \in callers /\ address[d] = b
          /\ \/ pc[d] = "release"
             \/ /\ pc[d] \in {"parked", "woken"}
                /\ pc[d] = "woken" \/ Unlinked(d)
                /\ ~ticket[d]
      BY DEF Noticing
    <3>2. d # c
      BY <1>2, <3>1
    <3>3. CASE d = w
      BY <1>2, <1>3, <3>1, <3>2, <3>3 DEF Noticing
    <3>4. CASE d # w /\ pc[d] = "release"
      BY <1>3, <3>1, <3>2, <3>4 DEF Noticing
    <3>5. CASE d # w /\ pc[d] # "release"
      <4>1. d \in G
        BY <1>1, <3>1, <3>5 DEF CallStates
      <4> QED
        BY <1>3, <1>6, <3>1, <3>2, <3>5, <4>1 DEF Noticing
    <3> QED
      BY <3>3, <3>4, <3>5
  <2>3. value'[b] <= value[b]
    BY <1>1, <1>3 DEF TypeOK
  <2> QED
    BY <1>1, <1>4, <2>1, <2>2, <2>3, CoverKept DEF IndInv
<1> QED
  BY <1>4, <1>7, <1>8, <1>9, <1>10 DEF IndInv, Control

-----------------------------------------------------------------------------
(***************************************************************************)
(* The invariant and the properties it gives                               *)
(***************************************************************************)
LEMMA InitInv == Init => IndInv
<1> SUFFICES ASSUME Init PROVE IndInv
  OBVIOUS
<1>1. TypeOK
  BY EmptySeq DEF Init, TypeOK, PCs
<1>2. CallStates /\ UnlinkedWaits
  BY DEF Init, CallStates, UnlinkedWaits
<1>3. \A g : ~Queued(g)
  BY DEF Init, Queued
<1>4. LinkedWaits
  BY <1>3 DEF Init, LinkedWaits, Distinct
<1>5. \A a \in A : QueuedFor(a) = {}
  BY <1>3 DEF QueuedFor, Queued
<1> QED
  BY <1>1, <1>2, <1>4, <1>5 DEF IndInv, Control, Covered

LEMMA StepInv == IndInv /\ [Next]_vars => IndInv'
<1> SUFFICES ASSUME IndInv, [Next]_vars PROVE IndInv'
  OBVIOUS
<1>1. CASE UNCHANGED vars
  BY <1>1
     DEF vars, IndInv, Control, TypeOK, CallStates, LinkedWaits, UnlinkedWaits,
         Distinct, Queued, Unlinked, Covered, QueuedFor, Noticing
<1>2. CASE Next
  <2>1. PICK c \in callers : Call(c) \/ Step(c)
    BY <1>2 DEF Next
  <2>2. CASE Call(c)
    BY <2>2, SemAcquireStep, SemReleaseStep DEF Call
  <2>3. CASE AcquireFast(c) \/ AcquireSpin(c) \/ ReleaseReady(c)
    BY <2>3, AcquireFastStep, AcquireSpinStep, ReleaseReadyStep
  <2>4. CASE \E handoff \in BOOLEAN : ReleaseLocked(c, handoff)
    BY <2>4, ReleaseLockedStep
  <2>5. CASE /\ c \in G
             /\ AcquireWoken(c) \/ \E lifo \in BOOLEAN : AcquireLocked(c, lifo)
    BY <2>5, AcquireWokenStep, AcquireLockedStep
  <2> QED
    BY <2>1, <2>2, <2>3, <2>4, <2>5 DEF Step
<1> QED
  BY <1>1, <1>2

\* The inductive invariant holds of every reachable state.
THEOREM SemaInvariant == Spec => []IndInv
  BY InitInv, StepInv, PTL DEF Spec

\* Every variable keeps its type; in particular no semaphore word, which is a
\* uint32_t, drops below zero.
THEOREM SemaTypes == Spec => []TypeOK
<1>1. IndInv => TypeOK
  BY DEF IndInv, Control
<1> QED
  BY <1>1, SemaInvariant, PTL

\* No release is lost: while somebody is queued for an address, every token
\* there is matched by a release or a woken goroutine that will notice it.
THEOREM ReleasesKept == Spec => []NoLostRelease
<1>1. IndInv => NoLostRelease
  BY DEF IndInv, Covered, NoLostRelease
<1> QED
  BY <1>1, SemaInvariant, PTL

\* A wait record is linked at most once, only while its goroutine is parked, and
\* one release at most has unlinked it.
THEOREM RecordsOutlived == Spec => []StackRecords
<1>1. IndInv => StackRecords
  <2> SUFFICES ASSUME IndInv PROVE StackRecords
    OBVIOUS
  <2>1. TypeOK /\ LinkedWaits /\ UnlinkedWaits
    BY DEF IndInv, Control
  <2>2. \A i \in DOMAIN queue : queue[i] \in G
    BY <2>1, ElementOfSeq, LenProperties DEF TypeOK
  <2>3. \A i \in DOMAIN queue : /\ pc[queue[i]] = "parked"
                                /\ ~Unlinked(queue[i])
    BY <2>1, <2>2 DEF LinkedWaits, Queued
  <2> QED
    BY <2>1, <2>3 DEF StackRecords, LinkedWaits, Distinct, UnlinkedWaits
<1> QED
  BY <1>1, SemaInvariant, PTL

-----------------------------------------------------------------------------
(***************************************************************************)
(* Every step is one of AbsSema or leaves its state alone                  *)
(***************************************************************************)
LEMMA WantAt ==
    /\ \A c \in callers : want[c] = IF Acquiring(c) THEN address[c] ELSE None
    /\ \A c \in callers :
        want'[c] = IF Acquiring(c)' THEN address'[c] ELSE None
BY DEF want

WantKept(C) == \A d \in callers \ C : want'[d] = want[d]

LEMMA WantSame == ASSUME WantKept({}) PROVE want' = want
<1>1. \A c \in callers : (IF Acquiring(c)' THEN address'[c] ELSE None)
                           = IF Acquiring(c) THEN address[c] ELSE None
  BY WantAt DEF WantKept
<1> QED
  BY <1>1 DEF want

LEMMA WantChanged ==
    ASSUME NEW c \in callers, NEW v, want'[c] = v, WantKept({c})
    PROVE  want' = [want EXCEPT ![c] = v]
<1> DEFINE old(d) == IF Acquiring(d) THEN address[d] ELSE None
           new(d) == IF Acquiring(d)' THEN address'[d] ELSE None
<1>1. want = [d \in callers |-> old(d)] /\ want' = [d \in callers |-> new(d)]
  BY DEF want
<1> HIDE DEF old, new
<1>2. new(c) = v /\ \A d \in callers : d # c => new(d) = old(d)
  BY <1>1 DEF WantKept
<1> QED
  BY <1>1, <1>2

LEMMA MoveKeepsWant ==
    ASSUME NEW c \in callers, Moves(c)
    PROVE  WantKept({c})
BY WantAt DEF WantKept, Moves, Acquiring

AbsStep == [Abs!AbsNext]_(Abs!absVars)

\* A caller got its token.
LEMMA IsGrant ==
    ASSUME NEW c \in callers, NEW a \in A, value[a] > 0, TakeToken(a),
           want[c] = a, want'[c] = None, WantKept({c})
    PROVE  AbsStep
<1>1. Abs!Grant(c, a)
  BY WantChanged DEF Abs!Grant, TakeToken
<1> QED
  BY <1>1 DEF AbsStep, Abs!AbsNext

\* Nothing the specification speaks of changed.
LEMMA IsStutter ==
    ASSUME value' = value, WantKept({}) PROVE AbsStep
BY WantSame DEF AbsStep, Abs!absVars

LEMMA KeptBy ==
    ASSUME NEW c, WantKept({c}), c \in callers => want'[c] = want[c]
    PROVE  WantKept({})
BY DEF WantKept

LEMMA CallRefines ==
    ASSUME IndInv, NEW c \in callers, Call(c) PROVE AbsStep
<1>1. PICK a \in A : SemAcquire(c, a) \/ SemRelease(c, a)
  BY DEF Call
<1>2. TypeOK /\ pc[c] = "idle" /\ Moves(c)
  BY <1>1, SemaAssumption
     DEF IndInv, Control, TypeOK, SemAcquire, SemRelease, Goto, Moves
<1>3. WantKept({c}) /\ want[c] = None
  BY <1>2, MoveKeepsWant, WantAt DEF Acquiring
<1>4. CASE SemAcquire(c, a)
  <2>1. want'[c] = a /\ value' = value
    BY <1>2, <1>4, WantAt DEF SemAcquire, Acquiring, TypeOK, Goto
  <2>2. Abs!Request(c, a)
    BY <1>3, <2>1, WantChanged DEF Abs!Request
  <2> QED
    BY <2>2 DEF AbsStep, Abs!AbsNext
<1>5. CASE SemRelease(c, a)
  <2>1. want'[c] = None /\ value' = [value EXCEPT ![a] = @ + 1]
    BY <1>2, <1>5, WantAt DEF SemRelease, Acquiring, TypeOK, Goto
  <2>2. want' = want
    BY <1>3, <2>1, KeptBy, WantSame
  <2>3. Abs!Post(a)
    BY <2>1, <2>2 DEF Abs!Post
  <2> QED
    BY <2>3 DEF AbsStep, Abs!AbsNext
<1> QED
  BY <1>1, <1>4, <1>5

\* An acquire that finishes with a token of its own.
LEMMA TakeRefines ==
    ASSUME Control, NEW c \in callers, CanAcquire(c), TakeToken(address[c]),
           Finish(c), UNCHANGED <<queue, ticket, waiter>>,
           pc[c] \in {"try", "lock", "spin", "woken"},
           pc[c] = "woken" => ~ticket[c]
    PROVE  AbsStep
<1>1. TypeOK /\ address[c] \in A /\ Moves(c)
  BY CallAddress, FinishMoves DEF Control
<1>2. WantKept({c})
  BY <1>1, MoveKeepsWant
<1>3. want[c] = address[c]
  BY WantAt DEF Acquiring
<1>4. want'[c] = None
  BY <1>1, WantAt DEF Finish, Goto, Acquiring, TypeOK
<1> QED
  BY <1>1, <1>2, <1>3, <1>4, IsGrant DEF CanAcquire

\* A caller that goes on to compete for a token.
LEMMA RetryRefines ==
    ASSUME Control, NEW c \in callers, NEW p \in {"lock", "spin"}, Goto(c, p),
           UNCHANGED <<value, queue, address, ticket, waiter>>,
           pc[c] \in {"try", "woken"}, c \in G \/ p = "spin",
           pc[c] = "woken" => ~ticket[c]
    PROVE  AbsStep
<1>1. TypeOK /\ address[c] \in A /\ pc'[c] = p
  BY CallAddress DEF Control, TypeOK, Goto
<1>2. Moves(c)
  BY <1>1, SemaAssumption DEF Moves, Goto, TypeOK
<1>3. WantKept({c})
  BY <1>2, MoveKeepsWant
<1>4. want'[c] = want[c]
  BY <1>1, WantAt DEF Acquiring
<1> QED
  BY <1>3, <1>4, KeptBy, IsStutter

LEMMA AcquireRefines ==
    ASSUME IndInv, NEW c \in callers,
           AcquireFast(c) \/ AcquireSpin(c)
    PROVE  AbsStep
<1>1. Control
  BY DEF IndInv
<1>2. CASE CanAcquire(c)
  BY <1>1, <1>2, TakeRefines DEF AcquireFast, AcquireSpin
<1>3. CASE ~CanAcquire(c)
  <2>1. CASE c \in G
    BY <1>1, <1>3, <2>1, RetryRefines DEF AcquireFast, AcquireSpin
  <2>2. CASE c \notin G
    BY <1>1, <1>3, <2>2, RetryRefines DEF AcquireFast, AcquireSpin
  <2> QED
    BY <2>1, <2>2
<1> QED
  BY <1>2, <1>3

LEMMA WokenRefines ==
    ASSUME IndInv, NEW g \in G, AcquireWoken(g) PROVE AbsStep
<1>1. Control /\ TypeOK /\ pc[g] = "woken" /\ g \in callers
  BY DEF IndInv, Control, AcquireWoken, callers
<1>2. CASE ticket[g]
  <2>1. Moves(g) /\ value' = value /\ pc'[g] = "idle"
    BY <1>1, <1>2, FinishMoves DEF AcquireWoken, Finish, Goto, TypeOK
  <2>2. want'[g] = want[g]
    BY <1>1, <1>2, <2>1, WantAt DEF Acquiring
  <2> QED
    BY <1>1, <2>1, <2>2, MoveKeepsWant, KeptBy, IsStutter
<1>3. CASE ~ticket[g] /\ CanAcquire(g)
  BY <1>1, <1>3, TakeRefines DEF AcquireWoken
<1>4. CASE ~ticket[g] /\ ~CanAcquire(g)
  BY <1>1, <1>4, RetryRefines DEF AcquireWoken
<1> QED
  BY <1>2, <1>3, <1>4

LEMMA LockedRefines ==
    ASSUME IndInv, NEW g \in G, NEW lifo \in BOOLEAN, AcquireLocked(g, lifo)
    PROVE  AbsStep
<1>1. Control /\ TypeOK /\ pc[g] = "lock" /\ g \in callers
  BY DEF IndInv, Control, AcquireLocked, callers
<1>2. CASE CanAcquire(g)
  BY <1>1, <1>2, TakeRefines DEF AcquireLocked
<1>3. CASE ~CanAcquire(g)
  <2>1. /\ UNCHANGED <<value, address, waiter>>
        /\ ticket' = [ticket EXCEPT ![g] = FALSE]
        /\ pc' = [pc EXCEPT ![g] = "parked"]
    BY <1>3 DEF AcquireLocked, Goto
  <2>2. ASSUME NEW d \in callers
        PROVE  want'[d] = want[d]
    <3>1. CASE d = g
      BY <1>1, <2>1, <3>1, WantAt DEF Acquiring, TypeOK
    <3>2. CASE d # g
      <4>1. pc'[d] = pc[d] /\ (d \in G => ticket'[d] = ticket[d])
        BY <1>1, <2>1, <3>2 DEF TypeOK
      <4> QED
        BY <2>1, <4>1, WantAt DEF Acquiring
    <3> QED
      BY <3>1, <3>2
  <2> QED
    BY <2>1, <2>2, IsStutter DEF WantKept
<1> QED
  BY <1>2, <1>3

LEMMA UnlinkRefines ==
    ASSUME IndInv, NEW c \in callers, NEW handoff \in BOOLEAN,
           NEW i \in FirstWaiter(address[c]), pc[c] = "release",
           IF handoff /\ CanAcquire(c)
           THEN /\ TakeToken(address[c])
                /\ ticket' = [ticket EXCEPT ![queue[i]] = TRUE]
           ELSE UNCHANGED <<value, ticket>>,
           Goto(c, "ready"), UNCHANGED address
    PROVE  AbsStep
<1>0. PICK a, w : a = address[c] /\ w = queue[i]
  OBVIOUS
<1>1. /\ TypeOK /\ a \in A /\ LinkedWaits
      /\ i \in DOMAIN queue /\ address[w] = a
  BY <1>0, CallAddress DEF IndInv, Control, FirstWaiter
<1>2. /\ w \in G /\ w \in callers
      /\ pc[w] = "parked" /\ ~ticket[w] /\ w # c
  <2>1. w \in G
    BY <1>0, <1>1, ElementOfSeq, LenProperties DEF TypeOK
  <2> QED
    BY <1>0, <1>1, <2>1 DEF LinkedWaits, Queued, callers
<1>3. /\ pc'[c] = "ready" /\ \A d \in callers \ {c} : pc'[d] = pc[d]
      /\ address' = address
  BY <1>1 DEF Goto, TypeOK
<1>4. ASSUME NEW d \in callers, d \in G => ticket'[d] = ticket[d]
      PROVE  want'[d] = want[d]
  BY <1>3, <1>4, WantAt DEF Acquiring
<1>5. CASE handoff /\ CanAcquire(c)
  <2>1. /\ value[a] > 0 /\ TakeToken(a)
        /\ ticket' = [ticket EXCEPT ![w] = TRUE]
    BY <1>0, <1>5 DEF CanAcquire
  <2>2. WantKept({w})
    BY <1>1, <1>4, <2>1 DEF WantKept, TypeOK
  <2>3. want[w] = a
    BY <1>1, <1>2, WantAt DEF Acquiring
  <2>4. want'[w] = None
    BY <1>1, <1>2, <1>3, <2>1, WantAt DEF Acquiring, TypeOK
  <2> QED
    BY <1>1, <1>2, <2>1, <2>2, <2>3, <2>4, IsGrant
<1>6. CASE ~(handoff /\ CanAcquire(c))
  BY <1>4, <1>6, IsStutter DEF WantKept
<1> QED
  BY <1>5, <1>6

LEMMA ReleaseRefines ==
    ASSUME IndInv, NEW c \in callers, NEW handoff \in BOOLEAN,
           ReleaseLocked(c, handoff)
    PROVE  AbsStep
<1>1. Control /\ TypeOK /\ pc[c] = "release"
  BY DEF IndInv, Control, ReleaseLocked
<1>2. CASE NoWaiter(address[c])
  <2>1. Moves(c) /\ value' = value /\ pc'[c] = "idle"
    BY <1>1, <1>2, FinishMoves DEF ReleaseLocked, Finish, Goto, TypeOK
  <2>2. want'[c] = want[c]
    BY <1>1, <2>1, WantAt DEF Acquiring
  <2> QED
    BY <2>1, <2>2, MoveKeepsWant, KeptBy, IsStutter
<1>3. CASE ~NoWaiter(address[c])
  <2>1. PICK i \in FirstWaiter(address[c]) :
           /\ IF handoff /\ CanAcquire(c)
              THEN /\ TakeToken(address[c])
                   /\ ticket' = [ticket EXCEPT ![queue[i]] = TRUE]
              ELSE UNCHANGED <<value, ticket>>
           /\ Goto(c, "ready")
           /\ UNCHANGED address
    BY <1>3, Zenon DEF ReleaseLocked
  <2> QED
    BY <1>1, <2>1, UnlinkRefines
<1> QED
  BY <1>2, <1>3

LEMMA ReadyRefines ==
    ASSUME IndInv, NEW c \in callers, ReleaseReady(c) PROVE AbsStep
<1>0. PICK w : w = waiter[c]
  OBVIOUS
<1>1. /\ TypeOK /\ CallStates /\ UnlinkedWaits /\ pc[c] = "ready"
      /\ value' = value /\ ticket' = ticket
  BY DEF IndInv, Control, ReleaseReady
<1>2. w \in callers /\ w # c /\ pc[w] = "parked"
  BY <1>0, <1>1 DEF TypeOK, CallStates, UnlinkedWaits, callers
<1>3. /\ pc'[c] = "idle" /\ pc'[w] = "woken"
      /\ \A d \in callers \ {c} : address'[d] = address[d]
      /\ \A d \in callers \ {c, w} : pc'[d] = pc[d]
  BY <1>0, <1>1, <1>2 DEF ReleaseReady, TypeOK
<1>4. ASSUME NEW d \in callers
      PROVE  want'[d] = want[d]
  <2>1. CASE d = c
    BY <1>1, <1>3, <2>1, WantAt DEF Acquiring
  <2>2. CASE d = w
    BY <1>1, <1>2, <1>3, <2>2, WantAt DEF Acquiring
  <2>3. CASE d # c /\ d # w
    BY <1>1, <1>3, <2>3, WantAt DEF Acquiring
  <2> QED
    BY <2>1, <2>2, <2>3
<1> QED
  BY <1>1, <1>4, IsStutter DEF WantKept

LEMMA StepRefines == IndInv /\ [Next]_vars => AbsStep
<1> SUFFICES ASSUME IndInv, [Next]_vars PROVE AbsStep
  OBVIOUS
<1>1. CASE UNCHANGED vars
  BY <1>1 DEF vars, AbsStep, Abs!absVars, want, Acquiring
<1>2. CASE Next
  <2>1. PICK c \in callers : Call(c) \/ Step(c)
    BY <1>2 DEF Next
  <2>2. CASE Call(c)
    BY <2>2, CallRefines
  <2>3. CASE AcquireFast(c) \/ AcquireSpin(c) \/ ReleaseReady(c)
    BY <2>3, AcquireRefines, ReadyRefines
  <2>4. CASE \E handoff \in BOOLEAN : ReleaseLocked(c, handoff)
    BY <2>4, ReleaseRefines
  <2>5. CASE /\ c \in G
             /\ AcquireWoken(c) \/ \E lifo \in BOOLEAN : AcquireLocked(c, lifo)
    BY <2>5, WokenRefines, LockedRefines
  <2> QED
    BY <2>1, <2>2, <2>3, <2>4, <2>5 DEF Step
<1> QED
  BY <1>1, <1>2

\* The semaphores implement counters of tokens: every acquire that returns has
\* taken exactly one token that a release put there, on the fast path, under the
\* lock, after a wakeup or by hand-off.
THEOREM Implements == Spec => Abs!AbsSpec
<1>1. Init => Abs!AbsInit
  BY DEF Init, Abs!AbsInit, want, Acquiring
<1>2. IndInv /\ [Next]_vars => [Abs!AbsNext]_(Abs!absVars)
  BY StepRefines DEF AbsStep
<1> QED
  BY <1>1, <1>2, SemaInvariant, PTL DEF Spec, Abs!AbsSpec

-----------------------------------------------------------------------------
(***************************************************************************)
(* Stopping the world                                                      *)
(***************************************************************************)

\* Who is counted in runtime_world_waiting.
Polling == {t \in T : at[t] \in {"wait", "leave"}}

TypeInv ==
    /\ at \in [T -> Places]
    /\ goal \in [T -> Goals]
    /\ owner \in [Locks -> T \cup {Nobody}]
    /\ stopping \in BOOLEAN
    /\ stopper \in T \cup {Nobody}
    /\ seen \in [T -> 0 .. Cardinality(T)]
    /\ round \in [T -> 1 .. 2]
    /\ doubts \in [T -> SUBSET {"leaving", "starting", "alone", "rival"}]
    /\ Main \in members /\ members \subseteq linked /\ linked \subseteq T

CountInv == waiting = Cardinality(Polling)

\* From the start of a stop to the end of the call: the sweep is included, and the
\* entry of a large object.
Inside(t) == \/ at[t] \in {"stop", "count", "compare", "stopped", "started"}
             \/ goal[t] \in Sweeping \cup {"index"}
             \/ owner["entries"] = t

\* Where a thread can be with what it is after.
FitsAt(t) ==
    /\ at[t] \in {"absent", "dead"} => goal[t] = "poll" /\ t \notin members
    /\ at[t] = "absent" => t \notin linked
    /\ at[t] = "run" => goal[t] = "poll"
    /\ at[t] = "create" => goal[t] = "spawn"
    /\ at[t] \in {"try", "held"} => goal[t] # "poll"
    /\ at[t] \in {"stop", "count", "compare", "stopped"}
          => goal[t] \in {"collect", "stats"}
    /\ at[t] = "started" => goal[t] \in {"collect", "stats", "poll"}
    /\ goal[t] = "exit" => t # Main
    /\ goal[t] \in {"link", "register"} => t \notin members
    /\ goal[t] = "register" => t \in linked
    /\ goal[t] \notin {"link", "register"} /\ at[t] \notin {"absent", "dead"}
          => t \in members
    /\ goal[t] \in Sweeping =>
          at[t] \in {"check", "enter", "wait", "leave", "try", "held"}

Fits == \A t \in T : FitsAt(t)

\* The locks a thread has.
HasLocks(t) ==
    /\ at[t] = "held" => owner[LockOf[goal[t]]] = t
    /\ \A l \in {"pool", "central", "entries"} : owner[l] = t =>
          \/ goal[t] = "persist"
          \/ at[t] = "held" /\ LockOf[goal[t]] = l
    /\ \A l, m \in {"pool", "central", "entries"} :
          owner[l] = t /\ owner[m] = t => l = m

LockInv == \A t \in T : HasLocks(t)

\* Why a stopper is the only one: it has the lock of the collector, or was the
\* only thread, or did not know of one that was starting.
Lonely(t) == \A u \in T \ {t} : at[u] \in {"absent", "dead"}
Guarded(t) ==
    Inside(t) => owner["gc"] = t \/ "alone" \in doubts[t] \/ Lonely(t)

GuardInv == \A t \in T : Guarded(t)

\* A stop that nothing came in between.
Clean(t) == Stops(t) /\ doubts[t] \subseteq {"alone"}

CleanStop(t) ==
    /\ \A u \in T : Stops(u) => u = t
    /\ stopping /\ stopper = t
    /\ \A u \in T : ~Starting(u)
    /\ \A u \in T : at[u] # "leave"
    /\ goal[t] \in Sweeping => at[t] \in {"check", "try", "held"}
    /\ at[t] = "compare" => seen[t] <= waiting
    /\ Collects(t) => \A u \in members \ {t} : at[u] = "wait"

StopInv == \A t \in T : Clean(t) => CleanStop(t)

Base == TypeInv /\ Fits /\ LockInv
WorldInv == Base /\ CountInv /\ GuardInv /\ StopInv

-----------------------------------------------------------------------------
(***************************************************************************)
(* How many threads wait                                                   *)
(***************************************************************************)
LEMMA Counted ==
    ASSUME TypeInv, CountInv
    PROVE  waiting \in 0 .. Cardinality(T) /\ Cardinality(T) \in Nat
<1>1. IsFiniteSet(T) /\ Polling \subseteq T
  BY StopWorldAssumption DEF Polling
<1>. QED BY <1>1, FS_Subset, FS_CardinalityType DEF CountInv

LEMMA Asked == ASSUME NEW t \in T PROVE Asks[t] \subseteq Requests
BY StopWorldAssumption

-----------------------------------------------------------------------------
(***************************************************************************)
(* Types, places and locks                                                 *)
(***************************************************************************)
LEMMA BaseStep ==
    ASSUME Base, CountInv, NEW t \in T, WorldCall(t) \/ WorldStep(t)
    PROVE  Base'
<1>. USE DEF Base, TypeInv, Fits, FitsAt, LockInv, HasLocks, GoesTo, Aim, world,
             threads, Places, Goals, Locks, LockOf, Growing, Sweeping
<1>0. /\ Main \in T /\ Nobody \notin T
      /\ waiting \in 0 .. Cardinality(T) /\ Cardinality(T) \in Nat
  BY StopWorldAssumption, Counted
<1>1. CASE Poll(t) BY <1>0, <1>1 DEF Poll
<1>2. CASE Collect(t) BY <1>0, <1>2 DEF Collect, Unlocked, Doubt
<1>3. CASE ReadStats(t) BY <1>0, <1>3 DEF ReadStats, Unlocked, Doubt
<1>4. ASSUME NEW g \in Requests, Lock(t, g)
      PROVE  Base'
  BY <1>0, <1>4 DEF Lock, Requests
<1>5. CASE Check(t) BY <1>0, <1>5 DEF Check, PastPoll, Getm
<1>6. CASE Enter(t) BY <1>0, <1>6 DEF Enter
<1>7. CASE SeeStart(t) BY <1>0, <1>7 DEF SeeStart
<1>8. CASE Leave(t) BY <1>0, <1>8 DEF Leave, PastPoll
<1>9. CASE Try(t) BY <1>0, <1>9 DEF Try
<1>10. CASE Allocated(t) BY <1>0, <1>10 DEF Allocated, Holds, Unlock
<1>11. CASE NeedChunk(t) BY <1>0, <1>11 DEF NeedChunk, Holds
<1>12. CASE GotChunk(t)
  <2>1. /\ at[t] = "held" /\ goal[t] = "persist"
        /\ owner' = [owner EXCEPT !["persistent"] = Nobody]
        /\ UNCHANGED <<stopping, stopper, seen, round, linked, members, doubts>>
    BY <1>12 DEF GotChunk, Holds, Unlock
  <2>2. CASE \E g \in Growing : /\ owner[LockOf[g]] = t
                               /\ at' = [at EXCEPT ![t] = "held"]
                               /\ goal' = [goal EXCEPT ![t] = g]
    <3>1. PICK g \in Growing : /\ owner[LockOf[g]] = t
                               /\ at' = [at EXCEPT ![t] = "held"]
                               /\ goal' = [goal EXCEPT ![t] = g]
      BY <2>2
    <3>2. g \in {"alloc", "small", "index"} OBVIOUS
    <3>3. \/ g = "alloc" /\ LockOf[g] = "pool"
          \/ g = "small" /\ LockOf[g] = "central"
          \/ g = "index" /\ LockOf[g] = "entries"
      BY <3>2
    <3>4. TypeInv' BY <1>0, <2>1, <3>1, <3>2
    <3>5. Fits' BY <1>0, <2>1, <3>1, <3>2
    <3>6. ASSUME NEW u \in T PROVE HasLocks(u)'
      <4>1. CASE u = t BY <1>0, <2>1, <3>1, <3>3, <4>1
      <4>2. CASE u # t
        <5>1. at'[u] = at[u] /\ goal'[u] = goal[u] BY <2>1, <3>1, <4>2
        <5>2. owner["persistent"] = t BY <2>1
        <5>3. at[u] = "held" => LockOf[goal[u]] # "persistent" BY <4>2, <5>2
        <5>4. at[u] = "held" => LockOf[goal[u]] \in Locks
          BY DEF Goals
        <5>. QED BY <2>1, <5>1, <5>3, <5>4
      <4>. QED BY <4>1, <4>2
    <3>. QED BY <3>4, <3>5, <3>6
  <2>3. CASE /\ \A g \in Growing : owner[LockOf[g]] # t
             /\ at' = [at EXCEPT ![t] = "run"]
             /\ goal' = [goal EXCEPT ![t] = "poll"]
    <3>1. owner["entries"] # t BY <2>3
    <3>2. TypeInv' BY <1>0, <2>1, <2>3
    <3>3. Fits' BY <1>0, <2>1, <2>3
    <3>4. ASSUME NEW u \in T PROVE HasLocks(u)'
      <4>1. CASE u = t BY <1>0, <2>1, <2>3, <3>1, <4>1
      <4>2. CASE u # t
        <5>1. at'[u] = at[u] /\ goal'[u] = goal[u] BY <2>1, <2>3, <4>2
        <5>2. owner["persistent"] = t BY <2>1
        <5>3. at[u] = "held" => LockOf[goal[u]] # "persistent" BY <4>2, <5>2
        <5>4. at[u] = "held" => LockOf[goal[u]] \in Locks
          BY DEF Goals
        <5>. QED BY <2>1, <5>1, <5>3, <5>4
      <4>. QED BY <4>1, <4>2
    <3>. QED BY <3>2, <3>3, <3>4
  <2>. QED BY <1>12, <2>2, <2>3 DEF GotChunk, Has, Unlock, Holds
<1>13. CASE Spawn(t) BY <1>0, <1>13 DEF Spawn, Holds, Unlock
<1>14. CASE Create(t) BY <1>0, <1>14 DEF Create, Doubt
<1>15. CASE CreateFails(t) BY <1>0, <1>15 DEF CreateFails
<1>16. CASE Link(t) BY <1>0, <1>16 DEF Link, Holds, Unlock
<1>17. CASE Register(t) BY <1>0, <1>17 DEF Register, Holds, Unlock
<1>18. CASE Exit(t) BY <1>0, <1>18 DEF Exit, Holds, Unlock
<1>19. CASE Begin(t) BY <1>0, <1>19 DEF Begin, Holds
<1>20. CASE Skip(t) BY <1>0, <1>20 DEF Skip
<1>21. CASE StopWorld(t) BY <1>0, <1>21 DEF StopWorld, Doubt, Getm
<1>22. CASE Count(t) BY <1>0, <1>22 DEF Count
<1>23. CASE Compare(t) BY <1>0, <1>23 DEF Compare
<1>24. CASE Sweep(t) BY <1>0, <1>24 DEF Sweep
<1>25. CASE Swept(t)
  <2>1. /\ at[t] = "held" /\ goal[t] = "sweep" /\ owner["pool"] = t
        /\ at' = [at EXCEPT ![t] = "started"]
        /\ goal' = [goal EXCEPT ![t] = "collect"]
        /\ owner' = [owner EXCEPT !["pool"] = Nobody]
    BY <1>25 DEF Swept, Holds
  <2>2. TypeInv'
    <3>1. /\ at' \in [T -> Places] /\ goal' \in [T -> Goals]
          /\ owner' \in [Locks -> T \cup {Nobody}]
      BY <2>1
    <3>2. doubts' \in [T -> SUBSET {"leaving", "starting", "alone", "rival"}]
      BY <1>25 DEF Swept
    <3>3. UNCHANGED <<stopper, seen, round, linked, members>> /\ stopping' = FALSE
      BY <1>25 DEF Swept
    <3>. HIDE DEF Places, Goals, Locks
    <3>. QED BY <3>1, <3>2, <3>3
  <2>3. Fits' BY <1>0, <1>25, <2>1 DEF Swept
  <2>4. ASSUME NEW u \in T PROVE HasLocks(u)'
    <3>0. /\ owner["central"] # t /\ owner["entries"] # t /\ Nobody # t
          /\ owner'["pool"] = Nobody /\ owner'["central"] = owner["central"]
          /\ owner'["entries"] = owner["entries"]
      BY <1>0, <2>1
    <3>1. CASE u = t
      <4>1. \A l \in {"pool", "central", "entries"} : owner'[l] # t BY <3>0
      <4>2. at'[t] = "started" BY <2>1
      <4>. HIDE DEF Locks, LockOf, Goals
      <4>. QED BY <3>1, <4>1, <4>2
    <3>2. CASE u # t
      <4>1. at'[u] = at[u] /\ goal'[u] = goal[u] BY <2>1, <3>2
      <4>2. \A l \in {"pool", "central", "entries"} : owner'[l] \in {owner[l], Nobody}
        BY <3>0
      <4>3. at[u] = "held" => LockOf[goal[u]] # "pool" BY <2>1, <3>2
      <4>4. at[u] = "held" => goal[u] \in DOMAIN LockOf
        BY DEF Goals
      <4>5. at[u] = "held" => LockOf[goal[u]] \in Locks BY <4>4
      <4>6. at'[u] = "held" => owner'[LockOf[goal'[u]]] = u
        BY <2>1, <4>1, <4>3, <4>5
      <4>7. HasLocks(u) /\ Nobody # u BY <1>0
      <4>. HIDE DEF Locks, LockOf, Goals
      <4>. QED BY <4>1, <4>2, <4>6, <4>7
    <3>. QED BY <3>1, <3>2
  <2>. QED BY <2>2, <2>3, <2>4
<1>26. CASE StatsRead(t)
  <2>1. /\ at[t] = "stopped" /\ goal[t] = "stats" /\ goal' = goal /\ owner' = owner
        /\ at' = [at EXCEPT ![t] = "started"]
    BY <1>26 DEF StatsRead
  <2>2. TypeInv' BY <1>0, <1>26 DEF StatsRead
  <2>3. Fits' BY <1>0, <1>26, <2>1 DEF StatsRead
  <2>4. ASSUME NEW u \in T PROVE HasLocks(u)'
    <3>1. HasLocks(u) /\ at'[u] \in {at[u], "started"} /\ (at'[u] # at[u] => at[u] = "stopped")
      BY <2>1
    <3>. HIDE DEF Locks, LockOf, Goals
    <3>. QED BY <2>1, <3>1
  <2>. QED BY <2>2, <2>3, <2>4
<1>27. CASE Again(t) BY <1>0, <1>27 DEF Again
<1>28. CASE FinishCall(t) BY <1>0, <1>28 DEF FinishCall
<1>29. CASE Indexed(t) BY <1>0, <1>29 DEF Indexed, Holds, Unlock
<1>30. CASE SweepOn(t) BY <1>0, <1>30 DEF SweepOn, Holds, Unlock
<1>31. CASE Index(t) BY <1>0, <1>31 DEF Index
<1>. QED BY <1>1, <1>2, <1>3, <1>4, <1>5, <1>6, <1>7, <1>8, <1>9, <1>10,
           <1>11, <1>12, <1>13, <1>14, <1>15, <1>16, <1>17, <1>18, <1>19,
           <1>20, <1>21, <1>22, <1>23, <1>24, <1>25, <1>26, <1>27, <1>28,
           <1>29, <1>30, <1>31, Asked
        DEF WorldCall, WorldStep

\* A thread enters the wait, another leaves it.
LEMMA SamePolling ==
    ASSUME waiting' = waiting, CountInv,
           \A u \in T : at'[u] \in {"wait", "leave"} <=> at[u] \in {"wait", "leave"}
    PROVE  CountInv'
BY DEF CountInv, Polling

LEMMA MorePolling ==
    ASSUME NEW t \in T, Base, CountInv, Enter(t)
    PROVE  CountInv'
<1>1. IsFiniteSet(Polling) BY StopWorldAssumption, FS_Subset DEF Polling
<1>2. at \in [T -> Places] /\ at[t] = "enter" /\ at' = [at EXCEPT ![t] = "wait"]
  BY DEF Base, TypeInv, Enter, GoesTo
<1>3. t \notin Polling /\ Polling' = Polling \cup {t} BY <1>2 DEF Polling
<1>4. Cardinality(Polling') = Cardinality(Polling) + 1
  BY <1>1, <1>3, FS_AddElement
<1>. QED BY <1>4 DEF CountInv, Enter

LEMMA LessPolling ==
    ASSUME NEW t \in T, Base, CountInv, Leave(t)
    PROVE  CountInv'
<1>1. IsFiniteSet(Polling) BY StopWorldAssumption, FS_Subset DEF Polling
<1>2. at \in [T -> Places] /\ at[t] = "leave" /\ at'[t] \in {"run", "try"}
      /\ \A u \in T \ {t} : at'[u] = at[u]
  BY DEF Base, TypeInv, Leave, GoesTo, PastPoll
<1>3. t \in Polling /\ Polling' = Polling \ {t} BY <1>2 DEF Polling
<1>4. Cardinality(Polling') = Cardinality(Polling) - 1
  BY <1>1, <1>3, FS_RemoveElement
<1>. QED BY <1>4 DEF CountInv, Leave

LEMMA CountStep ==
    ASSUME Base, CountInv, NEW t \in T, WorldCall(t) \/ WorldStep(t)
    PROVE  CountInv'
<1>0. at \in [T -> Places] BY DEF Base, TypeInv
<1>. USE <1>0, SamePolling DEF GoesTo, world
<1>1. CASE Poll(t) BY <1>1 DEF Poll
<1>2. CASE Collect(t) BY <1>2 DEF Collect, Unlocked, Doubt
<1>3. CASE ReadStats(t) BY <1>3 DEF ReadStats, Unlocked, Doubt
<1>4. ASSUME NEW g \in Requests, Lock(t, g)
      PROVE  CountInv'
  BY <1>4 DEF Lock, Requests
<1>5. CASE Check(t) BY <1>5 DEF Check, PastPoll, Getm
<1>6. CASE Enter(t) BY <1>6, MorePolling
<1>7. CASE SeeStart(t) BY <1>7 DEF SeeStart
<1>8. CASE Leave(t) BY <1>8, LessPolling
<1>9. CASE Try(t) BY <1>9 DEF Try
<1>10. CASE Allocated(t) BY <1>10 DEF Allocated, Holds, Unlock
<1>11. CASE NeedChunk(t) BY <1>11 DEF NeedChunk, Holds
<1>12. CASE GotChunk(t) BY <1>12 DEF GotChunk, Holds, Unlock
<1>13. CASE Spawn(t) BY <1>13 DEF Spawn, Holds, Unlock
<1>14. CASE Create(t) BY <1>14 DEF Create, Doubt
<1>15. CASE CreateFails(t) BY <1>15 DEF CreateFails
<1>16. CASE Link(t) BY <1>16 DEF Link, Holds, Unlock
<1>17. CASE Register(t) BY <1>17 DEF Register, Holds, Unlock
<1>18. CASE Exit(t) BY <1>18 DEF Exit, Holds, Unlock
<1>19. CASE Begin(t) BY <1>19 DEF Begin, Holds
<1>20. CASE Skip(t) BY <1>20 DEF Skip
<1>21. CASE StopWorld(t) BY <1>21 DEF StopWorld, Doubt, Getm
<1>22. CASE Count(t) BY <1>22 DEF Count
<1>23. CASE Compare(t) BY <1>23 DEF Compare
<1>24. CASE Sweep(t) BY <1>24 DEF Sweep
<1>25. CASE Swept(t) BY <1>25 DEF Swept, Holds
<1>26. CASE StatsRead(t) BY <1>26 DEF StatsRead
<1>27. CASE Again(t) BY <1>27 DEF Again
<1>28. CASE FinishCall(t) BY <1>28 DEF FinishCall
<1>29. CASE Indexed(t) BY <1>29 DEF Indexed, Holds, Unlock
<1>30. CASE SweepOn(t) BY <1>30 DEF SweepOn, Holds, Unlock
<1>31. CASE Index(t) BY <1>31 DEF Index
<1>. QED BY <1>1, <1>2, <1>3, <1>4, <1>5, <1>6, <1>7, <1>8, <1>9, <1>10,
           <1>11, <1>12, <1>13, <1>14, <1>15, <1>16, <1>17, <1>18, <1>19,
           <1>20, <1>21, <1>22, <1>23, <1>24, <1>25, <1>26, <1>27, <1>28,
           <1>29, <1>30, <1>31, Asked
        DEF WorldCall, WorldStep

-----------------------------------------------------------------------------
(***************************************************************************)
(* One stopper                                                             *)
(***************************************************************************)
LEMMA OnlyMember ==
    ASSUME Base, NEW t \in members, ~(Cardinality(members) > 1)
    PROVE  members = {t}
<1>1. IsFiniteSet(members)
  BY StopWorldAssumption, FS_Subset DEF Base, TypeInv
<1>. SUFFICES ASSUME NEW u \in members, u # t PROVE FALSE OBVIOUS
<1>2. IsFiniteSet({t}) /\ Cardinality({t}) = 1 BY FS_Singleton
<1>3. Cardinality({t} \cup {u}) = 2 BY <1>2, FS_AddElement
<1>4. Cardinality({t} \cup {u}) <= Cardinality(members) /\ Cardinality(members) \in Nat
  BY <1>1, FS_Subset, FS_CardinalityType
<1>. QED BY <1>3, <1>4

\* A call that takes no lock is alone, or is marked as one that is not.
LEMMA Unguarded ==
    ASSUME Base, NEW t \in T, at[t] = "run", ~(Cardinality(members) > 1),
           Unlocked(t), at' = [at EXCEPT ![t] = "stop"]
    PROVE  "alone" \in doubts'[t] \/ Lonely(t)'
<1>1. t \in members BY DEF Base, Fits, FitsAt
<1>2. members = {t} BY <1>1, OnlyMember
<1>3. CASE \E u \in T : Starting(u)
  BY <1>3 DEF Unlocked, Doubt, Base, TypeInv
<1>4. CASE ~\E u \in T : Starting(u)
  BY <1>2, <1>4 DEF Starting, Lonely, Base, TypeInv
<1>. QED BY <1>3, <1>4

LEMMA GuardStep ==
    ASSUME Base, GuardInv, NEW t \in T, WorldCall(t) \/ WorldStep(t), Base'
    PROVE  GuardInv'
<1>0. /\ at \in [T -> Places] /\ goal \in [T -> Goals]
      /\ owner \in [Locks -> T \cup {Nobody}]
      /\ doubts \in [T -> SUBSET {"leaving", "starting", "alone", "rival"}]
      /\ Cardinality(members) \in Nat
  BY StopWorldAssumption, FS_Subset, FS_CardinalityType DEF Base, TypeInv
<1>. USE <1>0 DEF GuardInv, Guarded, Inside, Lonely, GoesTo, Aim, world, threads,
                  Base, Fits, FitsAt, LockInv, HasLocks, LockOf, Locks, Goals,
                  Growing, Sweeping
<1>1. CASE Poll(t) BY <1>1 DEF Poll
<1>2. CASE Collect(t)
  <2>1. CASE ~Alone
    BY <1>2, <2>1 DEF Collect
  <2>2. CASE Alone
    <3>1. "alone" \in doubts'[t] \/ Lonely(t)'
      BY <1>2, <2>2, Unguarded DEF Collect, Alone
    <3>2. \A u \in T \ {t} : Guarded(u)' BY <1>2, <2>2 DEF Collect, Unlocked
    <3>. QED BY <3>1, <3>2
  <2>. QED BY <2>1, <2>2
<1>3. CASE ReadStats(t)
  <2>1. CASE Cardinality(members) > 1
    BY <1>3, <2>1 DEF ReadStats
  <2>2. CASE ~(Cardinality(members) > 1)
    <3>1. "alone" \in doubts'[t] \/ Lonely(t)'
      BY <1>3, <2>2, Unguarded DEF ReadStats, Alone
    <3>2. \A u \in T \ {t} : Guarded(u)' BY <1>3, <2>2 DEF ReadStats, Unlocked
    <3>. QED BY <3>1, <3>2
  <2>. QED BY <2>1, <2>2
<1>4. ASSUME NEW g \in Requests, Lock(t, g)
      PROVE  GuardInv'
  BY <1>4 DEF Lock, Requests
<1>5. CASE Check(t) BY <1>5 DEF Check, PastPoll, Getm
<1>6. CASE Enter(t) BY <1>6 DEF Enter
<1>7. CASE SeeStart(t) BY <1>7 DEF SeeStart
<1>8. CASE Leave(t) BY <1>8 DEF Leave, PastPoll
<1>9. CASE Try(t)
  <2>1. owner'["gc"] = owner["gc"] \/ owner["gc"] = Nobody BY <1>9 DEF Try
  <2>2. \A u \in T : Inside(u)' => Inside(u) BY <1>9 DEF Try
  <2>3. \A u \in T : at[u] \in {"absent", "dead"} => at'[u] = at[u]
    BY <1>9 DEF Try
  <2>4. doubts' = doubts /\ Nobody \notin T BY <1>9, StopWorldAssumption DEF Try
  <2>. QED BY <2>1, <2>2, <2>3, <2>4
<1>10. CASE Allocated(t) BY <1>10 DEF Allocated, Holds, Unlock
<1>11. CASE NeedChunk(t) BY <1>11 DEF NeedChunk, Holds
<1>12. CASE GotChunk(t) BY <1>12 DEF GotChunk, Holds, Unlock
<1>13. CASE Spawn(t) BY <1>13 DEF Spawn, Holds, Unlock
<1>14. CASE Create(t) BY <1>14 DEF Create, Doubt
<1>15. CASE CreateFails(t) BY <1>15 DEF CreateFails
<1>16. CASE Link(t) BY <1>16 DEF Link, Holds, Unlock
<1>17. CASE Register(t) BY <1>17 DEF Register, Holds, Unlock
<1>18. CASE Exit(t) BY <1>18 DEF Exit, Holds, Unlock
<1>19. CASE Begin(t) BY <1>19 DEF Begin, Holds
<1>20. CASE Skip(t) BY <1>20 DEF Skip
<1>21. CASE StopWorld(t) BY <1>21 DEF StopWorld, Doubt, Getm
<1>22. CASE Count(t) BY <1>22 DEF Count
<1>23. CASE Compare(t) BY <1>23 DEF Compare
<1>24. CASE Sweep(t) BY <1>24 DEF Sweep
<1>25. CASE Swept(t) BY <1>25 DEF Swept, Holds
<1>26. CASE StatsRead(t) BY <1>26 DEF StatsRead
<1>27. CASE Again(t) BY <1>27 DEF Again
<1>28. CASE FinishCall(t) BY <1>28 DEF FinishCall
<1>29. CASE Indexed(t)
  <2>1. /\ at[t] = "held" /\ goal[t] = "index" /\ doubts' = doubts
        /\ at' = [at EXCEPT ![t] = "started"]
        /\ owner' = [owner EXCEPT !["entries"] = Nobody]
        /\ goal' = [goal EXCEPT ![t] = "poll"]
    BY <1>29 DEF Indexed, Holds, Unlock
  <2>2. owner'["gc"] = owner["gc"] /\ owner'["entries"] = Nobody /\ Nobody \notin T
    BY <2>1, StopWorldAssumption
  <2>3. \A u \in T : Inside(u)' => Inside(u) BY <2>1, <2>2
  <2>4. \A u \in T : at[u] \in {"absent", "dead"} => at'[u] = at[u] BY <2>1
  <2>. QED BY <2>1, <2>2, <2>3, <2>4
<1>30. CASE SweepOn(t)
  <2>1. /\ at[t] = "held" /\ goal[t] \in {"unindex", "push"} /\ doubts' = doubts
        /\ at' = [at EXCEPT ![t] = "check"]
        /\ owner' = [owner EXCEPT ![LockOf[goal[t]]] = Nobody]
        /\ \E g \in {"push", "sweep"} : goal' = [goal EXCEPT ![t] = g]
    BY <1>30 DEF SweepOn, Holds, Unlock
  <2>2. Nobody \notin T /\ LockOf[goal[t]] \in {"entries", "central"}
    BY <2>1, StopWorldAssumption
  <2>3. owner'["gc"] = owner["gc"] /\ owner'["entries"] \in {owner["entries"], Nobody}
    BY <2>1, <2>2
  <2>4. \A u \in T : Inside(u)' => Inside(u) BY <2>1, <2>2, <2>3
  <2>5. \A u \in T : at[u] \in {"absent", "dead"} => at'[u] = at[u] BY <2>1
  <2>. QED BY <2>1, <2>2, <2>3, <2>4, <2>5
<1>31. CASE Index(t) BY <1>31 DEF Index
<1>. QED BY <1>1, <1>2, <1>3, <1>4, <1>5, <1>6, <1>7, <1>8, <1>9, <1>10,
           <1>11, <1>12, <1>13, <1>14, <1>15, <1>16, <1>17, <1>18, <1>19,
           <1>20, <1>21, <1>22, <1>23, <1>24, <1>25, <1>26, <1>27, <1>28,
           <1>29, <1>30, <1>31, Asked
        DEF WorldCall, WorldStep

-----------------------------------------------------------------------------
(***************************************************************************)
(* Everybody waits                                                         *)
(***************************************************************************)
\* When enough have been counted, it is everybody.
LEMMA AllCounted ==
    ASSUME Base, CountInv, NEW u \in T, Clean(u), CleanStop(u),
           at[u] = "compare", Enough(u)
    PROVE  \A v \in members \ {u} : at[v] = "wait"
<1> DEFINE others == members \ {u}
<1>1. u \in members /\ members \subseteq T
  BY DEF Base, TypeInv, Fits, FitsAt
<1>2. Polling \subseteq others
  BY DEF Polling, CleanStop, Starting
<1>3. IsFiniteSet(members) /\ IsFiniteSet(others)
  BY <1>1, StopWorldAssumption, FS_Subset
<1>4. Cardinality(others) = Cardinality(members) - 1
  BY <1>1, <1>3, FS_RemoveElement
<1>5. /\ Cardinality(Polling) \in Nat /\ Cardinality(others) \in Nat
      /\ Cardinality(members) \in Nat /\ Cardinality(T) \in Nat
  BY <1>2, <1>3, FS_Subset, FS_CardinalityType, StopWorldAssumption
<1>6. seen[u] <= Cardinality(Polling) /\ seen[u] + 1 >= Cardinality(members)
      /\ seen[u] \in Nat
  BY <1>5 DEF CleanStop, CountInv, Enough, Base, TypeInv
<1>. HIDE DEF others
<1>7. Cardinality(Polling) >= Cardinality(others) BY <1>4, <1>5, <1>6
<1>8. Polling = others
  BY <1>2, <1>3, <1>5, <1>7, FS_Subset
<1>. QED BY <1>8 DEF others, Polling, CleanStop

LEMMA NobodyWaits ==
    ASSUME CountInv, ~(waiting > 0)
    PROVE  \A u \in T : at[u] # "leave"
<1>1. IsFiniteSet(Polling) BY StopWorldAssumption, FS_Subset DEF Polling
<1>2. Cardinality(Polling) = 0 BY <1>1, FS_CardinalityType DEF CountInv
<1>3. Polling = {} BY <1>1, <1>2, FS_EmptySet
<1>. QED BY <1>3 DEF Polling

LEMMA StopStep ==
    ASSUME Base, CountInv, StopInv, NEW t \in T, WorldCall(t) \/ WorldStep(t), Base'
    PROVE  StopInv'
<1>. SUFFICES ASSUME NEW u \in T, Clean(u)' PROVE CleanStop(u)'
  BY DEF StopInv
<1>0. /\ at \in [T -> Places] /\ goal \in [T -> Goals]
      /\ seen \in [T -> 0 .. Cardinality(T)]
      /\ doubts \in [T -> SUBSET {"leaving", "starting", "alone", "rival"}]
      /\ Cardinality(members) \in Nat /\ waiting \in 0 .. Cardinality(T)
      /\ Cardinality(T) \in Nat
      /\ members \subseteq linked /\ linked \subseteq T
  BY Counted, StopWorldAssumption, FS_Subset, FS_CardinalityType DEF Base, TypeInv
<1>. USE <1>0 DEF StopInv, Clean, CleanStop, Stops, Starting, Collects, GoesTo, Aim,
                  world, threads, Base, Fits, FitsAt, Growing, Sweeping
<1>1. CASE Poll(t) BY <1>1 DEF Poll
<1>2. CASE Collect(t) BY <1>2 DEF Collect, Unlocked, Doubt
<1>3. CASE ReadStats(t) BY <1>3 DEF ReadStats, Unlocked, Doubt
<1>4. ASSUME NEW g \in Requests, Lock(t, g)
      PROVE  CleanStop(u)'
  BY <1>4 DEF Lock, Requests
<1>5. CASE Check(t) BY <1>5 DEF Check, PastPoll, Getm
<1>6. CASE Enter(t) BY <1>6 DEF Enter
<1>7. CASE SeeStart(t) BY <1>7 DEF SeeStart
<1>8. CASE Leave(t) BY <1>8 DEF Leave, PastPoll
<1>9. CASE Try(t) BY <1>9 DEF Try
<1>10. CASE Allocated(t) BY <1>10 DEF Allocated, Holds, Unlock
<1>11. CASE NeedChunk(t) BY <1>11 DEF NeedChunk, Holds
<1>12. CASE GotChunk(t) BY <1>12 DEF GotChunk, Holds, Unlock
<1>13. CASE Spawn(t) BY <1>13 DEF Spawn, Holds, Unlock
<1>14. CASE Create(t)
  <2>1. PICK c \in T : /\ at[t] = "create"
                       /\ at' = [at EXCEPT ![t] = "run", ![c] = "check"]
                       /\ goal' = [goal EXCEPT ![t] = "poll", ![c] = "link"]
    BY <1>14 DEF Create
  <2>2. Stops(u) BY <2>1
  <2>3. doubts'[u] = doubts[u] \cup {"starting"} BY <1>14, <2>2 DEF Create, Doubt
  <2>. QED BY <2>3
<1>15. CASE CreateFails(t) BY <1>15 DEF CreateFails
<1>16. CASE Link(t) BY <1>16 DEF Link, Holds, Unlock
<1>17. CASE Register(t) BY <1>17 DEF Register, Holds, Unlock
<1>18. CASE Exit(t) BY <1>18 DEF Exit, Holds, Unlock
<1>19. CASE Begin(t) BY <1>19 DEF Begin, Holds
<1>20. CASE Skip(t) BY <1>20 DEF Skip
<1>21. CASE StopWorld(t)
  <2>1. /\ at[t] = "stop" /\ at' = [at EXCEPT ![t] = "count"]
        /\ stopping' /\ stopper' = Getm(t) /\ goal' = goal
        /\ UNCHANGED <<waiting, seen, members>>
    BY <1>21 DEF StopWorld
  <2>2. CASE u = t
    <3>1. doubts'[t] = (doubts[t] \cap {"alone"})
               \cup Doubt("leaving", waiting > 0)
               \cup Doubt("starting", \E v \in T : Starting(v))
               \cup Doubt("rival", \E v \in T : Stops(v))
      BY <1>21 DEF StopWorld
    <3>2. ~(waiting > 0) /\ (\A v \in T : ~Starting(v)) /\ (\A v \in T : ~Stops(v))
      BY <2>2, <3>1 DEF Doubt
    <3>3. \A v \in T : at[v] # "leave" BY <3>2, NobodyWaits
    <3>4. t \in members /\ stopper' = t BY <2>1 DEF Getm
    <3>. QED BY <2>1, <2>2, <3>2, <3>3, <3>4
  <2>3. CASE u # t
    <3>1. doubts'[u] = doubts[u] \cup Doubt("rival", Stops(u))
      BY <1>21, <2>3 DEF StopWorld
    <3>2. Stops(u) BY <2>1, <2>3
    <3>. QED BY <3>1, <3>2 DEF Doubt
  <2>. QED BY <2>2, <2>3
<1>22. CASE Count(t) BY <1>22 DEF Count
<1>23. CASE Compare(t)
  <2>1. CASE u = t /\ Enough(t)
    BY <1>23, <2>1, AllCounted DEF Compare
  <2>2. CASE ~(u = t /\ Enough(t)) BY <1>23, <2>2 DEF Compare
  <2>. QED BY <2>1, <2>2
<1>24. CASE Sweep(t) BY <1>24 DEF Sweep
<1>25. CASE Swept(t) BY <1>25 DEF Swept, Holds
<1>26. CASE StatsRead(t) BY <1>26 DEF StatsRead
<1>27. CASE Again(t) BY <1>27 DEF Again
<1>28. CASE FinishCall(t) BY <1>28 DEF FinishCall
<1>29. CASE Indexed(t) BY <1>29 DEF Indexed, Holds, Unlock
<1>30. CASE SweepOn(t) BY <1>30 DEF SweepOn, Holds, Unlock
<1>31. CASE Index(t) BY <1>31 DEF Index
<1>. QED BY <1>1, <1>2, <1>3, <1>4, <1>5, <1>6, <1>7, <1>8, <1>9, <1>10,
           <1>11, <1>12, <1>13, <1>14, <1>15, <1>16, <1>17, <1>18, <1>19,
           <1>20, <1>21, <1>22, <1>23, <1>24, <1>25, <1>26, <1>27, <1>28,
           <1>29, <1>30, <1>31, Asked
        DEF WorldCall, WorldStep

-----------------------------------------------------------------------------
(***************************************************************************)
(* The theorems                                                            *)
(***************************************************************************)
LEMMA WorldInitInv == WorldInit => WorldInv
<1>. SUFFICES ASSUME WorldInit PROVE WorldInv OBVIOUS
<1>1. /\ IsFiniteSet(T) /\ Main \in Running /\ Running \subseteq T
      /\ Cardinality(T) \in Nat
  BY StopWorldAssumption, FS_CardinalityType
<1>2. Base
  <2>1. TypeInv
    <3>1. doubts \in [T -> SUBSET {"leaving", "starting", "alone", "rival"}]
      BY DEF WorldInit
    <3>2. seen \in [T -> 0 .. Cardinality(T)] /\ round \in [T -> 1 .. 2]
      BY <1>1 DEF WorldInit
    <3>3. "poll" \in Goals /\ goal \in [T -> Goals] BY DEF WorldInit, Goals
    <3>. QED BY <1>1, <3>1, <3>2, <3>3 DEF WorldInit, TypeInv, Places
  <2>2. Fits BY <1>1 DEF WorldInit, Fits, FitsAt, Sweeping
  <2>3. LockInv BY <1>1, StopWorldAssumption DEF WorldInit, LockInv, HasLocks, Locks
  <2>. QED BY <2>1, <2>2, <2>3 DEF Base
<1>3. Polling = {} BY <1>1 DEF WorldInit, Polling
<1>4. CountInv BY <1>3, FS_EmptySet DEF WorldInit, CountInv
<1>5. GuardInv
  BY <1>1, StopWorldAssumption
  DEF WorldInit, GuardInv, Guarded, Inside, Sweeping, Locks
<1>6. StopInv BY <1>1 DEF WorldInit, StopInv, Clean, Stops, Sweeping
<1>. QED BY <1>2, <1>4, <1>5, <1>6 DEF WorldInv

LEMMA WorldNextInv == WorldInv /\ [WorldNext]_worldVars => WorldInv'
<1>. SUFFICES ASSUME WorldInv, [WorldNext]_worldVars PROVE WorldInv' OBVIOUS
<1>1. CASE UNCHANGED worldVars
  <2>. USE <1>1 DEF worldVars, WorldInv
  <2>1. TypeInv' BY DEF Base, TypeInv
  <2>2. Fits' BY DEF Base, Fits, FitsAt
  <2>3. LockInv' BY DEF Base, LockInv, HasLocks
  <2>4. CountInv' BY DEF CountInv, Polling
  <2>5. GuardInv' BY DEF GuardInv, Guarded, Inside, Lonely
  <2>6. StopInv' BY DEF StopInv, Clean, CleanStop, Stops, Starting, Collects
  <2>. QED BY <2>1, <2>2, <2>3, <2>4, <2>5, <2>6 DEF Base
<1>2. CASE WorldNext
  <2>1. PICK t \in T : WorldCall(t) \/ WorldStep(t) BY <1>2 DEF WorldNext
  <2>2. Base' BY <2>1, BaseStep DEF WorldInv
  <2>3. CountInv' BY <2>1, CountStep DEF WorldInv
  <2>4. GuardInv' BY <2>1, <2>2, GuardStep DEF WorldInv
  <2>5. StopInv' BY <2>1, <2>2, StopStep DEF WorldInv
  <2>. QED BY <2>2, <2>3, <2>4, <2>5 DEF WorldInv
<1>. QED BY <1>1, <1>2

\* The inductive invariant of stopping the world.
THEOREM StopInvariant == WorldSpec => []WorldInv
<1>. QED BY WorldInitInv, WorldNextInv, PTL DEF WorldSpec

\* Type correctness: runtime_world_waiting is never below zero, nor above the
\* number of threads.
THEOREM StopTypes == WorldSpec => []WorldTypeOK
<1>1. WorldInv => WorldTypeOK
  BY Counted DEF WorldInv, Base, TypeInv, WorldTypeOK
<1>. QED BY <1>1, StopInvariant, PTL

\* Two threads stop the world at once only when one of them went without the
\* lock while another was starting.
THEOREM SingleStopper == WorldSpec => []OneStopper
<1>1. WorldInv => OneStopper
  <2>. SUFFICES ASSUME WorldInv, NEW t \in T, NEW u \in T, Stops(t), Stops(u), t # u,
                       "alone" \notin doubts[t] \cup doubts[u]
                PROVE  FALSE
    BY DEF OneStopper
  <2>1. Inside(t) /\ Inside(u) BY DEF Stops, Inside
  <2>2. /\ owner["gc"] = t \/ Lonely(t)
        /\ owner["gc"] = u \/ Lonely(u)
    BY <2>1 DEF WorldInv, GuardInv, Guarded
  <2>3. at[t] \notin {"absent", "dead"} /\ at[u] \notin {"absent", "dead"}
    BY DEF WorldInv, Base, Fits, FitsAt, Stops
  <2>. QED BY <2>2, <2>3 DEF Lonely
<1>. QED BY <1>1, StopInvariant, PTL

\* While a thread collects, the others wait, unless something came in between.
THEOREM OthersWait == WorldSpec => []SettledStop
<1>1. WorldInv => SettledStop
  <2>. SUFFICES ASSUME WorldInv, NEW t \in T, doubts[t] \subseteq {"alone"}, Collects(t)
                PROVE  \A u \in members \ {t} : at[u] = "wait"
    BY DEF SettledStop, AllWait
  <2>1. Clean(t) BY DEF Clean, Stops, Collects
  <2>. QED BY <2>1 DEF WorldInv, StopInv, CleanStop
<1>. QED BY <1>1, StopInvariant, PTL
===============================================================================
