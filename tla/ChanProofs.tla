----------------------------- MODULE ChanProofs -----------------------------
(***************************************************************************)
(* Proofs about Chan for every number of goroutines and channels, every    *)
(* capacity and every call: with one kernel thread, or with many and no    *)
(* select, nobody waits for what is there, records belong to calls that    *)
(* wait, a call that was matched is woken once, sends that return have     *)
(* delivered, and every call takes effect at one moment on a first-in      *)
(* first-out queue.  With many threads and a select MatchedOnce fails.     *)
(***************************************************************************)
EXTENDS Chan, QueueLemmas, FiniteSetTheorems

\* One thread, or no select.
OneThreadOrPlain == Parallel => \A o \in Calls : ~o.sel

Locking == {"lock", "try", "queue", "wake", "set", "drain", "unlock"}
Deciding == {"idle", "lock", "try", "queue", "parked", "woken"}
Clear == {"idle", "lock", "try", "queue", "parked"}
Waits == {"queue", "parked", "woken", "clean"}

Cases(g) == op[g].cases

\* Where a call is fits what it was called with.
CallOf(g) ==
    /\ pc[g] = "idle" <=> op[g] = None
    /\ wk[g] = None <=> pc[g] \notin {"wake", "set"}
    /\ res[g] = None <=> pc[g] \in Deciding
    /\ pc[g] # "idle" => DOMAIN elem[g] = DOMAIN Cases(g)
    /\ pc[g] \notin {"idle", "clean", "return"} => at[g] \in DOMAIN Cases(g)
    /\ pc[g] \in {"lock", "parked", "woken"} => at[g] = 1
    /\ pc[g] = "clean" =>
         /\ op[g].sel
         /\ at[g] \in 1 .. (Len(Cases(g)) + 1)
         /\ res[g].case = done[g]
    /\ pc[g] \in Waits => \A i \in DOMAIN Cases(g) : Cases(g)[i].dir # "close"
    /\ pc[g] = "drain" => Cases(g)[at[g]].dir = "close"
    /\ pc[g] \in {"wake", "set", "drain"} /\ Cases(g)[at[g]].dir = "close" =>
         closed[Cases(g)[at[g]].c]
    /\ pc[g] \in Clear => done[g] = 0
    /\ pc[g] \in {"woken", "clean"} => done[g] \in DOMAIN Cases(g)
    /\ pc[g] = "woken" /\ ~recvok[g] => closed[Cases(g)[done[g]].c]

CallInv == \A g \in G : CallOf(g)

\* A call holds the locks it has taken, and nobody else holds one.
LockInv ==
    /\ \A c \in C : lock[c] # None =>
         /\ pc[lock[c]] \in Locking
         /\ c \in Channels(op[lock[c]]) \ todo[lock[c]]
    /\ \A g \in G : pc[g] \in Locking =>
         /\ \A c \in Channels(op[g]) \ todo[g] : lock[c] = g
         /\ todo[g] \subseteq Channels(op[g])
         /\ todo[g] = {} <=> pc[g] # "lock"

\* One goroutine at a time is between two parks.
SoloInv ==
    ~Parallel => \A g, h \in G : pc[g] \notin Resting /\ pc[h] \notin Resting => g = h

\* A wait record belongs to a case that nobody has taken, of a call that waits.
RecordOf(r, d, c) ==
    /\ r.i \in DOMAIN Cases(r.g)
    /\ Cases(r.g)[r.i] = [dir |-> d, c |-> c]
    /\ r.sel = op[r.g].sel
    /\ pc[r.g] \in Waits
    /\ pc[r.g] = "queue" => r.i < at[r.g]
    /\ pc[r.g] = "woken" => r.sel /\ r.i # done[r.g]
    /\ pc[r.g] = "clean" => r.i # done[r.g] /\ r.i >= at[r.g]

Dirs == {"send", "recv"}
Q(d, c) == IF d = "send" THEN sendq[c] ELSE recvq[c]
Unique(s) == \A j, k \in DOMAIN s : s[j] = s[k] => j = k

RecordInv ==
    \A c \in C, d \in Dirs :
        Unique(Q(d, c)) /\ \A r \in Range(Q(d, c)) : RecordOf(r, d, c)

\* A call that is about to be woken is parked; its record is in no queue, and
\* nobody else is about to wake it.
WokenBy(w) ==
    LET t == w.g IN
    /\ pc[t] = "parked" /\ w.i \in DOMAIN Cases(t) /\ w.sel = op[t].sel
    /\ \A c \in C, d \in Dirs : \A r \in Range(Q(d, c)) : r.g # t \/ r.i # w.i
    /\ ~w.ok => closed[Cases(t)[w.i].c]

WakeInv ==
    /\ \A g \in G : wk[g] # None => WokenBy(wk[g])
    /\ \A g, h \in G : wk[g] # None /\ wk[h] # None /\ wk[g].g = wk[h].g => g = h

\* The places of the ring buffer that are in use begin at recvx and end before
\* sendx.
RingInv ==
    \A c \in C :
        IF cap[c] = 0 THEN sendx[c] = 0 /\ recvx[c] = 0
        ELSE /\ recvx[c] \in 0 .. (cap[c] - 1)
             /\ sendx[c] = (recvx[c] + qcount[c]) % cap[c]

\* The cases a call has tried still cannot proceed, its own records aside.
CaseStuck(g, i) ==
    LET c == Cases(g)[i].c IN
    /\ ~closed[c]
    /\ Cases(g)[i].dir = "send" => Waiters(recvq[c]) \subseteq {g} /\ qcount[c] = cap[c]
    /\ Cases(g)[i].dir = "recv" => Waiters(sendq[c]) \subseteq {g} /\ qcount[c] = 0

TriedInv ==
    \A g \in G : pc[g] \in {"try", "queue"} =>
        \A i \in DOMAIN Cases(g) :
            pc[g] = "queue" \/ i < at[g] => CaseStuck(g, i)

\* Whoever waits, waits for something.  While a close is on its way the waiters
\* it has not come to may be left.
Closing(c) ==
    \E g \in G : /\ lock[c] = g /\ pc[g] \in {"wake", "set", "drain"}
                 /\ Cases(g)[at[g]] = [dir |-> "close", c |-> c]

WaitersOf(c) ==
    /\ Waiters(recvq[c]) # {} => qcount[c] = 0
    /\ Waiters(sendq[c]) # {} => qcount[c] = cap[c]
    /\ \A g \in Waiters(recvq[c]), h \in Waiters(sendq[c]) : g = h
    /\ Waiters(recvq[c]) # {} \/ Waiters(sendq[c]) # {} => ~closed[c] \/ Closing(c)

WaitersInv == \A c \in C : WaitersOf(c)

\* A plain send that is on its way out has delivered its value.
DeliveredOf(g) ==
    pc[g] \in {"wake", "set", "drain", "unlock", "return"} /\ ~op[g].sel =>
        /\ res[g].case \in {0, 1}
        /\ res[g].case = 1 /\ Cases(g)[1].dir = "send" => res[g].ok

DeliveredInv == \A g \in G : DeliveredOf(g)

Inv == /\ TypeOK /\ CallInv /\ LockInv /\ SoloInv /\ RecordInv /\ WakeInv
       /\ RingInv /\ TriedInv /\ WaitersInv /\ DeliveredInv

-----------------------------------------------------------------------------
\* What a step of one goroutine leaves alone.
Local(g) ==
    \A h \in G \ {g} :
        /\ pc'[h] = pc[h] /\ op'[h] = op[h] /\ at'[h] = at[h]
        /\ todo'[h] = todo[h] /\ res'[h] = res[h] /\ wk'[h] = wk[h]
        /\ done'[h] = done[h] /\ recvok'[h] = recvok[h]
        /\ DOMAIN elem'[h] = DOMAIN elem[h]

\* No queue gains a record.
Shrinks ==
    \A c \in C, d \in Dirs :
        /\ Q(d, c)' \in Seq(Record)
        /\ Unique(Q(d, c))'
        /\ Range(Q(d, c)') \subseteq Range(Q(d, c))

ClosedStays == \A c \in C : closed[c] => closed'[c]

-----------------------------------------------------------------------------
\* Calls.
LEMMA OpOf ==
    ASSUME TypeOK, CallInv, NEW g \in G, pc[g] # "idle"
    PROVE  /\ op[g] \in Calls
           /\ Cases(g) \in Seq(Case) /\ Cases(g) # <<>>
           /\ Len(Cases(g)) \in Nat /\ DOMAIN Cases(g) = 1 .. Len(Cases(g))
           /\ op[g].sel \in BOOLEAN /\ op[g].block \in BOOLEAN
           /\ IF op[g].sel THEN \A i \in DOMAIN Cases(g) : Cases(g)[i].dir # "close"
                           ELSE Len(Cases(g)) = 1
<1>1. op[g] \in Calls BY DEF TypeOK, CallInv, CallOf
<1>2. op[g] \in [cases : Seq(Case), sel : BOOLEAN, block : BOOLEAN]
  BY <1>1, ChanAssumption
<1>3. Cases(g) \in Seq(Case) BY <1>2 DEF Cases
<1>. QED BY <1>1, <1>2, <1>3, ChanAssumption, LenProperties DEF Cases

LEMMA CaseOf ==
    ASSUME TypeOK, CallInv, NEW g \in G, pc[g] # "idle", NEW i \in DOMAIN Cases(g)
    PROVE  /\ Cases(g)[i] \in Case /\ Cases(g)[i].c \in C /\ i \in Nat \ {0}
           /\ Cases(g)[i].dir \in {"send", "recv", "close"}
           /\ Cases(g)[i].c \in Channels(op[g])
           /\ Cases(g)[i] = [dir |-> Cases(g)[i].dir, c |-> Cases(g)[i].c]
           /\ ~op[g].sel => i = 1
<1>1. /\ Cases(g) \in Seq(Case) /\ DOMAIN Cases(g) = 1 .. Len(Cases(g))
      /\ Len(Cases(g)) \in Nat /\ (~op[g].sel => Len(Cases(g)) = 1)
  BY OpOf
<1>2. Cases(g)[i] \in Case BY <1>1, ElementOfSeq
<1>3. Cases(g)[i].c \in Channels(op[g]) BY DEF Channels, Cases
<1>. QED BY <1>1, <1>2, <1>3 DEF Case

LEMMA ChannelsIn ==
    ASSUME TypeOK, CallInv, NEW g \in G, pc[g] # "idle"
    PROVE  Channels(op[g]) \subseteq C
<1>1. \A i \in DOMAIN Cases(g) : Cases(g)[i].c \in C BY CaseOf
<1>. QED BY <1>1 DEF Channels, Cases

\* The case a goroutine is trying.
LEMMA ThisCase ==
    ASSUME TypeOK, CallInv, NEW g \in G, pc[g] \notin {"idle", "clean", "return"}
    PROVE  /\ at[g] \in DOMAIN Cases(g) /\ at[g] \in Nat \ {0}
           /\ This(g) = Cases(g)[at[g]]
           /\ This(g) \in Case /\ This(g).c \in C /\ This(g).c \in Channels(op[g])
           /\ This(g).dir \in {"send", "recv", "close"}
           /\ This(g) = [dir |-> This(g).dir, c |-> This(g).c]
<1>1. at[g] \in DOMAIN Cases(g) BY DEF CallInv, CallOf
<1>2. This(g) = Cases(g)[at[g]] BY DEF This, Cases
<1>. QED BY <1>1, <1>2, CaseOf

\* A call that decides holds the locks of its channels.
LEMMA HoldsLocks ==
    ASSUME LockInv, NEW g \in G, pc[g] \in Locking \ {"lock"}
    PROVE  /\ \A c \in Channels(op[g]) : lock[c] = g
           /\ \A c \in C : lock[c] = g => c \in Channels(op[g])
<1>1. todo[g] = {} BY DEF LockInv
<1>2. \A c \in Channels(op[g]) \ todo[g] : lock[c] = g BY DEF LockInv
<1>3. \A c \in C : lock[c] = g /\ lock[c] # None => c \in Channels(op[g]) \ todo[g]
  BY DEF LockInv
<1>4. g # None BY ChanAssumption
<1>. QED BY <1>1, <1>2, <1>3, <1>4

\* Nobody else has a record, a lock or a call at stake in the channels g holds.
LEMMA OneHolder ==
    ASSUME LockInv, NEW g \in G, NEW h \in G \ {g},
           pc[g] \in Locking \ {"lock"}, pc[h] \in Locking \ {"lock"}
    PROVE  Channels(op[g]) \cap Channels(op[h]) = {}
BY HoldsLocks

-----------------------------------------------------------------------------
\* Queues.
LEMMA QueueType ==
    ASSUME TypeOK, NEW c \in C, NEW d \in Dirs
    PROVE  Q(d, c) \in Seq(Record)
BY DEF TypeOK, Q

LEMMA RecordIn ==
    ASSUME TypeOK, NEW c \in C, NEW d \in Dirs, NEW r \in Range(Q(d, c))
    PROVE  r \in Record /\ r.g \in G /\ r.i \in Nat /\ r.sel \in BOOLEAN
<1>1. Q(d, c) \in Seq(Record) BY QueueType
<1>2. PICK k \in DOMAIN Q(d, c) : Q(d, c)[k] = r BY DEF Range
<1>3. r \in Record BY <1>1, <1>2, ElementOfSeq, LenProperties
<1>. QED BY <1>3 DEF Record

\* A queue none of whose records count has no first that counts.
LEMMA FirstLiveWaiters ==
    ASSUME TypeOK, NEW c \in C, NEW d \in Dirs
    PROVE  FirstLive(Q(d, c)) = {} <=> Waiters(Q(d, c)) = {}
<1>. DEFINE s == Q(d, c)
            T == {k \in DOMAIN s : Live(s[k])}
<1>1. DOMAIN s = 1 .. Len(s) /\ Len(s) \in Nat BY QueueType, LenProperties
<1>2. Waiters(s) = {s[k].g : k \in T} BY DEF Waiters
<1>. HIDE DEF s
<1>3. FirstLive(s) \subseteq T BY DEF FirstLive
<1>4. T # {} => FirstLive(s) # {}
  <2>. SUFFICES ASSUME T # {} PROVE FirstLive(s) # {} OBVIOUS
  <2>1. T \in SUBSET Nat BY <1>1
  <2>2. PICK n \in T : \A m \in T : n <= m BY <2>1, LeastNatural
  <2>3. \A j \in 1 .. (n - 1) : j \in DOMAIN s /\ ~(n <= j) BY <1>1, <2>2
  <2>4. n \in FirstLive(s) BY <2>2, <2>3 DEF FirstLive
  <2>. QED BY <2>4
<1>. QED BY <1>2, <1>3, <1>4 DEF s

LEMMA WaiterRecord ==
    ASSUME NEW s, NEW g
    PROVE  g \in Waiters(s) <=> \E r \in Range(s) : Live(r) /\ r.g = g
BY DEF Waiters, Range

\* A queue is searched up to the first record that counts.
LEMMA DequeuedQueue ==
    ASSUME TypeOK, RecordInv, NEW c \in C, NEW d \in Dirs, NEW k \in DOMAIN Q(d, c)
    PROVE  /\ Dequeue(Q(d, c), k) \in Seq(Record)
           /\ Unique(Dequeue(Q(d, c), k))
           /\ Range(Dequeue(Q(d, c), k)) \subseteq Range(Q(d, c))
           /\ Q(d, c)[k] \notin Range(Dequeue(Q(d, c), k))
           /\ Q(d, c)[k] \in Range(Q(d, c))
<1>1. Q(d, c) \in Seq(Record) BY QueueType
<1>2. Unique(Q(d, c)) BY DEF RecordInv
<1>3. Q(d, c)[k] \in Range(Q(d, c)) BY DEF Range
<1>. QED BY <1>1, <1>2, <1>3, SuffixQueue DEF Dequeue, Unique

LEMMA EmptyQueue == <<>> \in Seq(Record) /\ Unique(<<>>) /\ Range(<<>>) = {}
BY DEF Unique, Range

\* One queue changes.
QueueBecomes(d, c, s) ==
    IF d = "send" THEN sendq' = [sendq EXCEPT ![c] = s] /\ recvq' = recvq
                  ELSE recvq' = [recvq EXCEPT ![c] = s] /\ sendq' = sendq

LEMMA OneQueue ==
    ASSUME TypeOK, NEW c \in C, NEW d \in Dirs, NEW s \in Seq(Record),
           QueueBecomes(d, c, s)
    PROVE  /\ sendq' \in [C -> Seq(Record)] /\ recvq' \in [C -> Seq(Record)]
           /\ \A b \in C, e \in Dirs :
                Q(e, b)' = IF b = c /\ e = d THEN s ELSE Q(e, b)
BY DEF TypeOK, QueueBecomes, Q, Dirs

LEMMA QueueShrinks ==
    ASSUME TypeOK, RecordInv, NEW c \in C, NEW d \in Dirs, NEW s \in Seq(Record),
           Unique(s), Range(s) \subseteq Range(Q(d, c)), QueueBecomes(d, c, s)
    PROVE  Shrinks
<1>1. \A b \in C, e \in Dirs : Q(e, b)' = IF b = c /\ e = d THEN s ELSE Q(e, b)
  BY OneQueue
<1>2. ASSUME NEW b \in C, NEW e \in Dirs
      PROVE  /\ Q(e, b)' \in Seq(Record) /\ Unique(Q(e, b)')
             /\ Range(Q(e, b)') \subseteq Range(Q(e, b))
  <2>1. Q(e, b) \in Seq(Record) BY QueueType
  <2>2. Unique(Q(e, b)) BY DEF RecordInv
  <2>. QED BY <1>1, <2>1, <2>2
<1>3. \A b \in C, e \in Dirs : Unique(Q(e, b)') <=> Unique(Q(e, b))' BY DEF Unique
<1>. QED BY <1>2, <1>3 DEF Shrinks

LEMMA SameQueues ==
    ASSUME TypeOK, RecordInv, UNCHANGED queues
    PROVE  Shrinks /\ \A c \in C, d \in Dirs : Q(d, c)' = Q(d, c)
<1>1. \A c \in C, d \in Dirs : Q(d, c)' = Q(d, c) BY DEF Q, queues
<1>2. \A b \in C, e \in Dirs : Unique(Q(e, b))' <=> Unique(Q(e, b)') BY DEF Unique
<1>3. \A b \in C, e \in Dirs : Q(e, b) \in Seq(Record) BY QueueType
<1>. QED BY <1>1, <1>2, <1>3 DEF Shrinks, RecordInv

-----------------------------------------------------------------------------
\* What a step of g leaves true.

LEMMA LocalCalls ==
    ASSUME CallInv, NEW g \in G, Local(g), ClosedStays, CallOf(g)',
           TypeOK
    PROVE  CallInv'
<1>1. ASSUME NEW h \in G \ {g} PROVE CallOf(h)'
  <2>1. CallOf(h) BY DEF CallInv
  <2>2. /\ pc'[h] = pc[h] /\ op'[h] = op[h] /\ at'[h] = at[h]
        /\ res'[h] = res[h] /\ wk'[h] = wk[h]
        /\ done'[h] = done[h] /\ recvok'[h] = recvok[h]
        /\ DOMAIN elem'[h] = DOMAIN elem[h]
    BY DEF Local
  <2>3. Cases(h)' = Cases(h) BY <2>2 DEF Cases
  <2>4. pc[h] = "woken" => Cases(h)[done[h]].c \in C
    <3>. SUFFICES ASSUME pc[h] = "woken" PROVE Cases(h)[done[h]].c \in C OBVIOUS
    <3>1. done[h] \in DOMAIN Cases(h) BY <2>1 DEF CallOf
    <3>. QED BY <3>1, CaseOf
  <2>5. pc[h] = "woken" /\ ~recvok[h] => closed'[Cases(h)[done[h]].c]
    BY <2>1, <2>4 DEF CallOf, ClosedStays
  <2>6. pc[h] \in {"wake", "set", "drain"} => Cases(h)[at[h]].c \in C
    <3>. SUFFICES ASSUME pc[h] \in {"wake", "set", "drain"} PROVE Cases(h)[at[h]].c \in C
      OBVIOUS
    <3>1. at[h] \in DOMAIN Cases(h) BY <2>1 DEF CallOf
    <3>. QED BY <3>1, CaseOf
  <2>7. pc[h] \in {"wake", "set", "drain"} /\ Cases(h)[at[h]].dir = "close" =>
          closed'[Cases(h)[at[h]].c]
    BY <2>1, <2>6 DEF CallOf, ClosedStays
  <2>. QED BY <2>1, <2>2, <2>3, <2>5, <2>7 DEF CallOf
<1>. QED BY <1>1 DEF CallInv

LEMMA LocalSolo ==
    ASSUME SoloInv, NEW g \in G, NEW p, At(g, p),
           \A h \in G \ {g} : pc'[h] = pc[h] \/ pc'[h] \in Resting
    PROVE  SoloInv'
<1>. SUFFICES ASSUME ~Parallel, NEW h \in G \ {g} PROVE pc'[h] \in Resting
  BY DEF SoloInv
<1>1. pc[h] \in Resting BY DEF At
<1>. QED BY <1>1

\* The locks, when none is taken or released.
LEMMA SameLocks ==
    ASSUME TypeOK, LockInv, lock' = lock,
           \A h \in G :
               \/ pc[h] \notin Locking /\ pc'[h] \notin Locking
               \/ /\ pc[h] \in Locking /\ pc'[h] \in Locking
                  /\ pc'[h] = "lock" <=> pc[h] = "lock"
                  /\ op'[h] = op[h] /\ todo'[h] = todo[h]
    PROVE  LockInv'
<1>1. ASSUME NEW h \in G, pc'[h] \in Locking
      PROVE  /\ \A c \in Channels(op'[h]) \ todo'[h] : lock'[c] = h
             /\ todo'[h] \subseteq Channels(op'[h])
             /\ todo'[h] = {} <=> pc'[h] # "lock"
  BY <1>1 DEF LockInv
<1>2. ASSUME NEW c \in C, lock'[c] # None, lock[c] \in G
      PROVE  /\ pc'[lock'[c]] \in Locking
             /\ c \in Channels(op'[lock'[c]]) \ todo'[lock'[c]]
  BY <1>2 DEF LockInv
<1>3. \A c \in C : lock[c] \in G \cup {None} BY DEF TypeOK
<1>. QED BY <1>1, <1>2, <1>3 DEF LockInv

LEMMA LocalLocks ==
    ASSUME TypeOK, LockInv, NEW g \in G, Local(g), lock' = lock,
           \/ pc[g] \notin Locking /\ pc'[g] \notin Locking
           \/ /\ pc[g] \in Locking \ {"lock"} /\ pc'[g] \in Locking \ {"lock"}
              /\ op'[g] = op[g] /\ todo'[g] = todo[g]
    PROVE  LockInv'
BY SameLocks DEF Local

\* The records, when none is added.
LEMMA LocalRecords ==
    ASSUME TypeOK, RecordInv, NEW g \in G, Local(g), Shrinks,
           \A c \in C, d \in Dirs :
                \A r \in Range(Q(d, c)') : r.g = g => RecordOf(r, d, c)'
    PROVE  RecordInv'
<1>1. ASSUME NEW c \in C, NEW d \in Dirs, NEW r \in Range(Q(d, c)')
      PROVE  RecordOf(r, d, c)'
  <2>1. r \in Range(Q(d, c)) BY DEF Shrinks
  <2>2. r.g \in G BY <2>1, RecordIn
  <2>3. CASE r.g = g BY <2>3
  <2>4. CASE r.g # g
    <3>1. RecordOf(r, d, c) BY <2>1 DEF RecordInv
    <3>2. /\ pc'[r.g] = pc[r.g] /\ op'[r.g] = op[r.g] /\ at'[r.g] = at[r.g]
          /\ done'[r.g] = done[r.g]
      BY <2>2, <2>4 DEF Local
    <3>. QED BY <3>1, <3>2 DEF RecordOf, Cases
  <2>. QED BY <2>3, <2>4
<1>2. \A c \in C, d \in Dirs : Unique(Q(d, c))' BY DEF Shrinks
<1>. QED BY <1>1, <1>2 DEF RecordInv

LEMMA NoRecords ==
    ASSUME RecordInv, NEW g \in G, pc[g] \notin Waits
    PROVE  \A c \in C, d \in Dirs : \A r \in Range(Q(d, c)) : r.g # g
BY DEF RecordInv, RecordOf

\* A call that is about to be woken, when another one takes a step.
LEMMA StillWoken ==
    ASSUME TypeOK, CallInv, NEW w \in Waking, WokenBy(w), Shrinks, ClosedStays,
           pc'[w.g] = pc[w.g], op'[w.g] = op[w.g]
    PROVE  WokenBy(w)'
<1>. PICK t \in G : t = w.g BY DEF Waking
<1>1. /\ pc[t] = "parked" /\ w.i \in DOMAIN Cases(t) /\ w.sel = op[t].sel
      /\ ~w.ok => closed[Cases(t)[w.i].c]
      /\ \A c \in C, d \in Dirs : \A r \in Range(Q(d, c)) : r.g # t \/ r.i # w.i
  BY DEF WokenBy
<1>2. Cases(t)' = Cases(t) BY DEF Cases
<1>3. Cases(t)[w.i].c \in C BY <1>1, CaseOf
<1>4. \A c \in C, d \in Dirs : \A r \in Range(Q(d, c)') : r.g # t \/ r.i # w.i
  BY <1>1 DEF Shrinks
<1>5. ~w.ok => closed'[Cases(t)[w.i].c] BY <1>1, <1>3 DEF ClosedStays
<1>. QED BY <1>1, <1>2, <1>4, <1>5 DEF WokenBy

\* The calls that are about to be woken, when none is found.
LEMMA LocalWaking ==
    ASSUME TypeOK, CallInv, WakeInv, NEW g \in G, Local(g), Shrinks, ClosedStays,
           wk'[g] = wk[g] \/ wk'[g] = None, pc[g] # "parked"
    PROVE  WakeInv'
<1>1. \A h \in G : wk'[h] # None => wk'[h] = wk[h] BY DEF Local
<1>2. ASSUME NEW h \in G, wk'[h] # None
      PROVE  WokenBy(wk[h])'
  <2>1. wk[h] # None /\ WokenBy(wk[h]) BY <1>1, <1>2 DEF WakeInv
  <2>2. PICK w \in Waking : w = wk[h] BY <2>1 DEF TypeOK
  <2>3. w.g \in G \ {g} BY <2>1, <2>2 DEF Waking, WokenBy
  <2>4. pc'[w.g] = pc[w.g] /\ op'[w.g] = op[w.g] BY <2>3 DEF Local
  <2>5. WokenBy(w)' BY <2>1, <2>2, <2>4, StillWoken
  <2>6. wk'[h] = w BY <1>1, <1>2, <2>2
  <2>. QED BY <2>5, <2>6 DEF WokenBy
<1>. QED BY <1>1, <1>2 DEF WakeInv

\* Who waits, when no record is added and no select starts that has one.
LEMMA FewerWaiters ==
    ASSUME RecordInv, Shrinks,
           \A h \in G : done'[h] = 0 /\ done[h] # 0 => pc[h] \notin Waits,
           TypeOK
    PROVE  \A c \in C, d \in Dirs : Waiters(Q(d, c))' \subseteq Waiters(Q(d, c))
<1>. SUFFICES ASSUME NEW c \in C, NEW d \in Dirs, NEW h \in Waiters(Q(d, c))'
              PROVE  h \in Waiters(Q(d, c))
  OBVIOUS
<1>1. PICK k \in DOMAIN Q(d, c)' : Live(Q(d, c)[k])' /\ Q(d, c)'[k].g = h
  BY DEF Waiters
<1>. DEFINE r == Q(d, c)'[k]
<1>2. r \in Range(Q(d, c)') BY DEF Range
<1>3. r \in Range(Q(d, c)) BY <1>2 DEF Shrinks
<1>4. pc[r.g] \in Waits /\ r.g \in G BY <1>3, RecordIn DEF RecordInv, RecordOf
<1>5. r.sel => done'[r.g] = 0 BY <1>1 DEF Live
<1>6. Live(r) BY <1>4, <1>5 DEF Live
<1>. QED BY <1>1, <1>3, <1>6, WaiterRecord

\* The cases that others have tried.
LEMMA LocalTried ==
    ASSUME TypeOK, CallInv, TriedInv, NEW g \in G, Local(g),
           \A h \in G \ {g} : pc[h] \in {"try", "queue"} =>
                \A c \in Channels(op[h]) :
                    /\ cap'[c] = cap[c] /\ qcount'[c] = qcount[c]
                    /\ closed'[c] = closed[c]
                    /\ Waiters(recvq[c])' \subseteq Waiters(recvq[c])
                    /\ Waiters(sendq[c])' \subseteq Waiters(sendq[c]),
           pc'[g] \in {"try", "queue"} =>
                \A i \in DOMAIN Cases(g)' :
                    pc'[g] = "queue" \/ i < at'[g] => CaseStuck(g, i)'
    PROVE  TriedInv'
<1>1. ASSUME NEW h \in G \ {g}, pc'[h] \in {"try", "queue"},
             NEW i \in DOMAIN Cases(h)', pc'[h] = "queue" \/ i < at'[h]
      PROVE  CaseStuck(h, i)'
  <2>1. pc'[h] = pc[h] /\ op'[h] = op[h] /\ at'[h] = at[h] BY DEF Local
  <2>2. Cases(h)' = Cases(h) BY <2>1 DEF Cases
  <2>3. CaseStuck(h, i) BY <1>1, <2>1, <2>2 DEF TriedInv
  <2>4. Cases(h)[i].c \in Channels(op[h]) BY <1>1, <2>1, <2>2, CaseOf
  <2>. QED BY <1>1, <2>1, <2>2, <2>3, <2>4 DEF CaseStuck
<1>. QED BY <1>1 DEF TriedInv

\* Who waits at one channel, when no waiter comes.
LEMMA LocalWaiters ==
    ASSUME WaitersInv, NEW g \in G, Local(g), NEW c \in C,
           Waiters(recvq[c])' \subseteq Waiters(recvq[c]),
           Waiters(sendq[c])' \subseteq Waiters(sendq[c]),
           cap'[c] = cap[c], qcount'[c] = qcount[c], closed'[c] = closed[c],
           lock[c] # g => lock[c] = None \/ lock'[c] = lock[c],
           lock[c] = g /\ pc[g] \in {"wake", "set", "drain"} =>
                \/ /\ lock'[c] = g /\ pc'[g] \in {"wake", "set", "drain"}
                   /\ Cases(g)' = Cases(g) /\ at'[g] = at[g]
                \/ Cases(g)[at[g]].dir # "close"
                \/ Waiters(recvq[c])' = {} /\ Waiters(sendq[c])' = {}
    PROVE  WaitersOf(c)'
<1>1. WaitersOf(c) BY DEF WaitersInv
<1>2. ASSUME Closing(c), ~Closing(c)'
      PROVE  Waiters(recvq[c])' = {} /\ Waiters(sendq[c])' = {}
  <2>1. PICK h \in G : /\ lock[c] = h /\ pc[h] \in {"wake", "set", "drain"}
                       /\ Cases(h)[at[h]] = [dir |-> "close", c |-> c]
    BY <1>2 DEF Closing
  <2>2. CASE h = g BY <1>2, <2>1, <2>2 DEF Closing
  <2>3. CASE h # g
    <3>1. pc'[h] = pc[h] /\ op'[h] = op[h] /\ at'[h] = at[h] BY <2>3 DEF Local
    <3>2. Cases(h)' = Cases(h) BY <3>1 DEF Cases
    <3>3. h # None BY ChanAssumption
    <3>. QED BY <1>2, <2>1, <2>3, <3>1, <3>2, <3>3 DEF Closing
  <2>. QED BY <2>2, <2>3
<1>. QED BY <1>1, <1>2 DEF WaitersOf

LEMMA LocalDelivered ==
    ASSUME DeliveredInv, NEW g \in G, Local(g), DeliveredOf(g)'
    PROVE  DeliveredInv'
<1>1. ASSUME NEW h \in G \ {g} PROVE DeliveredOf(h)'
  <2>1. pc'[h] = pc[h] /\ op'[h] = op[h] /\ res'[h] = res[h] BY DEF Local
  <2>. QED BY <2>1 DEF DeliveredInv, DeliveredOf, Cases
<1>. QED BY <1>1 DEF DeliveredInv

-----------------------------------------------------------------------------
\* A step of g that adds no record, and changes the contents of no channel
\* but those whose locks g holds.
StepOf(g) ==
    /\ Local(g) /\ Shrinks /\ ClosedStays
    /\ cap' = cap
    /\ \A c \in C : \/ lock[c] = g
                    \/ qcount'[c] = qcount[c] /\ closed'[c] = closed[c]
    /\ \A c \in C : lock[c] \in {g, None} \/ lock'[c] = lock[c]
    /\ pc[g] # "parked"
    /\ done'[g] = 0 /\ done[g] # 0 => pc[g] \notin Waits

\* ... and what is left to show about g and its channels.
After(g) ==
    /\ CallOf(g)' /\ DeliveredOf(g)'
    /\ \A c \in C, d \in Dirs :
         \A r \in Range(Q(d, c)') : r.g = g => RecordOf(r, d, c)'
    /\ pc'[g] \in {"try", "queue"} =>
         \A i \in DOMAIN Cases(g)' :
             pc'[g] = "queue" \/ i < at'[g] => CaseStuck(g, i)'
    /\ \A c \in C : lock[c] = g => WaitersOf(c)'

Others == CallInv /\ RecordInv /\ TriedInv /\ WaitersInv /\ DeliveredInv

LEMMA StepFewer ==
    ASSUME Inv, NEW g \in G, StepOf(g)
    PROVE  \A c \in C : /\ Waiters(recvq[c])' \subseteq Waiters(recvq[c])
                        /\ Waiters(sendq[c])' \subseteq Waiters(sendq[c])
<1>1. \A h \in G : done'[h] = 0 /\ done[h] # 0 => pc[h] \notin Waits
  BY DEF StepOf, Local
<1>2. \A c \in C, d \in Dirs : Waiters(Q(d, c))' \subseteq Waiters(Q(d, c))
  BY <1>1, FewerWaiters DEF Inv, StepOf
<1>. QED BY <1>2 DEF Q, Dirs

LEMMA StepInv ==
    ASSUME Inv, NEW g \in G, StepOf(g), After(g)
    PROVE  Others'
<1>1. CallInv' BY LocalCalls DEF Inv, StepOf, After
<1>2. RecordInv' BY LocalRecords DEF Inv, StepOf, After
<1>3. DeliveredInv' BY LocalDelivered DEF Inv, StepOf, After
<1>4. TriedInv'
  <2>1. ASSUME NEW h \in G \ {g}, pc[h] \in {"try", "queue"}, NEW c \in Channels(op[h])
        PROVE  /\ cap'[c] = cap[c] /\ qcount'[c] = qcount[c] /\ closed'[c] = closed[c]
               /\ Waiters(recvq[c])' \subseteq Waiters(recvq[c])
               /\ Waiters(sendq[c])' \subseteq Waiters(sendq[c])
    <3>1. c \in C BY <2>1, ChannelsIn DEF Inv
    <3>2. lock[c] = h BY <2>1, HoldsLocks DEF Inv, Locking
    <3>. QED BY <3>1, <3>2, StepFewer DEF StepOf
  <2>. QED BY <2>1, LocalTried DEF Inv, StepOf, After
<1>5. WaitersInv'
  <2>1. ASSUME NEW c \in C, lock[c] # g PROVE WaitersOf(c)'
    BY <2>1, StepFewer, LocalWaiters DEF Inv, StepOf
  <2>. QED BY <2>1 DEF WaitersInv, After
<1>. QED BY <1>1, <1>2, <1>3, <1>4, <1>5 DEF Others

\* A record found in a queue by a call that holds the lock: its call is parked,
\* and nobody else is about to wake it.
LEMMA FoundWaiter ==
    ASSUME Inv, OneThreadOrPlain, NEW g \in G, pc[g] \in {"try", "drain"},
           NEW c \in C, c = This(g).c, NEW d \in Dirs,
           NEW k \in FirstLive(Q(d, c)), NEW r, r = Q(d, c)[k]
    PROVE  /\ r \in Record /\ r \in Range(Q(d, c)) /\ Live(r) /\ r.g \in G \ {g}
           /\ k \in DOMAIN Q(d, c)
           /\ pc[r.g] = "parked" /\ RecordOf(r, d, c)
           /\ \A h \in G : wk[h] # None => wk[h].g # r.g
<1>1. k \in DOMAIN Q(d, c) /\ Live(r) BY DEF FirstLive
<1>2. r \in Range(Q(d, c)) BY <1>1 DEF Range
<1>3. r \in Record /\ r.g \in G BY <1>2, RecordIn DEF Inv
<1>4. RecordOf(r, d, c) BY <1>2 DEF Inv, RecordInv
<1>. PICK t \in G : t = r.g BY <1>3
<1>5. pc[t] \in Waits /\ r.i \in DOMAIN Cases(t) /\ Cases(t)[r.i].c = c /\ r.sel = op[t].sel
  BY <1>4 DEF RecordOf
<1>6. pc[t] # "queue"
  <2>. SUFFICES ASSUME pc[t] = "queue" PROVE FALSE OBVIOUS
  <2>1. c \in Channels(op[t]) BY <1>5, CaseOf DEF Inv
  <2>2. c \in Channels(op[g]) BY ThisCase DEF Inv
  <2>3. t # g OBVIOUS
  <2>. QED BY <2>1, <2>2, <2>3, OneHolder DEF Inv, Locking
<1>7. pc[t] # "woken" /\ pc[t] # "clean"
  <2>1. CallOf(t) BY DEF Inv, CallInv
  <2>2. pc[t] \in {"woken", "clean"} => r.sel /\ done[t] # 0
    <3>. SUFFICES ASSUME pc[t] \in {"woken", "clean"} PROVE r.sel /\ done[t] # 0
      OBVIOUS
    <3>1. done[t] \in DOMAIN Cases(t) BY <2>1 DEF CallOf
    <3>2. done[t] \in Nat \ {0} BY <3>1, CaseOf DEF Inv
    <3>. QED BY <1>4, <1>5, <2>1, <3>2 DEF CallOf, RecordOf
  <2>. QED BY <1>1, <2>2 DEF Live
<1>8. pc[t] = "parked" BY <1>5, <1>6, <1>7 DEF Waits
<1>9. ASSUME NEW h \in G, wk[h] # None, wk[h].g = t PROVE FALSE
  <2>1. pc[h] \in {"wake", "set"} BY <1>9 DEF Inv, CallInv, CallOf
  <2>2. Parallel BY <2>1 DEF Inv, SoloInv, Resting
  <2>3. op[t] \in Calls BY <1>8, OpOf DEF Inv
  <2>4. ~op[t].sel BY <2>2, <2>3 DEF OneThreadOrPlain
  <2>5. WokenBy(wk[h]) BY <1>9 DEF Inv, WakeInv
  <2>6. wk[h].i \in DOMAIN Cases(t) BY <1>9, <2>5 DEF WokenBy
  <2>7. wk[h].i = 1 /\ r.i = 1 BY <1>5, <1>8, <2>4, <2>6, CaseOf DEF Inv
  <2>. QED BY <1>2, <1>9, <2>5, <2>7 DEF WokenBy
<1>. QED BY <1>1, <1>2, <1>3, <1>4, <1>8, <1>9

\* The calls that are about to be woken, when g has found one.
LEMMA FoundWaking ==
    ASSUME Inv, OneThreadOrPlain, NEW g \in G, pc[g] \in {"try", "drain"},
           NEW c \in C, c = This(g).c, NEW d \in Dirs,
           NEW k \in FirstLive(Q(d, c)), NEW r, r = Q(d, c)[k], NEW ok \in BOOLEAN,
           Local(g), op' = op, ClosedStays, Shrinks, Q(d, c)' = Dequeue(Q(d, c), k),
           wk' = [wk EXCEPT ![g] = [g |-> r.g, i |-> r.i, sel |-> r.sel, ok |-> ok]],
           ok \/ closed'[c]
    PROVE  WakeInv'
<1>1. /\ r \in Record /\ r \in Range(Q(d, c)) /\ Live(r) /\ r.g \in G \ {g}
      /\ pc[r.g] = "parked" /\ RecordOf(r, d, c) /\ k \in DOMAIN Q(d, c)
      /\ \A h \in G : wk[h] # None => wk[h].g # r.g
  BY FoundWaiter
<1>2. /\ Dequeue(Q(d, c), k) \in Seq(Record) /\ Unique(Dequeue(Q(d, c), k))
      /\ Range(Dequeue(Q(d, c), k)) \subseteq Range(Q(d, c))
      /\ r \notin Range(Dequeue(Q(d, c), k))
  BY <1>1, DequeuedQueue DEF Inv
<1>. PICK w \in Waking : w = [g |-> r.g, i |-> r.i, sel |-> r.sel, ok |-> ok]
  BY <1>1 DEF Waking, Record
<1>4. wk'[g] = w /\ \A h \in G \ {g} : wk'[h] = wk[h] BY DEF Inv, TypeOK
<1>5. WokenBy(w)'
  <2>. PICK t \in G : t = r.g BY <1>1
  <2>1. Cases(t)' = Cases(t) BY DEF Cases
  <2>2. /\ w.i \in DOMAIN Cases(t) /\ w.sel = op[t].sel
        /\ Cases(t)[w.i] = [dir |-> d, c |-> c]
    BY <1>1 DEF RecordOf
  <2>3. pc'[t] = "parked" BY <1>1 DEF Local
  <2>4. ASSUME NEW b \in C, NEW e \in Dirs, NEW x \in Range(Q(e, b)'), x.g = t, x.i = w.i
        PROVE  FALSE
    <3>1. x \in Range(Q(e, b)) BY DEF Shrinks
    <3>2. RecordOf(x, e, b) BY <3>1 DEF Inv, RecordInv
    <3>3. b = c /\ e = d BY <2>2, <2>4, <3>2 DEF RecordOf
    <3>4. x \in Record BY <3>1, RecordIn DEF Inv
    <3>5. x = r BY <1>1, <2>4, <3>2, <3>4 DEF RecordOf, Record
    <3>. QED BY <1>2, <2>4, <3>3, <3>5
  <2>5. ~w.ok => closed'[c] OBVIOUS
  <2>. QED BY <2>1, <2>2, <2>3, <2>4, <2>5 DEF WokenBy
<1>6. ASSUME NEW h \in G \ {g}, wk[h] # None PROVE WokenBy(wk[h])' /\ wk[h].g # r.g
  <2>1. PICK u \in Waking : u = wk[h] BY <1>6 DEF Inv, TypeOK
  <2>2. WokenBy(u) BY <1>6, <2>1 DEF Inv, WakeInv
  <2>3. u.g \in G \ {g} BY <2>2 DEF Waking, WokenBy
  <2>4. pc'[u.g] = pc[u.g] BY <2>3 DEF Local
  <2>5. WokenBy(u)' BY <2>2, <2>4, StillWoken DEF Inv
  <2>6. wk'[h] = u BY <1>4, <2>1
  <2>. QED BY <1>1, <1>6, <2>5, <2>6 DEF WokenBy
<1>7. \A h \in G : wk'[h] # None => WokenBy(wk[h])'
  <2>1. WokenBy(wk[g])' BY <1>4, <1>5 DEF WokenBy
  <2>. QED BY <1>4, <1>6, <2>1
<1>8. \A h, j \in G : wk'[h] # None /\ wk'[j] # None /\ wk'[h].g = wk'[j].g => h = j
  BY <1>4, <1>6 DEF Inv, WakeInv
<1>. QED BY <1>7, <1>8 DEF WakeInv

-----------------------------------------------------------------------------
(***************************************************************************)
(* The steps that leave the channels and the queues alone.                 *)
(***************************************************************************)

\* A throw changes nothing but failed, and a stuttering step nothing.
LEMMA FailInv ==
    ASSUME Inv, failed' \in BOOLEAN,
           UNCHANGED <<chans, queues, lock, pc, frame, elem, flags, wk>>
    PROVE  Inv'
<1>. USE DEF chans, queues, frame, flags
<1>1. TypeOK' BY DEF Inv, TypeOK
<1>2. CallInv' BY DEF Inv, CallInv, CallOf, Cases
<1>3. LockInv' /\ SoloInv' BY DEF Inv, LockInv, SoloInv
<1>4. \A c \in C, d \in Dirs : Q(d, c)' = Q(d, c) BY DEF Q
<1>5. RecordInv' BY <1>4 DEF Inv, RecordInv, RecordOf, Cases, Unique
<1>6. WakeInv' BY <1>4 DEF Inv, WakeInv, WokenBy, Cases
<1>7. RingInv' BY DEF Inv, RingInv
<1>8. \A c \in C : /\ Waiters(recvq[c])' \subseteq Waiters(recvq[c])
                  /\ Waiters(sendq[c])' \subseteq Waiters(sendq[c])
  <2>1. Shrinks BY SameQueues DEF Inv
  <2>2. \A c \in C, d \in Dirs : Waiters(Q(d, c))' \subseteq Waiters(Q(d, c))
    BY <2>1, FewerWaiters DEF Inv
  <2>. QED BY <2>2 DEF Q, Dirs
<1>9. TriedInv'
  <2>1. ASSUME NEW g \in G, pc[g] \in {"try", "queue"}, NEW i \in DOMAIN Cases(g),
               CaseStuck(g, i)
        PROVE  CaseStuck(g, i)'
    <3>1. Cases(g)[i].c \in C BY <2>1, CaseOf DEF Inv
    <3>2. Cases(g)' = Cases(g) BY DEF Cases
    <3>. QED BY <1>8, <2>1, <3>1, <3>2 DEF CaseStuck
  <2>. QED BY <2>1 DEF Inv, TriedInv, Cases
<1>10. WaitersInv'
  <2>1. \A c \in C : Closing(c)' <=> Closing(c) BY DEF Closing, Cases
  <2>. QED BY <1>8, <2>1 DEF Inv, WaitersInv, WaitersOf
<1>11. DeliveredInv' BY DEF Inv, DeliveredInv, DeliveredOf, Cases
<1>. QED BY <1>1, <1>2, <1>3, <1>5, <1>6, <1>7, <1>9, <1>10, <1>11 DEF Inv

\* A step of g that leaves the channels and the queues alone, finds nobody to
\* wake and goes on from no case it has tried.
Quiet(g) ==
    /\ Local(g) /\ UNCHANGED <<chans, queues>>
    /\ \A c \in C : lock[c] \in {g, None} \/ lock'[c] = lock[c]
    /\ pc[g] # "parked" /\ pc'[g] # "queue"
    /\ pc'[g] = "try" => \A i \in DOMAIN Cases(g)' : ~(i < at'[g])
    /\ wk'[g] = wk[g] \/ wk'[g] = None
    /\ done'[g] = 0 /\ done[g] # 0 => pc[g] \notin Waits
    /\ \A c \in C :
         lock[c] = g /\ pc[g] \in {"wake", "set", "drain"} =>
            \/ /\ lock'[c] = g /\ pc'[g] \in {"wake", "set", "drain"}
               /\ Cases(g)' = Cases(g) /\ at'[g] = at[g]
            \/ Cases(g)[at[g]].dir # "close"
            \/ Waiters(recvq[c])' = {} /\ Waiters(sendq[c])' = {}

LEMMA QuietInv ==
    ASSUME Inv, NEW g \in G, Quiet(g), TypeOK', LockInv', SoloInv',
           CallOf(g)', DeliveredOf(g)',
           \A c \in C, d \in Dirs :
                \A r \in Range(Q(d, c)) : r.g = g => RecordOf(r, d, c)'
    PROVE  Inv'
<1>1. Shrinks /\ \A c \in C, d \in Dirs : Q(d, c)' = Q(d, c)
  BY SameQueues DEF Inv, Quiet
<1>2. ClosedStays /\ \A c \in C : closed'[c] = closed[c] /\ qcount'[c] = qcount[c]
  BY DEF ClosedStays, Quiet, chans
<1>3. StepOf(g) BY <1>1, <1>2 DEF StepOf, Quiet, chans
<1>4. ASSUME NEW c \in C, lock[c] = g PROVE WaitersOf(c)'
  <2>1. cap'[c] = cap[c] /\ qcount'[c] = qcount[c] /\ closed'[c] = closed[c]
    BY <1>2 DEF Quiet, chans
  <2>. QED BY <1>3, <1>4, <2>1, StepFewer, LocalWaiters DEF Inv, Quiet
<1>5. After(g) BY <1>1, <1>4 DEF After, Quiet
<1>6. Others' BY <1>3, <1>5, StepInv
<1>7. WakeInv' BY <1>1, <1>2, LocalWaking DEF Inv, Quiet
<1>8. RingInv' BY DEF Inv, RingInv, Quiet, chans
<1>. QED BY <1>6, <1>7, <1>8 DEF Inv, Others

LEMMA CallStepInv ==
    ASSUME Inv, NEW g \in G, NEW o \in Calls, Call(g, o)
    PROVE  Inv'
<1>. USE DEF Call, Begin, At, Goto
<1>1. /\ o \in [cases : Seq(Case), sel : BOOLEAN, block : BOOLEAN] /\ o.cases # <<>>
      /\ o # None
  BY ChanAssumption
<1>2. Len(o.cases) \in Nat /\ DOMAIN o.cases = 1 .. Len(o.cases) /\ 1 \in DOMAIN o.cases
  BY <1>1, LenProperties, EmptySeq
<1>3. Channels(o) \subseteq C /\ Channels(o) # {}
  <2>1. \A i \in DOMAIN o.cases : o.cases[i] \in Case
    BY <1>1, <1>2, ElementOfSeq
  <2>2. Channels(o) \subseteq C BY <2>1 DEF Channels, Case
  <2>3. o.cases[1].c \in Channels(o) BY <1>2 DEF Channels
  <2>. QED BY <2>2, <2>3
<1>4. TypeOK'
  <2>1. [i \in DOMAIN o.cases |-> None] \in Seq(G \cup {None})
    <3>1. [i \in DOMAIN o.cases |-> None] \in [1 .. Len(o.cases) -> G \cup {None}]
      BY <1>2
    <3>. QED BY <1>2, <3>1, SeqDef
  <2>2. op' \in [G -> Calls \cup {None}] /\ elem' \in [G -> Seq(G \cup {None})]
    BY <2>1 DEF Inv, TypeOK
  <2>3. /\ pc' \in [G -> PCs] /\ at' \in [G -> Nat] /\ todo' \in [G -> SUBSET C]
        /\ done' \in [G -> Nat] /\ recvok' \in [G -> BOOLEAN]
    BY <1>3 DEF Inv, TypeOK, PCs
  <2>. QED BY <2>2, <2>3 DEF Inv, TypeOK, chans, queues
<1>5. /\ pc[g] = "idle" /\ pc'[g] = "lock" /\ op'[g] = o /\ at'[g] = 1
      /\ todo'[g] = Channels(o) /\ done'[g] = 0 /\ DOMAIN elem'[g] = DOMAIN o.cases
      /\ wk'[g] = wk[g] /\ res'[g] = res[g]
  BY DEF Inv, TypeOK
<1>6. Quiet(g)
  <2>1. Local(g) BY DEF Local, Inv, TypeOK
  <2>. QED BY <1>5, <2>1 DEF Quiet, Waits
<1>7. CallOf(g)'
  <2>1. wk[g] = None /\ res[g] = None BY <1>5 DEF Inv, CallInv, CallOf, Deciding
  <2>. QED BY <1>1, <1>2, <1>5, <2>1 DEF CallOf, Cases, Waits, Clear, Deciding
<1>8. DeliveredOf(g)' BY <1>5 DEF DeliveredOf
<1>9. \A c \in C, d \in Dirs : \A r \in Range(Q(d, c)) : r.g # g
  BY <1>5, NoRecords DEF Inv, Waits
<1>10. SoloInv' BY LocalSolo, <1>6 DEF Inv, Quiet, Local
<1>11. LockInv'
  <2>1. \A c \in C : lock[c] # g
    BY <1>5, ChanAssumption DEF Inv, LockInv, Locking
  <2>2. ASSUME NEW h \in G, pc'[h] \in Locking
        PROVE  /\ \A c \in Channels(op'[h]) \ todo'[h] : lock'[c] = h
               /\ todo'[h] \subseteq Channels(op'[h])
               /\ todo'[h] = {} <=> pc'[h] # "lock"
    <3>1. CASE h = g BY <1>3, <1>5, <3>1
    <3>2. CASE h # g BY <1>6, <2>2, <3>2 DEF Inv, LockInv, Quiet, Local
    <3>. QED BY <3>1, <3>2
  <2>3. ASSUME NEW c \in C, lock[c] # None
        PROVE  /\ pc'[lock[c]] \in Locking
               /\ c \in Channels(op'[lock[c]]) \ todo'[lock[c]]
    <3>1. lock[c] \in G \ {g} BY <2>1, <2>3 DEF Inv, TypeOK
    <3>. QED BY <1>6, <2>3, <3>1 DEF Inv, LockInv, Quiet, Local
  <2>. QED BY <2>2, <2>3 DEF LockInv
<1>. QED BY <1>4, <1>6, <1>7, <1>8, <1>9, <1>10, <1>11, QuietInv

LEMMA WakeTestInv ==
    ASSUME Inv, NEW g \in G, WakeTest(g)
    PROVE  Inv'
<1>. USE DEF WakeTest, At, Goto
<1>1. TypeOK' BY DEF Inv, TypeOK, PCs, chans, queues, frame, flags
<1>2. /\ This(g) = Cases(g)[at[g]] /\ This(g).dir \in {"send", "recv", "close"}
      /\ at[g] \in DOMAIN Cases(g)
  BY ThisCase DEF Inv
<1>3. /\ pc[g] = "wake" /\ pc'[g] \in {"set", "drain", "unlock"}
      /\ wk'[g] = wk[g] \/ wk'[g] = None
      /\ wk'[g] = None <=> pc'[g] # "set"
      /\ pc'[g] = "unlock" => This(g).dir # "close"
      /\ pc'[g] = "drain" => This(g).dir = "close"
  BY <1>2 DEF Inv, TypeOK, CallInv, CallOf
<1>4. Local(g) BY DEF Local, Inv, TypeOK, frame, flags
<1>5. Cases(g)' = Cases(g) BY DEF Cases, frame
<1>6. Quiet(g) BY <1>2, <1>3, <1>4, <1>5 DEF Quiet, frame, flags
<1>7. CallOf(g)'
  BY <1>2, <1>3, <1>5
     DEF Inv, CallInv, CallOf, Deciding, Waits, Clear, frame, flags, chans
<1>8. DeliveredOf(g)' BY <1>3, <1>5 DEF Inv, DeliveredInv, DeliveredOf, frame
<1>9. \A c \in C, d \in Dirs : \A r \in Range(Q(d, c)) : r.g # g
  BY <1>3, NoRecords DEF Inv, Waits
<1>10. SoloInv' BY LocalSolo, <1>4 DEF Inv, Local
<1>11. LockInv' BY <1>3, <1>4, LocalLocks DEF Inv, Locking, frame
<1>. QED BY <1>1, <1>6, <1>7, <1>8, <1>9, <1>10, <1>11, QuietInv

LEMMA ResumePlainInv ==
    ASSUME Inv, NEW g \in G, ResumePlain(g)
    PROVE  Inv'
<1>. USE DEF ResumePlain, At, Goto, Reply, Outcome
<1>1. /\ pc[g] = "woken" /\ ~op[g].sel /\ op[g] \in Calls
      /\ at[g] = 1 /\ This(g) = Cases(g)[1] /\ DOMAIN Cases(g) = {1}
      /\ DOMAIN elem[g] = {1} /\ elem[g] \in Seq(G \cup {None})
  <2>1. pc[g] = "woken" /\ ~op[g].sel OBVIOUS
  <2>2. op[g] \in Calls /\ DOMAIN Cases(g) = 1 .. 1 BY <2>1, OpOf DEF Inv
  <2>3. at[g] = 1 /\ DOMAIN elem[g] = DOMAIN Cases(g)
    BY <2>1 DEF Inv, CallInv, CallOf
  <2>. QED BY <2>1, <2>2, <2>3 DEF Inv, TypeOK, This, Cases
<1>2. CASE failed' = TRUE /\ UNCHANGED <<pc, res>>
  BY <1>2, FailInv DEF frame
<1>3. CASE ~(This(g).dir = "send" /\ ~recvok[g])
  <2>. DEFINE v == IF This(g).dir = "recv" /\ recvok[g] THEN elem[g][1] ELSE None
              o == [case |-> 1, v |-> v, ok |-> recvok[g]]
  <2>1. v \in G \cup {None} BY <1>1, ElementOfSeq
  <2>2. o \in Outcomes BY <2>1 DEF Inv, TypeOK, Outcomes
  <2>3. /\ pc' = [pc EXCEPT ![g] = "return"] /\ res' = [res EXCEPT ![g] = o]
        /\ failed' = failed
    BY <1>3
  <2>. HIDE DEF v
  <2>4. TypeOK'
    BY <2>2, <2>3 DEF Inv, TypeOK, PCs, chans, queues, flags
  <2>5. pc'[g] = "return" /\ res'[g] = o BY <2>3 DEF Inv, TypeOK
  <2>6. Local(g) BY <2>3 DEF Local, Inv, TypeOK, flags
  <2>7. Quiet(g) BY <1>1, <2>5, <2>6 DEF Quiet, flags
  <2>8. Cases(g)' = Cases(g) BY DEF Cases
  <2>9. CallOf(g)'
    <3>1. o # None BY <2>2, ChanAssumption
    <3>. QED BY <1>1, <2>5, <2>8, <3>1 DEF Inv, CallInv, CallOf, Deciding, Waits, Clear
  <2>10. DeliveredOf(g)'
    BY <1>1, <1>3, <2>5, <2>8 DEF DeliveredOf
  <2>11. ASSUME NEW c \in C, NEW d \in Dirs, NEW r \in Range(Q(d, c)), r.g = g PROVE FALSE
    <3>1. RecordOf(r, d, c) BY <2>11 DEF Inv, RecordInv
    <3>. QED BY <1>1, <2>11, <3>1 DEF RecordOf
  <2>12. SoloInv' BY LocalSolo, <2>6 DEF Inv, Local
  <2>13. LockInv' BY <1>1, <2>5, <2>6, LocalLocks DEF Inv, Locking
  <2>. QED BY <2>4, <2>7, <2>9, <2>10, <2>11, <2>12, <2>13, QuietInv
<1>. QED BY <1>2, <1>3

LEMMA ResumeSelectInv ==
    ASSUME Inv, NEW g \in G, ResumeSelect(g)
    PROVE  Inv'
<1>. USE DEF ResumeSelect, At, Goto, Reply, Outcome
<1>1. pc[g] = "woken" /\ op[g].sel OBVIOUS
<1>2. /\ done[g] \in DOMAIN Cases(g) /\ DOMAIN elem[g] = DOMAIN Cases(g)
  BY <1>1 DEF Inv, CallInv, CallOf
<1>3. done[g] \in Nat /\ elem[g] \in Seq(G \cup {None}) /\ recvok[g] \in BOOLEAN
  BY DEF Inv, TypeOK
<1>. DEFINE v == IF done[g] # 0 /\ recvok[g] /\ op[g].cases[done[g]].dir = "recv"
                 THEN elem[g][done[g]] ELSE None
            o == [case |-> done[g], v |-> v, ok |-> recvok[g]]
<1>4. v \in G \cup {None}
  <2>1. elem[g][done[g]] \in G \cup {None}
    BY <1>2, <1>3, ElementOfSeq, LenProperties
  <2>. QED BY <2>1
<1>5. o \in Outcomes /\ o # None /\ o.case = done[g]
  BY <1>3, <1>4, ChanAssumption DEF Outcomes
<1>6. /\ pc' = [pc EXCEPT ![g] = "clean"] /\ res' = [res EXCEPT ![g] = o]
      /\ at' = [at EXCEPT ![g] = 1]
  OBVIOUS
<1>. HIDE DEF o
<1>7. TypeOK' BY <1>5, <1>6 DEF Inv, TypeOK, PCs, chans, queues, flags
<1>8. pc'[g] = "clean" /\ res'[g] = o /\ at'[g] = 1 BY <1>6 DEF Inv, TypeOK
<1>9. Local(g) BY <1>6 DEF Local, Inv, TypeOK, flags
<1>10. Quiet(g) BY <1>1, <1>8, <1>9 DEF Quiet, flags
<1>11. Cases(g)' = Cases(g) BY DEF Cases
<1>12. CallOf(g)'
  <2>1. DOMAIN Cases(g) = 1 .. Len(Cases(g)) /\ Len(Cases(g)) \in Nat
    BY <1>1, OpOf DEF Inv
  <2>. QED BY <1>1, <1>2, <1>5, <1>8, <1>11, <2>1
           DEF Inv, CallInv, CallOf, Deciding, Waits, Clear, flags
<1>13. DeliveredOf(g)' BY <1>8 DEF DeliveredOf
<1>14. ASSUME NEW c \in C, NEW d \in Dirs, NEW r \in Range(Q(d, c)), r.g = g
       PROVE  RecordOf(r, d, c)'
  <2>1. RecordOf(r, d, c) /\ r.i \in Nat \ {0}
    <3>1. RecordOf(r, d, c) BY <1>14 DEF Inv, RecordInv
    <3>2. r.i \in DOMAIN Cases(g) BY <1>14, <3>1 DEF RecordOf
    <3>. QED BY <1>1, <3>1, <3>2, CaseOf DEF Inv
  <2>2. r.i >= 1 BY <2>1
  <2>. QED BY <1>1, <1>8, <1>11, <1>14, <2>1, <2>2 DEF RecordOf, flags, Waits
<1>15. SoloInv' BY LocalSolo, <1>9 DEF Inv, Local
<1>16. LockInv' BY <1>1, <1>8, <1>9, LocalLocks DEF Inv, Locking
<1>. QED BY <1>7, <1>10, <1>12, <1>13, <1>14, <1>15, <1>16, QuietInv

LEMMA CleanDoneInv ==
    ASSUME Inv, NEW g \in G, CleanDone(g)
    PROVE  Inv'
<1>. USE DEF CleanDone, At, Goto
<1>1. /\ pc[g] = "clean" /\ op[g].sel /\ at[g] > Len(Cases(g))
      /\ res[g].case = done[g] /\ done[g] \in DOMAIN Cases(g)
  BY DEF Inv, CallInv, CallOf, Cases
<1>2. /\ DOMAIN Cases(g) = 1 .. Len(Cases(g)) /\ Len(Cases(g)) \in Nat
      /\ at[g] \in Nat
  BY <1>1, OpOf DEF Inv, TypeOK
<1>3. done[g] # 0 BY <1>1, <1>2
<1>4. pc' = [pc EXCEPT ![g] = "return"] /\ UNCHANGED <<at, todo, flags, res>>
  BY <1>1, <1>3
<1>5. TypeOK' BY <1>4 DEF Inv, TypeOK, PCs, chans, queues, flags
<1>6. pc'[g] = "return" BY <1>4 DEF Inv, TypeOK
<1>7. Local(g) BY <1>4 DEF Local, Inv, TypeOK, flags
<1>8. Quiet(g) BY <1>1, <1>4, <1>6, <1>7 DEF Quiet, flags
<1>9. Cases(g)' = Cases(g) BY DEF Cases
<1>10. CallOf(g)'
  BY <1>1, <1>4, <1>6, <1>9 DEF Inv, CallInv, CallOf, Deciding, Waits, Clear, flags
<1>11. DeliveredOf(g)' BY <1>1, <1>6 DEF DeliveredOf
<1>12. ASSUME NEW c \in C, NEW d \in Dirs, NEW r \in Range(Q(d, c)), r.g = g PROVE FALSE
  <2>1. RecordOf(r, d, c) BY <1>12 DEF Inv, RecordInv
  <2>2. r.i \in 1 .. Len(Cases(g)) /\ r.i >= at[g]
    BY <1>1, <1>2, <1>12, <2>1 DEF RecordOf
  <2>. QED BY <1>1, <1>2, <2>2
<1>13. SoloInv' BY LocalSolo, <1>7 DEF Inv, Local
<1>14. LockInv' BY <1>1, <1>6, <1>7, LocalLocks DEF Inv, Locking
<1>. QED BY <1>5, <1>8, <1>10, <1>11, <1>12, <1>13, <1>14, QuietInv

LEMMA ReturnInv ==
    ASSUME Inv, NEW g \in G, Return(g)
    PROVE  Inv'
<1>. USE DEF Return, At, Goto
<1>1. pc[g] = "return" OBVIOUS
<1>2. ASSUME NEW h \in G, wk[h] # None PROVE wk[h].g # g
  BY <1>1, <1>2 DEF Inv, WakeInv, WokenBy
<1>3. done' = [done EXCEPT ![g] = 0] BY <1>2
<1>4. TypeOK'
  <2>1. <<>> \in Seq(G \cup {None}) OBVIOUS
  <2>. QED BY <1>3, <2>1 DEF Inv, TypeOK, PCs, chans, queues
<1>5. /\ pc'[g] = "idle" /\ op'[g] = None /\ res'[g] = None /\ wk'[g] = wk[g]
      /\ done'[g] = 0
  BY <1>3 DEF Inv, TypeOK
<1>6. Local(g) BY <1>3 DEF Local, Inv, TypeOK
<1>7. Quiet(g) BY <1>1, <1>5, <1>6 DEF Quiet, Waits
<1>8. CallOf(g)'
  BY <1>1, <1>5 DEF Inv, CallInv, CallOf, Deciding, Waits, Clear
<1>9. DeliveredOf(g)' BY <1>5 DEF DeliveredOf
<1>10. \A c \in C, d \in Dirs : \A r \in Range(Q(d, c)) : r.g # g
  BY <1>1, NoRecords DEF Inv, Waits
<1>11. SoloInv' BY LocalSolo, <1>6 DEF Inv, Local
<1>12. LockInv' BY <1>1, <1>5, <1>6, LocalLocks DEF Inv, Locking
<1>. QED BY <1>4, <1>7, <1>8, <1>9, <1>10, <1>11, <1>12, QuietInv

LEMMA LockStepInv ==
    ASSUME Inv, NEW g \in G, Lock(g)
    PROVE  Inv'
<1>. USE DEF Lock, At, Goto
<1>1. PICK c \in LockNext(g) :
        /\ lock[c] = None /\ lock' = [lock EXCEPT ![c] = g]
        /\ todo' = [todo EXCEPT ![g] = @ \ {c}]
        /\ pc' = [pc EXCEPT ![g] = IF todo[g] = {c} THEN "try" ELSE "lock"]
  OBVIOUS
<1>2. /\ pc[g] = "lock" /\ c \in todo[g] /\ todo[g] \subseteq Channels(op[g])
      /\ c \in C /\ todo[g] \subseteq C /\ at[g] = 1
  <2>1. c \in todo[g] BY DEF LockNext
  <2>2. pc[g] = "lock" /\ at[g] = 1 BY DEF Inv, CallInv, CallOf
  <2>3. todo[g] \subseteq Channels(op[g]) BY <2>2 DEF Inv, LockInv, Locking
  <2>4. todo[g] \subseteq C BY DEF Inv, TypeOK
  <2>. QED BY <2>1, <2>2, <2>3, <2>4
<1>3. TypeOK' BY <1>1, <1>2 DEF Inv, TypeOK, PCs, chans, queues, flags
<1>4. /\ pc'[g] = IF todo[g] = {c} THEN "try" ELSE "lock"
      /\ todo'[g] = todo[g] \ {c} /\ lock'[c] = g
      /\ \A b \in C \ {c} : lock'[b] = lock[b]
  BY <1>1, <1>2 DEF Inv, TypeOK
<1>5. Local(g) BY <1>1 DEF Local, Inv, TypeOK, flags
<1>6. Cases(g)' = Cases(g) BY DEF Cases
<1>7. Quiet(g)
  <2>1. DOMAIN Cases(g) = 1 .. Len(Cases(g)) BY <1>2, OpOf DEF Inv
  <2>2. \A i \in DOMAIN Cases(g) : ~(i < at[g]) BY <1>2, <2>1
  <2>. QED BY <1>1, <1>2, <1>4, <1>5, <1>6, <2>2 DEF Quiet, flags
<1>8. CallOf(g)'
  BY <1>1, <1>2, <1>4, <1>6 DEF Inv, CallInv, CallOf, Deciding, Waits, Clear, flags
<1>9. DeliveredOf(g)' BY <1>4 DEF DeliveredOf
<1>10. \A b \in C, d \in Dirs : \A r \in Range(Q(d, b)) : r.g # g
  BY <1>2, NoRecords DEF Inv, Waits
<1>11. SoloInv' BY LocalSolo, <1>5 DEF Inv, Local
<1>12. LockInv'
  <2>1. ASSUME NEW h \in G, pc'[h] \in Locking
        PROVE  /\ \A b \in Channels(op'[h]) \ todo'[h] : lock'[b] = h
               /\ todo'[h] \subseteq Channels(op'[h])
               /\ todo'[h] = {} <=> pc'[h] # "lock"
    <3>1. CASE h = g
      <4>1. \A b \in Channels(op[g]) \ todo[g] : lock[b] = g
        BY <1>2 DEF Inv, LockInv, Locking
      <4>2. Channels(op[g]) \subseteq C BY <1>2, ChannelsIn DEF Inv
      <4>3. todo'[g] = {} <=> pc'[g] # "lock" BY <1>2, <1>4
      <4>. QED BY <1>2, <1>4, <3>1, <4>1, <4>2, <4>3
    <3>2. CASE h # g
      <4>1. /\ pc'[h] = pc[h] /\ op'[h] = op[h] /\ todo'[h] = todo[h]
        BY <1>5, <3>2 DEF Local
      <4>2. \A b \in Channels(op[h]) \ todo[h] : lock[b] = h /\ b # c
        BY <1>1, <2>1, <4>1, ChanAssumption DEF Inv, LockInv
      <4>3. Channels(op[h]) \subseteq C
        BY <2>1, <4>1, ChannelsIn DEF Inv, Locking
      <4>. QED BY <1>4, <2>1, <4>1, <4>2, <4>3 DEF Inv, LockInv
    <3>. QED BY <3>1, <3>2
  <2>2. ASSUME NEW b \in C, lock'[b] # None
        PROVE  /\ pc'[lock'[b]] \in Locking
               /\ b \in Channels(op'[lock'[b]]) \ todo'[lock'[b]]
    <3>1. CASE b = c BY <1>2, <1>4, <3>1 DEF Locking
    <3>2. CASE b # c /\ lock[b] = g
      BY <1>2, <1>4, <2>2, <3>2 DEF Inv, LockInv, Locking
    <3>3. CASE b # c /\ lock[b] # g
      <4>1. lock'[b] = lock[b] /\ lock[b] \in G \ {g}
        BY <1>4, <2>2, <3>3 DEF Inv, TypeOK
      <4>. QED BY <1>5, <2>2, <4>1 DEF Inv, LockInv, Local
    <3>. QED BY <3>1, <3>2, <3>3
  <2>. QED BY <2>1, <2>2 DEF LockInv
<1>. QED BY <1>3, <1>7, <1>8, <1>9, <1>10, <1>11, <1>12, QuietInv

\* The locks, when a call gives back its own.
LEMMA ReleaseLocks ==
    ASSUME TypeOK, LockInv, NEW g \in G, Local(g), Release(g),
           pc[g] \in Locking, pc'[g] \notin Locking,
           \A h \in G \ {g} : pc[h] \in Locking => Channels(op[h]) \subseteq C
    PROVE  LockInv'
<1>. USE DEF Release
<1>1. ASSUME NEW h \in G, pc'[h] \in Locking
      PROVE  /\ \A b \in Channels(op'[h]) \ todo'[h] : lock'[b] = h
             /\ todo'[h] \subseteq Channels(op'[h])
             /\ todo'[h] = {} <=> pc'[h] # "lock"
  <2>1. /\ h # g /\ pc'[h] = pc[h] /\ op'[h] = op[h] /\ todo'[h] = todo[h]
    BY <1>1 DEF Local
  <2>2. \A b \in Channels(op[h]) \ todo[h] : lock[b] = h /\ b \in C
    BY <1>1, <2>1 DEF LockInv
  <2>. QED BY <1>1, <2>1, <2>2 DEF LockInv
<1>2. ASSUME NEW b \in C, lock'[b] # None
      PROVE  /\ pc'[lock'[b]] \in Locking
             /\ b \in Channels(op'[lock'[b]]) \ todo'[lock'[b]]
  <2>1. lock'[b] = lock[b] /\ lock[b] \in G \ {g} BY <1>2 DEF TypeOK
  <2>. QED BY <1>2, <2>1 DEF LockInv, Local
<1>. QED BY <1>1, <1>2 DEF LockInv

LEMMA UnlockInv ==
    ASSUME Inv, NEW g \in G, Unlock(g)
    PROVE  Inv'
<1>. USE DEF Unlock, At, Goto
<1>1. TypeOK'
  BY DEF Inv, TypeOK, PCs, chans, queues, frame, flags, Release
<1>2. pc[g] = "unlock" /\ pc'[g] = "return" BY DEF Inv, TypeOK
<1>3. Local(g) BY DEF Local, Inv, TypeOK, frame, flags
<1>4. Cases(g)' = Cases(g) BY DEF Cases, frame
<1>5. \A c \in C : lock[c] \in {g, None} \/ lock'[c] = lock[c]
  BY DEF Release
<1>6. Quiet(g) BY <1>2, <1>3, <1>5 DEF Quiet, flags
<1>7. CallOf(g)'
  BY <1>2, <1>4 DEF Inv, CallInv, CallOf, Deciding, Waits, Clear, frame, flags
<1>8. DeliveredOf(g)' BY <1>2, <1>4 DEF Inv, DeliveredInv, DeliveredOf, frame
<1>9. \A c \in C, d \in Dirs : \A r \in Range(Q(d, c)) : r.g # g
  BY <1>2, NoRecords DEF Inv, Waits
<1>10. SoloInv' BY LocalSolo, <1>3 DEF Inv, Local
<1>11. LockInv'
  <2>1. \A h \in G \ {g} : pc[h] \in Locking => Channels(op[h]) \subseteq C
    BY ChannelsIn DEF Inv, Locking
  <2>. QED BY <1>2, <1>3, <2>1, ReleaseLocks DEF Inv, Locking
<1>. QED BY <1>1, <1>6, <1>7, <1>8, <1>9, <1>10, <1>11, QuietInv

-----------------------------------------------------------------------------
(***************************************************************************)
(* The steps of a call that holds its locks and tries a case.              *)
(***************************************************************************)
LEMMA HeldInv ==
    ASSUME Inv, NEW g \in G, NEW p \in {"try", "drain"}, At(g, p),
           NEW c \in C, c = This(g).c,
           Local(g), Shrinks, ClosedStays, UNCHANGED <<cap, lock, op, todo, done>>,
           \A b \in C \ {c} : qcount'[b] = qcount[b] /\ closed'[b] = closed[b],
           pc'[g] \in Locking \ {"lock"},
           TypeOK', WakeInv', RingInv', CallOf(g)', DeliveredOf(g)', WaitersOf(c)',
           pc'[g] \in {"try", "queue"} =>
             \A i \in DOMAIN Cases(g)' :
                 pc'[g] = "queue" \/ i < at'[g] => CaseStuck(g, i)'
    PROVE  Inv'
<1>1. pc[g] = p /\ pc[g] \in Locking \ {"lock"} BY DEF At, Locking
<1>2. c \in Channels(op[g]) BY <1>1, ThisCase DEF Inv, Locking
<1>3. lock[c] = g BY <1>1, <1>2, HoldsLocks DEF Inv
<1>4. StepOf(g) BY <1>1, <1>3 DEF StepOf
<1>5. ASSUME NEW b \in C, lock[b] = g, b # c PROVE WaitersOf(b)'
  <2>1. b \in Channels(op[g]) BY <1>1, <1>5, HoldsLocks DEF Inv
  <2>2. pc[g] # "drain"
    <3>. SUFFICES ASSUME pc[g] = "drain" PROVE FALSE OBVIOUS
    <3>1. PICK i \in DOMAIN Cases(g) : b = Cases(g)[i].c
      BY <2>1 DEF Channels, Cases
    <3>2. at[g] \in DOMAIN Cases(g) /\ c = Cases(g)[at[g]].c BY <1>1, ThisCase DEF Inv
    <3>3. Cases(g)[at[g]].dir = "close" BY DEF Inv, CallInv, CallOf
    <3>4. ~op[g].sel BY <1>1, <3>2, <3>3, OpOf DEF Inv
    <3>. QED BY <1>1, <1>5, <3>1, <3>2, <3>4, CaseOf DEF Inv
  <2>. QED BY <1>1, <1>4, <1>5, <2>2, StepFewer, LocalWaiters DEF Inv
<1>6. \A b \in C, d \in Dirs : \A r \in Range(Q(d, b)') : r.g # g
  <2>1. \A b \in C, d \in Dirs : \A r \in Range(Q(d, b)) : r.g # g
    BY <1>1, NoRecords DEF Inv, Waits
  <2>. QED BY <2>1 DEF Shrinks
<1>7. After(g) BY <1>5, <1>6 DEF After
<1>8. Others' BY <1>4, <1>7, StepInv
<1>9. SoloInv' BY LocalSolo DEF Inv, Local
<1>10. LockInv' BY <1>1, LocalLocks DEF Inv
<1>. QED BY <1>8, <1>9, <1>10 DEF Inv, Others

\* A queue was searched in vain and is empty now.
LEMMA Searched ==
    ASSUME Inv, NEW g \in G, pc[g] = "try", This(g).dir # "close", Stuck(g),
           SearchedQueue(g), UNCHANGED <<cap, qcount, closed, op, done>>,
           NEW i, i = at[g]
    PROVE  /\ Shrinks /\ CaseStuck(g, i)'
           /\ sendq' \in [C -> Seq(Record)] /\ recvq' \in [C -> Seq(Record)]
           /\ \A c \in C : /\ Waiters(recvq[c])' \subseteq Waiters(recvq[c])
                           /\ Waiters(sendq[c])' \subseteq Waiters(sendq[c])
<1>. PICK c \in C : c = This(g).c BY ThisCase DEF Inv
<1>1. /\ This(g) = Cases(g)[at[g]] /\ This(g).dir \in Dirs
  BY ThisCase DEF Inv, Dirs
<1>2. Cases(g)' = Cases(g) BY DEF Cases
<1>3. /\ ~closed[c]
      /\ This(g).dir = "send" => qcount[c] = cap[c]
      /\ This(g).dir = "recv" => qcount[c] = 0
  BY DEF Stuck
<1>. PICK d \in Dirs : d = IF This(g).dir = "send" THEN "recv" ELSE "send"
  BY DEF Dirs
<1>4. QueueBecomes(d, c, <<>>)
  BY <1>1 DEF SearchedQueue, QueueBecomes, Dirs, queues
<1>5. Shrinks BY <1>4, EmptyQueue, QueueShrinks DEF Inv
<1>6. Q(d, c)' = <<>> /\ sendq' \in [C -> Seq(Record)] /\ recvq' \in [C -> Seq(Record)]
  <2>. PICK s \in Seq(Record) : s = <<>> BY EmptyQueue
  <2>1. QueueBecomes(d, c, s) BY <1>4
  <2>2. TypeOK BY DEF Inv
  <2>3. \A b \in C, e \in Dirs : Q(e, b)' = IF b = c /\ e = d THEN s ELSE Q(e, b)
    BY ONLY <2>1, <2>2, OneQueue
  <2>4. sendq' \in [C -> Seq(Record)] /\ recvq' \in [C -> Seq(Record)]
    BY ONLY <2>1, <2>2, OneQueue
  <2>. QED BY <2>3, <2>4
<1>7. This(g).dir = "send" => Waiters(recvq[c])' = {}
  BY <1>6 DEF Waiters, Q
<1>8. This(g).dir = "recv" => Waiters(sendq[c])' = {}
  BY <1>1, <1>6 DEF Waiters, Q
<1>9. CaseStuck(g, i)'
  BY <1>1, <1>2, <1>3, <1>7, <1>8 DEF CaseStuck
<1>10. \A b \in C, e \in Dirs : Waiters(Q(e, b))' \subseteq Waiters(Q(e, b))
  BY <1>5, FewerWaiters DEF Inv
<1>11. \A b \in C : /\ Waiters(recvq[b])' \subseteq Waiters(recvq[b])
                    /\ Waiters(sendq[b])' \subseteq Waiters(sendq[b])
  BY <1>10 DEF Q, Dirs
<1>. QED BY <1>5, <1>6, <1>9, <1>11

\* The cases tried before stay as they are.
LEMMA TriedBefore ==
    ASSUME Inv, NEW g \in G, pc[g] = "try", UNCHANGED <<cap, qcount, closed, op>>,
           NEW i \in DOMAIN Cases(g), i < at[g],
           \A c \in C : /\ Waiters(recvq[c])' \subseteq Waiters(recvq[c])
                        /\ Waiters(sendq[c])' \subseteq Waiters(sendq[c])
    PROVE  CaseStuck(g, i)'
<1>1. CaseStuck(g, i) BY DEF Inv, TriedInv
<1>2. Cases(g)[i].c \in C BY CaseOf DEF Inv
<1>3. Cases(g)' = Cases(g) BY DEF Cases
<1>. QED BY <1>1, <1>2, <1>3 DEF CaseStuck

\* What the three outcomes of a case that cannot proceed have in common.
LEMMA StuckStep ==
    ASSUME Inv, NEW g \in G, At(g, "try"), This(g).dir # "close", Stuck(g),
           SearchedQueue(g), Local(g),
           UNCHANGED <<chans, lock, op, todo, elem, flags, wk, failed>>,
           pc'[g] \in {"try", "queue", "unlock"},
           pc' \in [G -> PCs], at' \in [G -> Nat], res' \in [G -> Outcomes \cup {None}],
           CallOf(g)', DeliveredOf(g)',
           pc'[g] \in {"try", "queue"} =>
             \A i \in DOMAIN Cases(g) :
                 pc'[g] = "queue" \/ i < at'[g] => i < at[g] \/ i = at[g]
    PROVE  Inv'
<1>. USE DEF chans, flags, At
<1>. PICK c \in C : c = This(g).c BY ThisCase DEF Inv
<1>1. /\ Shrinks /\ \A i : i = at[g] => CaseStuck(g, i)'
      /\ sendq' \in [C -> Seq(Record)] /\ recvq' \in [C -> Seq(Record)]
      /\ \A b \in C : /\ Waiters(recvq[b])' \subseteq Waiters(recvq[b])
                      /\ Waiters(sendq[b])' \subseteq Waiters(sendq[b])
  BY Searched
<1>2. TypeOK' BY <1>1 DEF Inv, TypeOK
<1>3. ClosedStays BY DEF ClosedStays
<1>4. WakeInv' BY <1>1, <1>3, LocalWaking DEF Inv
<1>5. RingInv' BY DEF Inv, RingInv
<1>6. WaitersOf(c)' BY <1>1, LocalWaiters DEF Inv
<1>7. Cases(g)' = Cases(g) BY DEF Cases
<1>8. ASSUME pc'[g] \in {"try", "queue"}, NEW i \in DOMAIN Cases(g),
             pc'[g] = "queue" \/ i < at'[g]
      PROVE  CaseStuck(g, i)'
  BY <1>1, <1>8, TriedBefore
<1>. QED
  BY <1>1, <1>2, <1>3, <1>4, <1>5, <1>6, <1>7, <1>8, HeldInv DEF Locking

LEMMA TryNextInv ==
    ASSUME Inv, NEW g \in G, TryNext(g)
    PROVE  Inv'
<1>. USE DEF TryNext, LastCase
<1>1. pc[g] = "try" /\ at[g] \in Nat BY DEF Inv, TypeOK, At
<1>2. /\ at[g] \in 1 .. Len(Cases(g)) /\ at[g] # Len(Cases(g)) /\ Len(Cases(g)) \in Nat
      /\ DOMAIN Cases(g) = 1 .. Len(Cases(g))
  BY <1>1, ThisCase, OpOf DEF Inv, Cases
<1>3. at'[g] = at[g] + 1 /\ at' \in [G -> Nat] BY <1>1 DEF Inv, TypeOK
<1>4. Local(g) BY DEF Local, Inv, TypeOK, flags
<1>5. Cases(g)' = Cases(g) BY DEF Cases
<1>6. CallOf(g)'
  BY <1>1, <1>2, <1>3, <1>5
     DEF Inv, CallInv, CallOf, Deciding, Waits, Clear, flags
<1>7. DeliveredOf(g)' BY <1>1 DEF DeliveredOf
<1>8. \A i \in DOMAIN Cases(g) : i < at'[g] => i < at[g] \/ i = at[g]
  BY <1>1, <1>2, <1>3
<1>9. pc' \in [G -> PCs] /\ res' \in [G -> Outcomes \cup {None}]
  BY DEF Inv, TypeOK
<1>. QED BY <1>1, <1>3, <1>4, <1>6, <1>7, <1>8, <1>9, StuckStep

LEMMA DeclineInv ==
    ASSUME Inv, NEW g \in G, Decline(g)
    PROVE  Inv'
<1>. USE DEF Decline, LastCase
<1>. DEFINE o == [case |-> 0, v |-> None, ok |-> FALSE]
<1>1. pc[g] = "try" BY DEF At
<1>2. o \in Outcomes /\ o # None
  <2>1. o \in Outcomes BY DEF Outcomes
  <2>. QED BY <2>1, ChanAssumption
<1>3. /\ pc'[g] = "unlock" /\ res'[g] = o /\ pc' \in [G -> PCs]
      /\ res' \in [G -> Outcomes \cup {None}] /\ at' \in [G -> Nat]
  BY <1>2 DEF Inv, TypeOK, PCs, Goto, Reply, Outcome
<1>4. Local(g) BY DEF Local, Inv, TypeOK, flags, Goto, Reply
<1>5. Cases(g)' = Cases(g) BY DEF Cases
<1>6. CallOf(g)'
  BY <1>1, <1>2, <1>3, <1>5
     DEF Inv, CallInv, CallOf, Deciding, Waits, Clear, flags
<1>7. DeliveredOf(g)' BY <1>3 DEF DeliveredOf
<1>. QED BY <1>1, <1>3, <1>4, <1>6, <1>7, StuckStep

LEMMA WaitInv ==
    ASSUME Inv, NEW g \in G, Wait(g)
    PROVE  Inv'
<1>. USE DEF Wait, LastCase
<1>1. pc[g] = "try" /\ This(g).dir # "close" /\ at[g] = Len(Cases(g)) BY DEF At, Cases
<1>2. /\ DOMAIN Cases(g) = 1 .. Len(Cases(g)) /\ Len(Cases(g)) \in Nat \ {0}
      /\ at[g] \in DOMAIN Cases(g) /\ This(g) = Cases(g)[at[g]]
      /\ IF op[g].sel THEN \A i \in DOMAIN Cases(g) : Cases(g)[i].dir # "close"
                      ELSE Len(Cases(g)) = 1
  BY <1>1, ThisCase, OpOf DEF Inv
<1>3. /\ pc'[g] = "queue" /\ at'[g] = 1 /\ pc' \in [G -> PCs] /\ at' \in [G -> Nat]
      /\ res' \in [G -> Outcomes \cup {None}]
  BY DEF Inv, TypeOK, PCs, Goto
<1>4. Local(g) BY DEF Local, Inv, TypeOK, flags, Goto
<1>5. Cases(g)' = Cases(g) BY DEF Cases
<1>6. \A i \in DOMAIN Cases(g) : Cases(g)[i].dir # "close" BY <1>1, <1>2
<1>7. CallOf(g)'
  BY <1>1, <1>2, <1>3, <1>5, <1>6
     DEF Inv, CallInv, CallOf, Deciding, Waits, Clear, flags
<1>8. DeliveredOf(g)' BY <1>3 DEF DeliveredOf
<1>9. \A i \in DOMAIN Cases(g) : i < at[g] \/ i = at[g] BY <1>1, <1>2
<1>. QED BY <1>1, <1>3, <1>4, <1>7, <1>8, <1>9, StuckStep

\* A call that has its answer.
LEMMA AnswerCall ==
    ASSUME Inv, NEW g \in G, pc[g] = "try", pc'[g] \in {"wake", "drain", "unlock"},
           UNCHANGED <<op, at>>, DOMAIN elem'[g] = DOMAIN elem[g],
           wk'[g] = None <=> pc'[g] # "wake", res'[g] \in Outcomes,
           pc'[g] = "drain" => This(g).dir = "close",
           pc'[g] \in {"wake", "drain"} /\ This(g).dir = "close" => closed'[This(g).c]
    PROVE  CallOf(g)'
<1>1. Cases(g)' = Cases(g) BY DEF Cases
<1>2. res'[g] # None BY ChanAssumption
<1>3. This(g) = Cases(g)[at[g]] BY ThisCase DEF Inv
<1>. QED BY <1>1, <1>2, <1>3 DEF Inv, CallInv, CallOf, Deciding, Waits, Clear

\* A plain call has one case.
LEMMA PlainCase ==
    ASSUME Inv, NEW g \in G, pc[g] \notin {"idle", "clean", "return"}, ~op[g].sel
    PROVE  at[g] = 1 /\ This(g) = Cases(g)[1]
BY ThisCase, CaseOf DEF Inv

LEMMA OutcomeIn ==
    ASSUME NEW i \in Nat, NEW v \in G \cup {None}, NEW ok \in BOOLEAN
    PROVE  /\ Outcome(i, v, ok) \in Outcomes /\ Outcome(i, v, ok).case = i
           /\ Outcome(i, v, ok).ok = ok /\ Outcome(i, v, ok).v = v
BY DEF Outcome, Outcomes

LEMMA AnswerDelivers ==
    ASSUME Inv, NEW g \in G, pc[g] = "try", op' = op, NEW v \in G \cup {None},
           NEW ok \in BOOLEAN, res'[g] = Outcome(at[g], v, ok),
           This(g).dir = "send" => ok
    PROVE  DeliveredOf(g)'
<1>1. at[g] \in Nat BY DEF Inv, TypeOK
<1>2. res'[g].case = at[g] /\ res'[g].ok = ok BY <1>1, OutcomeIn
<1>3. Cases(g)' = Cases(g) BY DEF Cases
<1>4. ~op[g].sel => at[g] = 1 /\ This(g) = Cases(g)[1] BY PlainCase
<1>. QED BY <1>2, <1>3, <1>4 DEF DeliveredOf

LEMMA ElemType ==
    ASSUME TypeOK, NEW h \in G, NEW i \in DOMAIN elem[h], NEW v \in G \cup {None},
           elem' = [elem EXCEPT ![h][i] = v]
    PROVE  /\ elem' \in [G -> Seq(G \cup {None})]
           /\ \A j \in G : DOMAIN elem'[j] = DOMAIN elem[j]
           /\ \A j \in G \ {h} : elem'[j] = elem[j]
           /\ elem'[h] = [elem[h] EXCEPT ![i] = v]
<1>1. elem[h] \in Seq(G \cup {None}) /\ elem \in [G -> Seq(G \cup {None})] BY DEF TypeOK
<1>2. DOMAIN elem[h] = 1 .. Len(elem[h]) BY <1>1, LenProperties
<1>3. [elem[h] EXCEPT ![i] = v] \in Seq(G \cup {None}) BY <1>1, <1>2, ExceptSeq
<1>. QED BY <1>1, <1>3

\* The places of a ring of n.
LEMMA Wrap ==
    ASSUME NEW n \in Nat \ {0}, NEW x \in 0 .. (2 * n - 1)
    PROVE  x % n = (IF x < n THEN x ELSE x - n) /\ x % n \in 0 .. (n - 1)
OBVIOUS

LEMMA RingPlaces ==
    ASSUME TypeOK, RingInv, NEW c \in C, cap[c] # 0
    PROVE  /\ cap[c] \in Nat \ {0} /\ qcount[c] \in 0 .. cap[c]
           /\ recvx[c] \in 0 .. (cap[c] - 1) /\ sendx[c] \in 0 .. (cap[c] - 1)
           /\ recvx[c] + qcount[c] < cap[c] => sendx[c] = recvx[c] + qcount[c]
           /\ recvx[c] + qcount[c] >= cap[c] => sendx[c] = recvx[c] + qcount[c] - cap[c]
<1>1. cap[c] \in Nat \ {0} /\ qcount[c] \in 0 .. cap[c]
  <2>1. cap[c] \in Nat BY ChanAssumption DEF TypeOK
  <2>2. qcount[c] \in 0 .. cap[c] BY DEF TypeOK
  <2>. QED BY <2>1, <2>2
<1>2. recvx[c] \in 0 .. (cap[c] - 1) /\ sendx[c] = (recvx[c] + qcount[c]) % cap[c]
  BY <1>1 DEF RingInv
<1>. PICK n \in Nat \ {0} : n = cap[c] BY <1>1
<1>. PICK x \in 0 .. (2 * n - 1) : x = recvx[c] + qcount[c] BY <1>1, <1>2
<1>3. x % n = (IF x < n THEN x ELSE x - n) /\ x % n \in 0 .. (n - 1) BY Wrap
<1>4. sendx[c] = x % n BY <1>2
<1>. QED BY <1>1, <1>2, <1>3, <1>4

LEMMA NextPlace ==
    ASSUME NEW c \in C, cap[c] \in Nat \ {0}, NEW x \in 0 .. (cap[c] - 1)
    PROVE  Inc(c, x) = IF x + 1 = cap[c] THEN 0 ELSE x + 1
<1>. PICK n \in Nat \ {0} : n = cap[c] OBVIOUS
<1>. PICK y \in 0 .. (2 * n - 1) : y = x + 1 OBVIOUS
<1>1. y % n = (IF y < n THEN y ELSE y - n) BY Wrap
<1>. QED BY <1>1 DEF Inc

\* sendx, recvx and qcount after a value was added, taken out, or both.
RingBecomes(c, s, r, q) ==
    /\ sendx' = [sendx EXCEPT ![c] = s] /\ recvx' = [recvx EXCEPT ![c] = r]
    /\ qcount' = [qcount EXCEPT ![c] = q] /\ cap' = cap

LEMMA RingChange ==
    ASSUME TypeOK, RingInv, NEW c \in C, cap[c] # 0, NEW s, NEW r, NEW q,
           RingBecomes(c, s, r, q),
           \/ s = Inc(c, sendx[c]) /\ r = recvx[c] /\ q = qcount[c] + 1 /\ qcount[c] < cap[c]
           \/ s = sendx[c] /\ r = Inc(c, recvx[c]) /\ q = qcount[c] - 1 /\ qcount[c] > 0
           \/ s = Inc(c, sendx[c]) /\ r = Inc(c, recvx[c]) /\ q = qcount[c]
    PROVE  /\ {sendx', recvx', qcount'} \subseteq [C -> Nat]
           /\ \A b \in C : {sendx'[b], recvx'[b], qcount'[b]} \subseteq 0 .. cap'[b]
           /\ RingInv'
<1>. PICK n \in Nat \ {0} : n = cap[c] BY RingPlaces
<1>. PICK k \in 0 .. n : k = qcount[c] BY RingPlaces
<1>. PICK a \in 0 .. (n - 1) : a = recvx[c] BY RingPlaces
<1>. PICK b \in 0 .. (n - 1) : b = sendx[c] BY RingPlaces
<1>1. (a + k < n => b = a + k) /\ (a + k >= n => b = a + k - n) BY RingPlaces
<1>. PICK y \in 0 .. (n - 1) : y = Inc(c, a) /\ y = (IF a + 1 = n THEN 0 ELSE a + 1)
  BY NextPlace
<1>. PICK z \in 0 .. (n - 1) : z = Inc(c, b) /\ z = (IF b + 1 = n THEN 0 ELSE b + 1)
  BY NextPlace
<1>2. \/ s = z /\ r = a /\ q = k + 1 /\ k < n
      \/ s = b /\ r = y /\ q = k - 1 /\ k > 0
      \/ s = z /\ r = y /\ q = k
  OBVIOUS
<1>3. /\ s \in 0 .. (n - 1) /\ r \in 0 .. (n - 1) /\ q \in 0 .. n
      /\ (r + q < n => s = r + q) /\ (r + q >= n => s = r + q - n)
  <2>1. s \in 0 .. (n - 1) /\ r \in 0 .. (n - 1) /\ q \in 0 .. n BY <1>2
  <2>. PICK s1 \in 0 .. (n - 1), r1 \in 0 .. (n - 1), q1 \in 0 .. n :
            s1 = s /\ r1 = r /\ q1 = q
    BY <2>1
  <2>2. /\ y = (IF a + 1 = n THEN 0 ELSE a + 1) /\ z = (IF b + 1 = n THEN 0 ELSE b + 1)
        /\ \/ s1 = z /\ r1 = a /\ q1 = k + 1
           \/ s1 = b /\ r1 = y /\ q1 = k - 1
           \/ s1 = z /\ r1 = y /\ q1 = k
    BY <1>2
  <2>3. (r1 + q1 < n => s1 = r1 + q1) /\ (r1 + q1 >= n => s1 = r1 + q1 - n)
    BY ONLY <1>1, <2>2
  <2>. QED BY <2>1, <2>3
<1>4. s = (r + q) % n
  <2>. PICK x \in 0 .. (2 * n - 1) : x = r + q BY <1>3
  <2>1. s = IF x < n THEN x ELSE x - n BY <1>3
  <2>. QED BY <2>1, Wrap
<1>5. {sendx, recvx, qcount} \subseteq [C -> Nat] /\ cap \in [C -> Caps] BY DEF TypeOK
<1>6. /\ sendx'[c] = s /\ recvx'[c] = r /\ qcount'[c] = q /\ cap'[c] = n
      /\ \A e \in C \ {c} : /\ sendx'[e] = sendx[e] /\ recvx'[e] = recvx[e]
                            /\ qcount'[e] = qcount[e] /\ cap'[e] = cap[e]
      /\ {sendx', recvx', qcount'} \subseteq [C -> Nat]
  BY <1>3, <1>5 DEF RingBecomes
<1>7. \A e \in C : {sendx'[e], recvx'[e], qcount'[e]} \subseteq 0 .. cap'[e]
  <2>1. \A e \in C : {sendx[e], recvx[e], qcount[e]} \subseteq 0 .. cap[e] BY DEF TypeOK
  <2>. QED BY <1>3, <1>6, <2>1
<1>8. RingInv'
  <2>1. ASSUME NEW e \in C \ {c}
        PROVE  IF cap'[e] = 0 THEN sendx'[e] = 0 /\ recvx'[e] = 0
               ELSE /\ recvx'[e] \in 0 .. (cap'[e] - 1)
                    /\ sendx'[e] = (recvx'[e] + qcount'[e]) % cap'[e]
    BY <1>6 DEF RingInv
  <2>. QED BY <1>3, <1>4, <1>6, <2>1 DEF RingInv
<1>. QED BY <1>6, <1>7, <1>8

\* A step that finds a waiting call.
LEMMA FoundStep ==
    ASSUME Inv, OneThreadOrPlain, NEW g \in G, pc[g] \in {"try", "drain"},
           NEW c \in C, c = This(g).c, NEW d \in Dirs,
           NEW k \in FirstLive(Q(d, c)), NEW r, r = Q(d, c)[k], NEW ok \in BOOLEAN,
           Local(g), op' = op, ClosedStays, QueueBecomes(d, c, Dequeue(Q(d, c), k)),
           ToWake(g, r, ok), ok \/ closed'[c]
    PROVE  /\ Shrinks /\ WakeInv'
           /\ sendq' \in [C -> Seq(Record)] /\ recvq' \in [C -> Seq(Record)]
           /\ wk' \in [G -> Waking \cup {None}] /\ wk'[g] # None
           /\ pc' \in [G -> PCs] /\ pc'[g] = "wake"
<1>1. /\ wk' = [wk EXCEPT ![g] = [g |-> r.g, i |-> r.i, sel |-> r.sel, ok |-> ok]]
      /\ pc' = [pc EXCEPT ![g] = "wake"]
  BY DEF ToWake, Goto
<1>2. r \in Record /\ k \in DOMAIN Q(d, c) BY FoundWaiter
<1>. PICK s \in Seq(Record) :
        /\ s = Dequeue(Q(d, c), k) /\ Unique(s) /\ Range(s) \subseteq Range(Q(d, c))
  BY <1>2, DequeuedQueue DEF Inv
<1>3. QueueBecomes(d, c, s) /\ TypeOK BY DEF Inv
<1>4. Shrinks BY <1>3, QueueShrinks DEF Inv
<1>5. /\ Q(d, c)' = s
      /\ sendq' \in [C -> Seq(Record)] /\ recvq' \in [C -> Seq(Record)]
  BY ONLY <1>3, OneQueue
<1>6. WakeInv' BY <1>1, <1>4, <1>5, FoundWaking
<1>7. [g |-> r.g, i |-> r.i, sel |-> r.sel, ok |-> ok] \in Waking
  BY <1>2 DEF Waking, Record
<1>8. wk' \in [G -> Waking \cup {None}] /\ wk'[g] \in Waking BY <1>1, <1>7 DEF Inv, TypeOK
<1>9. pc' \in [G -> PCs] /\ pc'[g] = "wake" BY <1>1 DEF Inv, TypeOK, PCs
<1>. QED BY <1>4, <1>5, <1>6, <1>8, <1>9, ChanAssumption

LEMMA SendDirectInv ==
    ASSUME Inv, OneThreadOrPlain, NEW g \in G, At(g, "try"), NEW c \in C, c = This(g).c,
           This(g).dir = "send", SendDirect(g, c), Reply(g, at[g], None, TRUE),
           UNCHANGED <<lock, op, at, todo, flags, failed>>
    PROVE  Inv'
<1>. USE DEF At, Goto, flags, chans
<1>1. pc[g] = "try" /\ at[g] \in Nat BY DEF Inv, TypeOK
<1>. PICK k \in FirstLive(recvq[c]) :
        LET r == recvq[c][k] IN
        /\ recvq' = [recvq EXCEPT ![c] = Dequeue(@, k)]
        /\ elem' = [elem EXCEPT ![r.g][r.i] = g]
        /\ ToWake(g, r, TRUE)
        /\ UNCHANGED <<chans, sendq>>
  BY DEF SendDirect
<1>. PICK r : r = Q("recv", c)[k] OBVIOUS
<1>. PICK d \in Dirs : d = "recv" BY DEF Dirs
<1>2. /\ k \in FirstLive(Q(d, c)) /\ r = Q(d, c)[k]
      /\ QueueBecomes(d, c, Dequeue(Q(d, c), k))
      /\ elem' = [elem EXCEPT ![r.g][r.i] = g] /\ ToWake(g, r, TRUE)
  BY DEF Q, QueueBecomes
<1>3. /\ r \in Record /\ r.g \in G \ {g} /\ RecordOf(r, d, c) /\ k \in DOMAIN Q(d, c)
      /\ pc[r.g] = "parked"
  <2>1. pc[g] \in {"try", "drain"} /\ c = This(g).c BY <1>1
  <2>2. k \in FirstLive(Q(d, c)) /\ r = Q(d, c)[k] BY <1>2
  <2>. QED BY ONLY <2>1, <2>2, FoundWaiter, Inv, OneThreadOrPlain
<1>4. r.i \in DOMAIN elem[r.g]
  BY <1>3 DEF Inv, CallInv, CallOf, RecordOf
<1>5. /\ elem' \in [G -> Seq(G \cup {None})]
      /\ \A h \in G : DOMAIN elem'[h] = DOMAIN elem[h]
  BY <1>2, <1>3, <1>4, ElemType DEF Inv
<1>6. Local(g) BY <1>2, <1>5 DEF Local, Inv, TypeOK, Reply, ToWake
<1>7. ClosedStays BY DEF ClosedStays
<1>8. pc[g] \in {"try", "drain"} /\ r = Q(d, c)[k] /\ c = This(g).c /\ op' = op
  BY <1>1, <1>2
<1>9. /\ Shrinks /\ WakeInv'
      /\ sendq' \in [C -> Seq(Record)] /\ recvq' \in [C -> Seq(Record)]
      /\ wk' \in [G -> Waking \cup {None}] /\ wk'[g] # None
      /\ pc' \in [G -> PCs] /\ pc'[g] = "wake"
  BY ONLY <1>2, <1>6, <1>7, <1>8, FoundStep, Inv, OneThreadOrPlain
<1>10. Outcome(at[g], None, TRUE) \in Outcomes /\ Outcome(at[g], None, TRUE).ok
  BY <1>1, OutcomeIn
<1>11. /\ res' \in [G -> Outcomes \cup {None}]
       /\ res'[g] = Outcome(at[g], None, TRUE)
  BY <1>10 DEF Inv, TypeOK, Reply
<1>12. TypeOK' BY <1>5, <1>9, <1>11 DEF Inv, TypeOK
<1>13. res'[g] \in Outcomes /\ res'[g].ok BY <1>10, <1>11
<1>14. CallOf(g)' BY <1>1, <1>5, <1>9, <1>13, AnswerCall
<1>15. DeliveredOf(g)' BY <1>1, <1>11, AnswerDelivers
<1>16. RingInv' BY DEF Inv, RingInv
<1>17. WaitersOf(c)'
  <2>1. \A b \in C, e \in Dirs : Waiters(Q(e, b))' \subseteq Waiters(Q(e, b))
    BY <1>9, FewerWaiters DEF Inv
  <2>2. /\ Waiters(recvq[c])' \subseteq Waiters(recvq[c])
        /\ Waiters(sendq[c])' \subseteq Waiters(sendq[c])
    BY <2>1 DEF Q, Dirs
  <2>. QED BY <1>1, <1>6, <2>2, LocalWaiters DEF Inv
<1>. QED
  BY <1>6, <1>7, <1>9, <1>12, <1>14, <1>15, <1>16, <1>17, HeldInv DEF Locking

\* A value enters a ring.
LEMMA RingType ==
    ASSUME TypeOK, NEW c \in C, NEW s \in 0 .. (cap[c] - 1), NEW v \in G \cup {None},
           ring' = [ring EXCEPT ![c][s] = v], cap' = cap
    PROVE  DOMAIN ring' = C /\ \A b \in C : ring'[b] \in [0 .. (cap'[b] - 1) -> G \cup {None}]
<1>1. DOMAIN ring = C /\ \A b \in C : ring[b] \in [0 .. (cap[b] - 1) -> G \cup {None}]
  BY DEF TypeOK
<1>2. DOMAIN ring' = C /\ ring'[c] = [ring[c] EXCEPT ![s] = v]
      /\ \A b \in C \ {c} : ring'[b] = ring[b]
  BY <1>1
<1>3. ring'[c] \in [0 .. (cap[c] - 1) -> G \cup {None}] BY <1>1, <1>2
<1>. QED BY <1>1, <1>2, <1>3

\* The queue in which no record counts is emptied.
LEMMA EmptiedQueue ==
    ASSUME TypeOK, RecordInv, NEW c \in C, NEW d \in Dirs, QueueBecomes(d, c, <<>>)
    PROVE  /\ Shrinks /\ Q(d, c)' = <<>>
           /\ sendq' \in [C -> Seq(Record)] /\ recvq' \in [C -> Seq(Record)]
<1>1. Shrinks BY EmptyQueue, QueueShrinks
<1>. PICK s \in Seq(Record) : s = <<>> BY EmptyQueue
<1>2. QueueBecomes(d, c, s) OBVIOUS
<1>3. \A b \in C, e \in Dirs : Q(e, b)' = IF b = c /\ e = d THEN s ELSE Q(e, b)
  BY ONLY <1>2, TypeOK, OneQueue
<1>4. sendq' \in [C -> Seq(Record)] /\ recvq' \in [C -> Seq(Record)]
  BY ONLY <1>2, TypeOK, OneQueue
<1>. QED BY <1>1, <1>3, <1>4

LEMMA FewerAtAll ==
    ASSUME Inv, Shrinks, done' = done
    PROVE  \A c \in C : /\ Waiters(recvq[c])' \subseteq Waiters(recvq[c])
                        /\ Waiters(sendq[c])' \subseteq Waiters(sendq[c])
<1>1. \A c \in C, d \in Dirs : Waiters(Q(d, c))' \subseteq Waiters(Q(d, c))
  BY FewerWaiters DEF Inv
<1>. QED BY <1>1 DEF Q, Dirs

LEMMA SendBufferInv ==
    ASSUME Inv, NEW g \in G, At(g, "try"), NEW c \in C, c = This(g).c,
           FirstLive(recvq[c]) = {}, SendBuffer(g, c), Reply(g, at[g], None, TRUE),
           UNCHANGED <<lock, op, at, todo, flags, failed>>
    PROVE  Inv'
<1>. USE DEF At, Goto, flags, SendBuffer
<1>1. pc[g] = "try" /\ at[g] \in Nat BY DEF Inv, TypeOK
<1>2. cap[c] \in Nat /\ qcount[c] \in Nat /\ qcount[c] < cap[c]
  BY ChanAssumption DEF Inv, TypeOK
<1>3. sendx[c] \in 0 .. (cap[c] - 1) BY <1>2, RingPlaces DEF Inv
<1>4. /\ {sendx', recvx', qcount'} \subseteq [C -> Nat]
      /\ \A b \in C : {sendx'[b], recvx'[b], qcount'[b]} \subseteq 0 .. cap'[b]
      /\ RingInv'
  <2>. PICK s, r, q : s = Inc(c, sendx[c]) /\ r = recvx[c] /\ q = qcount[c] + 1 OBVIOUS
  <2>1. RingBecomes(c, s, r, q) BY DEF RingBecomes, Inv, TypeOK
  <2>. QED BY <1>2, <2>1, RingChange DEF Inv
<1>5. DOMAIN ring' = C /\ \A b \in C : ring'[b] \in [0 .. (cap'[b] - 1) -> G \cup {None}]
  BY <1>3, RingType DEF Inv
<1>. PICK d \in Dirs : d = "recv" BY DEF Dirs
<1>6. QueueBecomes(d, c, <<>>) BY DEF QueueBecomes
<1>7. /\ Shrinks /\ Q(d, c)' = <<>>
      /\ sendq' \in [C -> Seq(Record)] /\ recvq' \in [C -> Seq(Record)]
  BY <1>6, EmptiedQueue DEF Inv
<1>8. Outcome(at[g], None, TRUE) \in Outcomes /\ Outcome(at[g], None, TRUE).ok
  BY <1>1, OutcomeIn
<1>9. TypeOK'
  <2>1. pc' \in [G -> PCs] /\ res' \in [G -> Outcomes \cup {None}]
    BY <1>8 DEF Inv, TypeOK, PCs, Reply
  <2>. QED BY <1>4, <1>5, <1>7, <2>1 DEF Inv, TypeOK
<1>10. /\ pc'[g] = "unlock" /\ res'[g] = Outcome(at[g], None, TRUE) /\ wk'[g] = wk[g]
  BY DEF Inv, TypeOK, Reply
<1>11. Local(g) BY DEF Local, Inv, TypeOK, Reply
<1>12. ClosedStays BY DEF ClosedStays
<1>13. WakeInv' BY <1>1, <1>7, <1>11, <1>12, LocalWaking DEF Inv
<1>14. CallOf(g)'
  <2>1. wk[g] = None BY <1>1 DEF Inv, CallInv, CallOf
  <2>. QED BY <1>1, <1>8, <1>10, <2>1, AnswerCall
<1>15. DeliveredOf(g)' BY <1>1, <1>10, AnswerDelivers
<1>16. \A b \in C \ {c} : qcount'[b] = qcount[b] BY DEF Inv, TypeOK
<1>17. WaitersOf(c)'
  <2>1. Waiters(sendq[c]) = {}
    <3>1. qcount[c] # cap[c] BY <1>2
    <3>. QED BY <3>1 DEF Inv, WaitersInv, WaitersOf
  <2>2. Waiters(sendq[c])' = {} BY <1>7, <2>1, FewerAtAll DEF Inv
  <2>3. Waiters(recvq[c])' = {} BY <1>7 DEF Waiters, Q
  <2>. QED BY <2>2, <2>3 DEF WaitersOf
<1>. QED
  BY <1>4, <1>7, <1>9, <1>10, <1>11, <1>12, <1>13, <1>14, <1>15, <1>16, <1>17, HeldInv
     DEF Locking

LEMMA TrySendInv ==
    ASSUME Inv, OneThreadOrPlain, NEW g \in G, TrySend(g)
    PROVE  Inv'
<1>. PICK c \in C : c = This(g).c BY ThisCase DEF Inv, TrySend, At
<1>1. /\ At(g, "try") /\ Reply(g, at[g], None, TRUE)
      /\ UNCHANGED <<lock, op, at, todo, flags, failed>>
      /\ This(g).dir = "send"
      /\ IF FirstLive(recvq[c]) # {} THEN SendDirect(g, c) ELSE SendBuffer(g, c)
  BY DEF TrySend
<1>. QED BY <1>1, SendDirectInv, SendBufferInv

\* What a receive that succeeds leaves behind.
LEMMA ReceivedInv ==
    ASSUME Inv, NEW g \in G, At(g, "try"), NEW c \in C, c = This(g).c,
           This(g).dir = "recv", NEW v \in G \cup {None}, elem' = [elem EXCEPT ![g][at[g]] = v],
           Reply(g, at[g], v, TRUE), Local(g), Shrinks, WakeInv', RingInv',
           UNCHANGED <<cap, closed, lock, op, at, todo, flags, failed>>,
           {sendx', recvx', qcount'} \subseteq [C -> Nat],
           \A b \in C : {sendx'[b], recvx'[b], qcount'[b]} \subseteq 0 .. cap'[b],
           DOMAIN ring' = C,
           \A b \in C : ring'[b] \in [0 .. (cap'[b] - 1) -> G \cup {None}],
           sendq' \in [C -> Seq(Record)], recvq' \in [C -> Seq(Record)],
           wk' \in [G -> Waking \cup {None}], pc' \in [G -> PCs],
           pc'[g] \in {"wake", "unlock"}, wk'[g] = None <=> pc'[g] # "wake",
           \A b \in C \ {c} : qcount'[b] = qcount[b],
           WaitersOf(c)'
    PROVE  Inv'
<1>. USE DEF flags
<1>1. pc[g] = "try" /\ at[g] \in Nat BY DEF Inv, TypeOK, At
<1>2. at[g] \in DOMAIN elem[g]
  <2>1. at[g] \in DOMAIN Cases(g) BY <1>1, ThisCase DEF Inv
  <2>. QED BY <1>1, <2>1 DEF Inv, CallInv, CallOf
<1>3. elem' \in [G -> Seq(G \cup {None})] /\ DOMAIN elem'[g] = DOMAIN elem[g]
  BY <1>2, ElemType DEF Inv
<1>4. Outcome(at[g], v, TRUE) \in Outcomes /\ Outcome(at[g], v, TRUE).ok
  BY <1>1, OutcomeIn
<1>5. res' \in [G -> Outcomes \cup {None}] /\ res'[g] = Outcome(at[g], v, TRUE)
  BY <1>4 DEF Inv, TypeOK, Reply
<1>6. TypeOK' BY <1>3, <1>5 DEF Inv, TypeOK
<1>7. CallOf(g)' BY <1>1, <1>3, <1>4, <1>5, AnswerCall
<1>8. DeliveredOf(g)' BY <1>1, <1>5, AnswerDelivers
<1>9. ClosedStays BY DEF ClosedStays
<1>. QED BY <1>1, <1>6, <1>7, <1>8, <1>9, HeldInv DEF Locking

LEMMA RecvBufferInv ==
    ASSUME Inv, OneThreadOrPlain, NEW g \in G, At(g, "try"), NEW c \in C, c = This(g).c,
           This(g).dir = "recv", RecvBuffer(g, c), UNCHANGED <<lock, op, at, todo, flags, failed>>
    PROVE  Inv'
<1>. USE DEF RecvBuffer
<1>1. pc[g] = "try" /\ TypeOK BY DEF Inv, At
<1>2. cap[c] # 0 /\ qcount[c] # 0 /\ qcount[c] \in Nat
  <2>1. qcount[c] \in 0 .. cap[c] /\ cap[c] \in Nat
    BY ChanAssumption DEF Inv, TypeOK
  <2>. QED BY <2>1
<1>3. recvx[c] \in 0 .. (cap[c] - 1) /\ sendx[c] \in 0 .. (cap[c] - 1)
  BY <1>2, RingPlaces DEF Inv
<1>. PICK v \in G \cup {None} : v = ring[c][recvx[c]]
  <2>1. ring[c] \in [0 .. (cap[c] - 1) -> G \cup {None}] BY DEF Inv, TypeOK
  <2>. QED BY <1>3, <2>1
<1>4. elem' = [elem EXCEPT ![g][at[g]] = v] /\ Reply(g, at[g], v, TRUE) OBVIOUS
<1>. PICK d \in Dirs : d = "send" BY DEF Dirs
<1>5. ClosedStays BY DEF ClosedStays
<1>6. CASE FirstLive(sendq[c]) # {}
  <2>. PICK k \in FirstLive(sendq[c]) : Refill(g, k, c) BY <1>6
  <2>. PICK r : r = Q(d, c)[k] OBVIOUS
  <2>1. /\ ring' = [ring EXCEPT ![c][sendx[c]] = r.g]
        /\ sendx' = [sendx EXCEPT ![c] = Inc(c, @)]
        /\ ToWake(g, r, TRUE) /\ UNCHANGED qcount
        /\ k \in FirstLive(Q(d, c)) /\ QueueBecomes(d, c, Dequeue(Q(d, c), k))
    BY DEF Refill, Q, QueueBecomes
  <2>2. Local(g) BY <1>4, <2>1 DEF Local, Inv, TypeOK, ToWake, Goto, Reply, flags
  <2>3. /\ Shrinks /\ WakeInv'
        /\ sendq' \in [C -> Seq(Record)] /\ recvq' \in [C -> Seq(Record)]
        /\ wk' \in [G -> Waking \cup {None}] /\ wk'[g] # None
        /\ pc' \in [G -> PCs] /\ pc'[g] = "wake"
    <3>1. pc[g] \in {"try", "drain"} /\ r = Q(d, c)[k] /\ c = This(g).c /\ op' = op
      BY <1>1
    <3>. QED BY ONLY <1>5, <2>1, <2>2, <3>1, FoundStep, Inv, OneThreadOrPlain
  <2>4. r.g \in G
    <3>1. pc[g] \in {"try", "drain"} /\ c = This(g).c BY <1>1
    <3>. QED BY ONLY <2>1, <3>1, FoundWaiter, Inv, OneThreadOrPlain, r = Q(d, c)[k]
  <2>5. DOMAIN ring' = C /\ \A b \in C : ring'[b] \in [0 .. (cap'[b] - 1) -> G \cup {None}]
    BY <1>1, <1>3, <2>1, <2>4, RingType
  <2>6. /\ {sendx', recvx', qcount'} \subseteq [C -> Nat]
        /\ \A b \in C : {sendx'[b], recvx'[b], qcount'[b]} \subseteq 0 .. cap'[b]
        /\ RingInv'
    <3>. PICK x, y, q : x = Inc(c, sendx[c]) /\ y = Inc(c, recvx[c]) /\ q = qcount[c]
      OBVIOUS
    <3>1. RingBecomes(c, x, y, q) BY <2>1 DEF RingBecomes, Inv, TypeOK
    <3>. QED BY <1>2, <3>1, RingChange DEF Inv
  <2>7. WaitersOf(c)' BY <1>1, <2>1, <2>2, <2>3, FewerAtAll, LocalWaiters DEF Inv, flags
  <2>. QED BY <1>4, <2>1, <2>2, <2>3, <2>5, <2>6, <2>7, ReceivedInv
<1>7. CASE FirstLive(sendq[c]) = {}
  <2>1. /\ sendq' = [sendq EXCEPT ![c] = <<>>] /\ qcount' = [qcount EXCEPT ![c] = @ - 1]
        /\ Goto(g, "unlock") /\ UNCHANGED <<ring, sendx, wk>>
    BY <1>7
  <2>2. Local(g) BY <1>4, <2>1 DEF Local, Inv, TypeOK, Goto, Reply, flags
  <2>3. QueueBecomes(d, c, <<>>) BY <2>1 DEF QueueBecomes
  <2>4. /\ Shrinks /\ Q(d, c)' = <<>>
        /\ sendq' \in [C -> Seq(Record)] /\ recvq' \in [C -> Seq(Record)]
    BY <2>3, EmptiedQueue DEF Inv
  <2>5. WakeInv' BY <1>1, <1>5, <2>1, <2>2, <2>4, LocalWaking DEF Inv
  <2>6. DOMAIN ring' = C /\ \A b \in C : ring'[b] \in [0 .. (cap'[b] - 1) -> G \cup {None}]
    BY <2>1 DEF Inv, TypeOK
  <2>7. /\ {sendx', recvx', qcount'} \subseteq [C -> Nat]
        /\ \A b \in C : {sendx'[b], recvx'[b], qcount'[b]} \subseteq 0 .. cap'[b]
        /\ RingInv'
    <3>. PICK x, y, q : x = sendx[c] /\ y = Inc(c, recvx[c]) /\ q = qcount[c] - 1
      OBVIOUS
    <3>1. RingBecomes(c, x, y, q) BY <2>1 DEF RingBecomes, Inv, TypeOK
    <3>. QED BY <1>2, <3>1, RingChange DEF Inv
  <2>8. WaitersOf(c)'
    <3>1. Waiters(recvq[c]) = {} BY <1>2 DEF Inv, WaitersInv, WaitersOf
    <3>2. Waiters(recvq[c])' = {} BY <2>4, <3>1, FewerAtAll DEF flags
    <3>3. Waiters(sendq[c])' = {} BY <2>4 DEF Waiters, Q
    <3>. QED BY <3>2, <3>3 DEF WaitersOf
  <2>9. /\ pc' \in [G -> PCs] /\ pc'[g] = "unlock" /\ wk'[g] = None
        /\ wk' \in [G -> Waking \cup {None}]
        /\ \A b \in C \ {c} : qcount'[b] = qcount[b]
    <3>1. wk[g] = None BY <1>1 DEF Inv, CallInv, CallOf
    <3>. QED BY <2>1, <3>1 DEF Inv, TypeOK, PCs, Goto
  <2>. QED BY <1>4, <2>2, <2>4, <2>5, <2>6, <2>7, <2>8, <2>9, ReceivedInv
<1>. QED BY <1>6, <1>7

LEMMA RecvDirectInv ==
    ASSUME Inv, OneThreadOrPlain, NEW g \in G, At(g, "try"), NEW c \in C, c = This(g).c,
           This(g).dir = "recv", RecvDirect(g, c), UNCHANGED <<lock, op, at, todo, flags, failed>>
    PROVE  Inv'
<1>. USE DEF RecvDirect, chans
<1>1. pc[g] = "try" /\ TypeOK BY DEF Inv, At
<1>. PICK d \in Dirs : d = "send" BY DEF Dirs
<1>. PICK k \in FirstLive(sendq[c]) :
        LET r == sendq[c][k] IN
        /\ sendq' = [sendq EXCEPT ![c] = Dequeue(@, k)]
        /\ elem' = [elem EXCEPT ![g][at[g]] = r.g]
        /\ Reply(g, at[g], r.g, TRUE)
        /\ ToWake(g, r, TRUE)
        /\ UNCHANGED <<chans, recvq>>
  OBVIOUS
<1>. PICK r : r = Q(d, c)[k] OBVIOUS
<1>2. /\ elem' = [elem EXCEPT ![g][at[g]] = r.g] /\ Reply(g, at[g], r.g, TRUE)
      /\ ToWake(g, r, TRUE)
      /\ k \in FirstLive(Q(d, c)) /\ QueueBecomes(d, c, Dequeue(Q(d, c), k))
  BY DEF Q, QueueBecomes
<1>3. ClosedStays BY DEF ClosedStays
<1>4. Local(g) BY <1>2 DEF Local, Inv, TypeOK, ToWake, Goto, Reply, flags
<1>5. pc[g] \in {"try", "drain"} /\ r = Q(d, c)[k] /\ c = This(g).c /\ op' = op
  BY <1>1
<1>6. /\ Shrinks /\ WakeInv'
      /\ sendq' \in [C -> Seq(Record)] /\ recvq' \in [C -> Seq(Record)]
      /\ wk' \in [G -> Waking \cup {None}] /\ wk'[g] # None
      /\ pc' \in [G -> PCs] /\ pc'[g] = "wake"
  BY ONLY <1>2, <1>3, <1>4, <1>5, FoundStep, Inv, OneThreadOrPlain
<1>7. r.g \in G BY ONLY <1>2, <1>5, FoundWaiter, Inv, OneThreadOrPlain
<1>8. WaitersOf(c)' BY <1>1, <1>4, <1>6, FewerAtAll, LocalWaiters DEF Inv, flags
<1>9. RingInv' BY DEF Inv, RingInv
<1>10. /\ {sendx', recvx', qcount'} \subseteq [C -> Nat]
       /\ \A b \in C : {sendx'[b], recvx'[b], qcount'[b]} \subseteq 0 .. cap'[b]
       /\ DOMAIN ring' = C
       /\ \A b \in C : ring'[b] \in [0 .. (cap'[b] - 1) -> G \cup {None}]
  BY DEF Inv, TypeOK
<1>. QED BY <1>2, <1>4, <1>6, <1>7, <1>8, <1>9, <1>10, ReceivedInv

LEMMA RecvClosedInv ==
    ASSUME Inv, NEW g \in G, At(g, "try"), NEW c \in C, c = This(g).c,
           This(g).dir = "recv",
           RecvClosed(g, c), UNCHANGED <<lock, op, at, todo, flags, failed>>
    PROVE  Inv'
<1>. USE DEF RecvClosed, chans, flags
<1>1. pc[g] = "try" /\ at[g] \in Nat BY DEF Inv, TypeOK, At
<1>2. ClosedStays BY DEF ClosedStays
<1>. PICK d \in Dirs : d = "send" BY DEF Dirs
<1>3. QueueBecomes(d, c, <<>>) BY DEF QueueBecomes
<1>4. /\ Shrinks
      /\ sendq' \in [C -> Seq(Record)] /\ recvq' \in [C -> Seq(Record)]
  BY <1>3, EmptiedQueue DEF Inv
<1>5. Local(g) BY DEF Local, Inv, TypeOK, Goto, Reply
<1>6. Outcome(at[g], None, FALSE) \in Outcomes BY <1>1, OutcomeIn
<1>7. /\ res' \in [G -> Outcomes \cup {None}] /\ res'[g] = Outcome(at[g], None, FALSE)
      /\ pc' \in [G -> PCs] /\ pc'[g] = "unlock"
  BY <1>6 DEF Inv, TypeOK, PCs, Reply, Goto
<1>8. TypeOK' BY <1>4, <1>7 DEF Inv, TypeOK
<1>9. WakeInv' BY <1>1, <1>2, <1>4, <1>5, LocalWaking DEF Inv
<1>10. CallOf(g)'
  <2>1. wk[g] = None BY <1>1 DEF Inv, CallInv, CallOf
  <2>. QED BY <1>1, <1>6, <1>7, <2>1, AnswerCall
<1>11. DeliveredOf(g)' BY <1>1, <1>7, AnswerDelivers
<1>12. RingInv' BY DEF Inv, RingInv
<1>13. WaitersOf(c)' BY <1>1, <1>4, <1>5, FewerAtAll, LocalWaiters DEF Inv
<1>. QED
  BY <1>2, <1>4, <1>5, <1>7, <1>8, <1>9, <1>10, <1>11, <1>12, <1>13, HeldInv
     DEF Locking

LEMMA TryRecvInv ==
    ASSUME Inv, OneThreadOrPlain, NEW g \in G, TryRecv(g)
    PROVE  Inv'
<1>. PICK c \in C : c = This(g).c BY ThisCase DEF Inv, TryRecv, At
<1>1. /\ At(g, "try") /\ This(g).dir = "recv"
      /\ UNCHANGED <<lock, op, at, todo, flags, failed>>
      /\ RecvBuffer(g, c) \/ RecvDirect(g, c) \/ RecvClosed(g, c)
  BY DEF TryRecv
<1>. QED BY <1>1, RecvBufferInv, RecvDirectInv, RecvClosedInv

-----------------------------------------------------------------------------
(***************************************************************************)
(* runtime_closechan                                                       *)
(***************************************************************************)
LEMMA CloseInv ==
    ASSUME Inv, NEW g \in G, Close(g)
    PROVE  Inv'
<1>. PICK c \in C : c = This(g).c BY ThisCase DEF Inv, Close, At
<1>1. pc[g] = "try" /\ This(g).dir = "close" /\ At(g, "try") BY DEF Close, At
<1>2. CASE closed[c]
  BY <1>2, FailInv DEF Close, chans, frame
<1>3. CASE ~closed[c]
  <2>1. /\ closed' = [closed EXCEPT ![c] = TRUE] /\ Goto(g, "drain")
        /\ Reply(g, 1, None, FALSE) /\ UNCHANGED failed
        /\ UNCHANGED <<cap, ring, sendx, recvx, qcount, queues, lock, op, at, todo,
                       elem, flags, wk>>
    BY <1>3 DEF Close
  <2>2. /\ closed' \in [C -> BOOLEAN] /\ closed'[c]
        /\ \A b \in C \ {c} : closed'[b] = closed[b]
    BY <2>1 DEF Inv, TypeOK
  <2>3. ClosedStays BY <2>2 DEF ClosedStays
  <2>4. Shrinks BY <2>1, SameQueues DEF Inv
  <2>5. Outcome(1, None, FALSE) \in Outcomes BY OutcomeIn
  <2>6. /\ res' \in [G -> Outcomes \cup {None}] /\ res'[g] \in Outcomes
        /\ pc' \in [G -> PCs] /\ pc'[g] = "drain"
    BY <2>1, <2>5 DEF Inv, TypeOK, PCs, Reply, Goto
  <2>7. TypeOK' BY <2>1, <2>2, <2>6 DEF Inv, TypeOK, queues, flags
  <2>8. Local(g) BY <2>1 DEF Local, Inv, TypeOK, Goto, Reply, flags
  <2>9. WakeInv' BY <1>1, <2>1, <2>3, <2>4, <2>8, LocalWaking DEF Inv
  <2>10. CallOf(g)'
    <3>1. wk[g] = None BY <1>1 DEF Inv, CallInv, CallOf
    <3>. QED BY <1>1, <2>1, <2>2, <2>6, <3>1, AnswerCall
  <2>11. DeliveredOf(g)'
    <3>1. res' = [res EXCEPT ![g] = Outcome(1, None, FALSE)] BY <2>1 DEF Reply
    <3>2. res'[g] = Outcome(1, None, FALSE) BY <3>1 DEF Inv, TypeOK
    <3>3. res'[g].case = 1 BY <3>2 DEF Outcome
    <3>4. ~op[g].sel => Cases(g)[1].dir = "close" BY <1>1, PlainCase
    <3>5. op' = op BY <2>1
    <3>. QED BY <3>3, <3>4, <3>5 DEF DeliveredOf, Cases
  <2>12. RingInv' BY <2>1 DEF Inv, RingInv
  <2>13. WaitersOf(c)'
    <3>1. lock[c] = g BY <1>1, ThisCase, HoldsLocks DEF Inv, Locking
    <3>2. This(g) = [dir |-> "close", c |-> c] /\ This(g) = Cases(g)[at[g]]
      BY <1>1, ThisCase DEF Inv
    <3>3. Cases(g)' = Cases(g) BY <2>1 DEF Cases
    <3>4. Closing(c)' BY <2>1, <2>6, <3>1, <3>2, <3>3 DEF Closing
    <3>5. WaitersOf(c) BY DEF Inv, WaitersInv
    <3>6. /\ Waiters(recvq[c])' \subseteq Waiters(recvq[c])
          /\ Waiters(sendq[c])' \subseteq Waiters(sendq[c])
      BY <2>1, <2>4, FewerAtAll DEF flags
    <3>. QED BY <2>1, <3>4, <3>5, <3>6 DEF WaitersOf
  <2>. QED
    BY <1>1, <2>1, <2>2, <2>3, <2>4, <2>6, <2>7, <2>8, <2>9, <2>10, <2>11, <2>12,
       <2>13, HeldInv DEF Locking, flags
<1>. QED BY <1>2, <1>3

\* Both queues change.
LEMMA TwoQueues ==
    ASSUME TypeOK, RecordInv, NEW c \in C, NEW s \in Seq(Record), NEW t \in Seq(Record),
           Unique(s), Unique(t),
           Range(s) \subseteq Range(Q("send", c)), Range(t) \subseteq Range(Q("recv", c)),
           sendq' = [sendq EXCEPT ![c] = s], recvq' = [recvq EXCEPT ![c] = t]
    PROVE  /\ Shrinks /\ Q("send", c)' = s /\ Q("recv", c)' = t
           /\ sendq' \in [C -> Seq(Record)] /\ recvq' \in [C -> Seq(Record)]
<1>1. sendq' \in [C -> Seq(Record)] /\ recvq' \in [C -> Seq(Record)] BY DEF TypeOK
<1>2. \A b \in C : /\ Q("send", b)' = IF b = c THEN s ELSE Q("send", b)
                   /\ Q("recv", b)' = IF b = c THEN t ELSE Q("recv", b)
  BY DEF Q, TypeOK
<1>3. ASSUME NEW b \in C, NEW e \in Dirs
      PROVE  /\ Q(e, b)' \in Seq(Record) /\ Unique(Q(e, b)')
             /\ Range(Q(e, b)') \subseteq Range(Q(e, b))
  <2>1. Q(e, b) \in Seq(Record) BY QueueType
  <2>2. Unique(Q(e, b)) BY DEF RecordInv
  <2>3. CASE e = "send" BY <1>2, <2>1, <2>2, <2>3
  <2>4. CASE e = "recv" BY <1>2, <2>1, <2>2, <2>4
  <2>. QED BY <2>3, <2>4 DEF Dirs
<1>4. \A b \in C, e \in Dirs : Unique(Q(e, b)') <=> Unique(Q(e, b))' BY DEF Unique
<1>. QED BY <1>1, <1>2, <1>3, <1>4 DEF Shrinks

\* What a close that looks for the next waiting call leaves behind.
LEMMA DrainedInv ==
    ASSUME Inv, NEW g \in G, At(g, "drain"), NEW c \in C, c = This(g).c,
           Shrinks, WakeInv', sendq' \in [C -> Seq(Record)], recvq' \in [C -> Seq(Record)],
           \/ pc' = [pc EXCEPT ![g] = "wake"] /\ wk'[g] # None
           \/ /\ pc' = [pc EXCEPT ![g] = "unlock"] /\ wk' = wk
              /\ Waiters(recvq[c])' = {} /\ Waiters(sendq[c])' = {},
           wk' \in [G -> Waking \cup {None}], \A h \in G \ {g} : wk'[h] = wk[h],
           UNCHANGED <<chans, lock, frame, elem, flags, failed>>
    PROVE  Inv'
<1>. USE DEF chans, frame, flags
<1>1. /\ pc[g] = "drain" /\ pc' \in [G -> PCs] /\ pc'[g] \in {"wake", "unlock"}
      /\ \A h \in G \ {g} : pc'[h] = pc[h]
  BY DEF Inv, TypeOK, At, PCs
<1>2. TypeOK' BY <1>1 DEF Inv, TypeOK
<1>3. Local(g) BY <1>1 DEF Local
<1>4. ClosedStays BY DEF ClosedStays
<1>5. Cases(g)' = Cases(g) BY DEF Cases
<1>6. CallOf(g)'
  <2>1. wk'[g] = None <=> pc'[g] = "unlock"
    <3>1. wk[g] = None BY <1>1 DEF Inv, CallInv, CallOf
    <3>. QED BY <1>1, <3>1 DEF Inv, TypeOK
  <2>. QED BY <1>1, <1>5, <2>1 DEF Inv, CallInv, CallOf, Deciding, Waits, Clear
<1>7. DeliveredOf(g)'
  <2>1. Cases(g)[at[g]].dir = "close" BY <1>1 DEF Inv, CallInv, CallOf
  <2>2. ~op[g].sel => Cases(g)[1].dir = "close" BY <1>1, <2>1, PlainCase, ThisCase DEF Inv
  <2>3. DeliveredOf(g) BY DEF Inv, DeliveredInv
  <2>. QED BY <1>1, <1>5, <2>2, <2>3 DEF DeliveredOf
<1>8. RingInv' BY DEF Inv, RingInv
<1>9. WaitersOf(c)'
  <2>1. lock[c] = g
    <3>1. c \in Channels(op[g]) BY <1>1, ThisCase DEF Inv
    <3>. QED BY <1>1, <3>1, HoldsLocks DEF Inv, Locking
  <2>. QED BY <1>1, <1>3, <1>5, <2>1, FewerAtAll, LocalWaiters DEF Inv
<1>. QED
  BY <1>1, <1>2, <1>3, <1>4, <1>6, <1>7, <1>8, <1>9, HeldInv DEF Locking

LEMMA DrainInv ==
    ASSUME Inv, OneThreadOrPlain, NEW g \in G, Drain(g)
    PROVE  Inv'
<1>. PICK c \in C : c = This(g).c BY ThisCase DEF Inv, Drain, At
<1>1. /\ pc[g] = "drain" /\ At(g, "drain")
      /\ UNCHANGED <<chans, lock, frame, elem, flags, failed>>
  BY DEF Drain, At
<1>2. TypeOK /\ pc[g] \in {"try", "drain"} /\ c = This(g).c /\ op' = op
  BY <1>1 DEF Inv, frame
<1>3. closed'[c] /\ ClosedStays
  <2>1. /\ This(g) = Cases(g)[at[g]] BY <1>1, ThisCase DEF Inv
  <2>2. closed[c] BY <1>1, <2>1 DEF Inv, CallInv, CallOf
  <2>. QED BY <1>1, <2>2 DEF ClosedStays, chans
<1>. PICK dr \in Dirs : dr = "recv" BY DEF Dirs
<1>. PICK ds \in Dirs : ds = "send" BY DEF Dirs
<1>4. CASE FirstLive(recvq[c]) # {}
  <2>. PICK k \in FirstLive(recvq[c]) :
         /\ recvq' = [recvq EXCEPT ![c] = Dequeue(@, k)]
         /\ ToWake(g, recvq[c][k], FALSE)
    BY <1>4 DEF Drain
  <2>. PICK r : r = Q(dr, c)[k] OBVIOUS
  <2>1. /\ ToWake(g, r, FALSE) /\ k \in FirstLive(Q(dr, c)) /\ r = Q(dr, c)[k]
        /\ QueueBecomes(dr, c, Dequeue(Q(dr, c), k))
    BY <1>4 DEF Drain, Q, QueueBecomes
  <2>2. pc' = [pc EXCEPT ![g] = "wake"] /\ \A h \in G \ {g} : wk'[h] = wk[h]
    BY <2>1 DEF ToWake, Goto, Inv, TypeOK
  <2>3. Local(g) BY <1>1, <2>2 DEF Local, Inv, TypeOK, frame, flags
  <2>4. /\ Shrinks /\ WakeInv'
        /\ sendq' \in [C -> Seq(Record)] /\ recvq' \in [C -> Seq(Record)]
        /\ wk' \in [G -> Waking \cup {None}] /\ wk'[g] # None
    BY ONLY <1>2, <1>3, <2>1, <2>3, FoundStep, Inv, OneThreadOrPlain
  <2>. QED BY <1>1, <2>2, <2>4, DrainedInv
<1>5. CASE FirstLive(recvq[c]) = {} /\ FirstLive(sendq[c]) # {}
  <2>. PICK k \in FirstLive(sendq[c]) :
         /\ sendq' = [sendq EXCEPT ![c] = Dequeue(@, k)]
         /\ ToWake(g, sendq[c][k], FALSE)
    BY <1>5 DEF Drain
  <2>. PICK r : r = Q(ds, c)[k] OBVIOUS
  <2>1. /\ ToWake(g, r, FALSE) /\ k \in FirstLive(Q(ds, c)) /\ r = Q(ds, c)[k]
        /\ recvq' = [recvq EXCEPT ![c] = <<>>]
    BY <1>5 DEF Drain, Q
  <2>2. pc' = [pc EXCEPT ![g] = "wake"] /\ \A h \in G \ {g} : wk'[h] = wk[h]
    BY <2>1 DEF ToWake, Goto, Inv, TypeOK
  <2>3. Local(g) BY <1>1, <2>2 DEF Local, Inv, TypeOK, frame, flags
  <2>4. r \in Record /\ k \in DOMAIN Q(ds, c)
    BY ONLY <1>2, <2>1, FoundWaiter, Inv, OneThreadOrPlain
  <2>. PICK s \in Seq(Record) :
          /\ s = Dequeue(Q(ds, c), k) /\ Unique(s) /\ Range(s) \subseteq Range(Q(ds, c))
    BY <2>4, DequeuedQueue DEF Inv
  <2>. PICK t \in Seq(Record) :
          /\ t = <<>> /\ Unique(t) /\ Range(t) \subseteq Range(Q(dr, c))
    BY EmptyQueue
  <2>5. sendq' = [sendq EXCEPT ![c] = s] /\ recvq' = [recvq EXCEPT ![c] = t]
    BY <2>1 DEF Q
  <2>6. /\ Shrinks /\ Q(ds, c)' = s
        /\ sendq' \in [C -> Seq(Record)] /\ recvq' \in [C -> Seq(Record)]
    BY <2>5, TwoQueues DEF Inv
  <2>7. wk' = [wk EXCEPT ![g] = [g |-> r.g, i |-> r.i, sel |-> r.sel, ok |-> FALSE]]
    BY <2>1 DEF ToWake
  <2>8. Q(ds, c)' = Dequeue(Q(ds, c), k) BY <2>6
  <2>9. WakeInv'
    BY ONLY <1>2, <1>3, <2>1, <2>3, <2>6, <2>7, <2>8, FoundWaking, Inv, OneThreadOrPlain
  <2>10. [g |-> r.g, i |-> r.i, sel |-> r.sel, ok |-> FALSE] \in Waking
    BY <2>4 DEF Waking, Record
  <2>11. wk' \in [G -> Waking \cup {None}] /\ wk'[g] # None
    <3>1. wk' \in [G -> Waking \cup {None}] /\ wk'[g] \in Waking
      BY <2>7, <2>10 DEF Inv, TypeOK
    <3>. QED BY <3>1, ChanAssumption
  <2>. QED BY <1>1, <2>2, <2>6, <2>9, <2>11, DrainedInv
<1>6. CASE FirstLive(recvq[c]) = {} /\ FirstLive(sendq[c]) = {}
  <2>1. /\ recvq' = [recvq EXCEPT ![c] = <<>>] /\ sendq' = [sendq EXCEPT ![c] = <<>>]
        /\ pc' = [pc EXCEPT ![g] = "unlock"] /\ wk' = wk
    BY <1>6 DEF Drain, Goto
  <2>2. Local(g) BY <1>1, <2>1 DEF Local, Inv, TypeOK, frame, flags
  <2>. PICK t \in Seq(Record) : t = <<>> /\ Unique(t) /\ Range(t) = {} BY EmptyQueue
  <2>3. /\ Shrinks /\ Q("send", c)' = t /\ Q("recv", c)' = t
        /\ sendq' \in [C -> Seq(Record)] /\ recvq' \in [C -> Seq(Record)]
    BY <2>1, TwoQueues DEF Inv
  <2>4. WakeInv' BY <1>1, <1>3, <2>1, <2>2, <2>3, LocalWaking DEF Inv
  <2>5. Waiters(recvq[c])' = {} /\ Waiters(sendq[c])' = {} BY <2>3 DEF Waiters, Q
  <2>6. wk' \in [G -> Waking \cup {None}] BY <2>1 DEF Inv, TypeOK
  <2>. QED BY <1>1, <2>1, <2>3, <2>4, <2>5, <2>6, DrainedInv
<1>. QED BY <1>4, <1>5, <1>6

-----------------------------------------------------------------------------
(***************************************************************************)
(* The steps in which a record leaves or joins a queue.                    *)
(***************************************************************************)

LEMMA QueueLoses ==
    ASSUME NEW s \in Seq(Record), Unique(s), NEW k \in DOMAIN s
    PROVE  /\ RemoveAt(s, k) \in Seq(Record) /\ Unique(RemoveAt(s, k))
           /\ Range(RemoveAt(s, k)) \subseteq Range(s) \ {s[k]}
<1>1. \A j, l \in DOMAIN s : s[j] = s[l] => j = l BY DEF Unique
<1>2. /\ RemoveAt(s, k) \in Seq(Record) /\ s[k] \in Record
      /\ \A j, l \in DOMAIN RemoveAt(s, k) :
            RemoveAt(s, k)[j] = RemoveAt(s, k)[l] => j = l
      /\ \A r : (\E j \in DOMAIN RemoveAt(s, k) : RemoveAt(s, k)[j] = r)
                <=> (\E j \in DOMAIN s : s[j] = r) /\ r # s[k]
  BY <1>1, RemovedQueue
<1>. PICK t : t = RemoveAt(s, k) OBVIOUS
<1>3. ASSUME NEW r \in Range(t) PROVE r \in Range(s) /\ r # s[k]
  <2>1. PICK j \in DOMAIN t : t[j] = r BY DEF Range
  <2>2. (\E l \in DOMAIN s : s[l] = r) /\ r # s[k] BY <1>2, <2>1
  <2>. QED BY <2>2 DEF Range
<1>. QED BY <1>2, <1>3 DEF Unique

\* runtime_waitq_remove
LEMMA WithoutQueue ==
    ASSUME NEW s \in Seq(Record), Unique(s), NEW g, NEW i,
           \A q, r \in Range(s) : q.g = g /\ q.i = i /\ r.g = g /\ r.i = i => q = r
    PROVE  /\ Without(s, g, i) \in Seq(Record) /\ Unique(Without(s, g, i))
           /\ Range(Without(s, g, i)) \subseteq Range(s)
           /\ \A r \in Range(Without(s, g, i)) : r.g # g \/ r.i # i
<1>1. CASE Places(s, g, i) = {}
  <2>1. Without(s, g, i) = s BY <1>1 DEF Without
  <2>2. \A r \in Range(s) : r.g # g \/ r.i # i BY <1>1 DEF Places, Range
  <2>. QED BY <2>1, <2>2
<1>2. CASE Places(s, g, i) # {}
  <2>. PICK k : k = CHOOSE j \in Places(s, g, i) : TRUE OBVIOUS
  <2>1. k \in Places(s, g, i) BY <1>2
  <2>2. k \in DOMAIN s /\ s[k].g = g /\ s[k].i = i BY <2>1 DEF Places
  <2>3. Without(s, g, i) = RemoveAt(s, k) BY <1>2 DEF Without
  <2>4. /\ RemoveAt(s, k) \in Seq(Record) /\ Unique(RemoveAt(s, k))
        /\ Range(RemoveAt(s, k)) \subseteq Range(s) \ {s[k]}
    BY <2>2, QueueLoses
  <2>5. s[k] \in Range(s) BY <2>2 DEF Range
  <2>6. \A r \in Range(RemoveAt(s, k)) : r.g # g \/ r.i # i BY <2>2, <2>4, <2>5
  <2>. QED BY <2>3, <2>4, <2>6
<1>. QED BY <1>1, <1>2

LEMMA CleanInv ==
    ASSUME Inv, NEW g \in G, Clean(g)
    PROVE  Inv'
<1>. USE DEF chans, flags
<1>. PICK i \in Nat : i = at[g] BY DEF Inv, TypeOK
<1>1. /\ pc[g] = "clean" /\ op[g].sel /\ i <= Len(Cases(g)) /\ i >= 1
      /\ res[g].case = done[g]
      /\ DOMAIN Cases(g) = 1 .. Len(Cases(g)) /\ Len(Cases(g)) \in Nat
      /\ Cases(g)[i].dir # "close" /\ done[g] \in DOMAIN Cases(g)
  <2>1. pc[g] = "clean" /\ i <= Len(Cases(g)) BY DEF Clean, At, Cases
  <2>2. DOMAIN Cases(g) = 1 .. Len(Cases(g)) /\ Len(Cases(g)) \in Nat
    BY <2>1, OpOf DEF Inv
  <2>3. CallOf(g) BY DEF Inv, CallInv
  <2>4. op[g].sel /\ i >= 1 /\ res[g].case = done[g] /\ done[g] \in DOMAIN Cases(g)
    BY <2>1, <2>2, <2>3 DEF CallOf
  <2>. QED BY <2>1, <2>2, <2>3, <2>4 DEF CallOf, Waits
<1>2. /\ at' = [at EXCEPT ![g] = @ + 1]
      /\ UNCHANGED <<chans, lock, pc, op, todo, res, elem, flags, wk, failed>>
  BY DEF Clean
<1>3. at'[g] = i + 1 /\ at' \in [G -> Nat] /\ pc'[g] = "clean"
  BY <1>1, <1>2 DEF Inv, TypeOK
<1>. PICK c \in C : c = Cases(g)[i].c BY <1>1, CaseOf DEF Inv
<1>. PICK d \in Dirs : d = Cases(g)[i].dir BY <1>1, CaseOf DEF Inv, Dirs
<1>4. This(g).c = c /\ This(g).dir = d BY DEF This, Cases
<1>5. ASSUME NEW r \in Range(Q(d, c)), r.g = g PROVE r \in Record /\ r.sel = op[g].sel
  <2>1. RecordOf(r, d, c) BY DEF Inv, RecordInv
  <2>. QED BY <1>5, <2>1, RecordIn DEF Inv, RecordOf
<1>6. \A q, r \in Range(Q(d, c)) : q.g = g /\ q.i = i /\ r.g = g /\ r.i = i => q = r
  BY <1>5 DEF Record
<1>. PICK s : s = Without(Q(d, c), g, i) OBVIOUS
<1>7. /\ s \in Seq(Record) /\ Unique(s) /\ Range(s) \subseteq Range(Q(d, c))
      /\ \A r \in Range(s) : r.g # g \/ r.i # i
  <2>1. Q(d, c) \in Seq(Record) /\ Unique(Q(d, c)) BY QueueType DEF Inv, RecordInv
  <2>. QED BY <1>6, <2>1, WithoutQueue
<1>8. /\ Shrinks /\ sendq' \in [C -> Seq(Record)] /\ recvq' \in [C -> Seq(Record)]
      /\ i # done[g] => Q(d, c)' = s
  <2>1. CASE i = done[g]
    <3>1. UNCHANGED queues BY <1>1, <2>1 DEF Clean
    <3>2. Shrinks BY <3>1, SameQueues DEF Inv
    <3>. QED BY <2>1, <3>1, <3>2 DEF Inv, TypeOK, queues
  <2>2. CASE i # done[g]
    <3>1. QueueBecomes(d, c, s) /\ TypeOK
      BY <1>1, <1>4, <2>2 DEF Clean, QueueBecomes, Q, Inv, Dirs
    <3>2. Shrinks BY <1>7, <3>1, QueueShrinks DEF Inv
    <3>3. s \in Seq(Record) BY <1>7
    <3>4. /\ sendq' \in [C -> Seq(Record)] /\ recvq' \in [C -> Seq(Record)]
          /\ Q(d, c)' = s
      BY ONLY <3>1, <3>3, OneQueue
    <3>. QED BY <3>2, <3>4
  <2>. QED BY <2>1, <2>2
<1>9. TypeOK' BY <1>2, <1>3, <1>8 DEF Inv, TypeOK
<1>10. Local(g) BY <1>2 DEF Local, Inv, TypeOK
<1>11. ClosedStays BY <1>2 DEF ClosedStays
<1>12. StepOf(g) BY <1>1, <1>2, <1>8, <1>10, <1>11 DEF StepOf
<1>13. Cases(g)' = Cases(g) BY <1>2 DEF Cases
<1>14. CallOf(g)'
  <2>1. CallOf(g) BY DEF Inv, CallInv
  <2>2. i + 1 \in 1 .. (Len(Cases(g)) + 1) BY <1>1
  <2>. QED BY <1>1, <1>2, <1>3, <1>13, <2>1, <2>2 DEF CallOf, Deciding, Waits, Clear
<1>15. ASSUME NEW b \in C, NEW e \in Dirs, NEW r \in Range(Q(e, b)'), r.g = g
       PROVE  RecordOf(r, e, b)'
  <2>1. r \in Range(Q(e, b)) BY <1>8 DEF Shrinks
  <2>2. RecordOf(r, e, b) BY <2>1 DEF Inv, RecordInv
  <2>3. r.i \in Nat /\ r.i # done[g] /\ r.i >= i /\ Cases(g)[r.i] = [dir |-> e, c |-> b]
    BY <1>1, <1>15, <2>1, <2>2, RecordIn DEF Inv, RecordOf
  <2>4. r.i # i
    <3>. SUFFICES ASSUME r.i = i PROVE FALSE OBVIOUS
    <3>1. e = d /\ b = c BY <2>3
    <3>. QED BY <1>7, <1>8, <1>15, <2>3, <3>1
  <2>5. r.i >= i + 1 BY <2>3, <2>4
  <2>. QED BY <1>1, <1>2, <1>3, <1>13, <1>15, <2>2, <2>5 DEF RecordOf
<1>16. \A b \in C : lock[b] # g
  BY <1>1, ChanAssumption DEF Inv, LockInv, Locking
<1>17. DeliveredOf(g)' BY <1>3 DEF DeliveredOf
<1>18. After(g) BY <1>3, <1>14, <1>15, <1>16, <1>17 DEF After
<1>19. Others' BY <1>12, <1>18, StepInv
<1>20. WakeInv' BY <1>1, <1>2, <1>8, <1>10, <1>11, LocalWaking DEF Inv
<1>21. LockInv' BY <1>1, <1>2, <1>3, <1>10, LocalLocks DEF Inv, Locking
<1>22. SoloInv' BY <1>10, LocalSolo DEF Inv, Local, Clean
<1>23. RingInv' BY <1>2 DEF Inv, RingInv
<1>. QED BY <1>9, <1>19, <1>20, <1>21, <1>22, <1>23 DEF Inv, Others

LEMMA AppendedRecord ==
    ASSUME NEW s \in Seq(Record), Unique(s), NEW r \in Record, r \notin Range(s)
    PROVE  /\ Append(s, r) \in Seq(Record) /\ Unique(Append(s, r))
           /\ \A x \in Range(Append(s, r)) : x \in Range(s) \/ x = r
<1>1. \A j, l \in DOMAIN s : s[j] = s[l] => j = l BY DEF Unique
<1>2. \A j \in DOMAIN s : s[j] # r BY DEF Range
<1>3. /\ Append(s, r) \in Seq(Record)
      /\ \A j, l \in DOMAIN Append(s, r) :
            Append(s, r)[j] = Append(s, r)[l] => j = l
      /\ \A x : (\E j \in DOMAIN Append(s, r) : Append(s, r)[j] = x)
                <=> (\E j \in DOMAIN s : s[j] = x) \/ x = r
  BY <1>1, <1>2, AppendedQueue
<1>. PICK t : t = Append(s, r) OBVIOUS
<1>4. ASSUME NEW x \in Range(t) PROVE x \in Range(s) \/ x = r
  <2>1. PICK j \in DOMAIN t : t[j] = x BY DEF Range
  <2>2. (\E l \in DOMAIN s : s[l] = x) \/ x = r BY <1>3, <2>1
  <2>. QED BY <2>2 DEF Range
<1>. QED BY <1>3, <1>4 DEF Unique

\* The queues when g has queued its case i.
LEMMA JoinedQueue ==
    ASSUME Inv, NEW g \in G, pc[g] = "queue", Enqueue(g), NEW i, i = at[g],
           NEW c, NEW d, c = This(g).c, d = This(g).dir
    PROVE  /\ sendq' \in [C -> Seq(Record)] /\ recvq' \in [C -> Seq(Record)]
           /\ c \in C /\ d \in Dirs /\ i \in DOMAIN Cases(g) /\ i \in Nat
           /\ Cases(g)[i] = [dir |-> d, c |-> c] /\ lock[c] = g
           /\ \A b \in C, e \in Dirs :
                /\ Unique(Q(e, b)')
                /\ b # c \/ e # d => Q(e, b)' = Q(e, b)
                /\ \A r \in Range(Q(e, b)') :
                     \/ r \in Range(Q(e, b))
                     \/ b = c /\ e = d /\ r = [g |-> g, i |-> i, sel |-> op[g].sel]
<1>1. /\ c \in C /\ i \in DOMAIN Cases(g) /\ i \in Nat
      /\ Cases(g)[i] = [dir |-> d, c |-> c] /\ c \in Channels(op[g])
  BY ThisCase DEF Inv
<1>2. d \in Dirs
  <2>1. Cases(g)[i].dir # "close" BY <1>1 DEF Inv, CallInv, CallOf, Waits
  <2>. QED BY <1>1, <2>1, CaseOf DEF Inv, Dirs
<1>3. lock[c] = g BY <1>1, HoldsLocks DEF Inv, Locking
<1>. PICK r : r = [g |-> g, i |-> i, sel |-> op[g].sel] OBVIOUS
<1>4. r \in Record
  <2>1. op[g].sel \in BOOLEAN BY OpOf DEF Inv
  <2>. QED BY <1>1, <2>1 DEF Record
<1>5. r \notin Range(Q(d, c))
  <2>. SUFFICES ASSUME r \in Range(Q(d, c)) PROVE FALSE OBVIOUS
  <2>1. RecordOf(r, d, c) BY <1>1, <1>2 DEF Inv, RecordInv
  <2>2. i < i BY <2>1 DEF RecordOf
  <2>. QED BY <1>1, <2>2
<1>6. Q(d, c) \in Seq(Record) /\ Unique(Q(d, c)) BY <1>1, <1>2, QueueType DEF Inv, RecordInv
<1>. PICK t : t = Append(Q(d, c), r) OBVIOUS
<1>7. /\ t \in Seq(Record) /\ Unique(t)
      /\ \A x \in Range(t) : x \in Range(Q(d, c)) \/ x = r
  BY <1>4, <1>5, <1>6, AppendedRecord
<1>8. QueueBecomes(d, c, t) BY <1>2 DEF Enqueue, QueueBecomes, Q, Dirs
<1>9. /\ sendq' \in [C -> Seq(Record)] /\ recvq' \in [C -> Seq(Record)]
      /\ \A b \in C, e \in Dirs : Q(e, b)' = IF b = c /\ e = d THEN t ELSE Q(e, b)
  <2>1. TypeOK BY DEF Inv
  <2>. QED BY ONLY <1>1, <1>2, <1>7, <1>8, <2>1, OneQueue
<1>10. \A b \in C, e \in Dirs : Unique(Q(e, b)) BY DEF Inv, RecordInv
<1>11. ASSUME NEW b \in C, NEW e \in Dirs
       PROVE  /\ Unique(Q(e, b)')
              /\ b # c \/ e # d => Q(e, b)' = Q(e, b)
              /\ \A x \in Range(Q(e, b)') :
                   x \in Range(Q(e, b)) \/ (b = c /\ e = d /\ x = r)
  <2>1. CASE b = c /\ e = d
    <3>1. Q(e, b)' = t BY <1>9, <2>1
    <3>. QED BY <1>7, <2>1, <3>1
  <2>2. CASE ~(b = c /\ e = d)
    <3>1. Q(e, b)' = Q(e, b) BY <1>9, <2>2
    <3>. QED BY <1>10, <2>2, <3>1
  <2>. QED BY <2>1, <2>2
<1>. QED BY <1>1, <1>2, <1>3, <1>9, <1>11

LEMMA JoinedInv ==
    ASSUME Inv, NEW g \in G, At(g, "queue"), Enqueue(g), Local(g),
           UNCHANGED <<chans, op, todo, res, elem, flags, wk, failed>>,
           pc' \in [G -> PCs], at' \in [G -> Nat], lock' \in [C -> G \cup {None}],
           pc'[g] = "parked" \/ (pc'[g] = "queue" /\ at'[g] = at[g] + 1),
           \A c \in C : lock[c] \in {g, None} \/ lock'[c] = lock[c],
           LockInv', CallOf(g)'
    PROVE  Inv'
<1>. USE DEF chans, flags
<1>. PICK i, c, d : i = at[g] /\ c = This(g).c /\ d = This(g).dir OBVIOUS
<1>1. pc[g] = "queue" BY DEF At
<1>2. /\ sendq' \in [C -> Seq(Record)] /\ recvq' \in [C -> Seq(Record)]
      /\ c \in C /\ d \in Dirs /\ i \in DOMAIN Cases(g) /\ i \in Nat
      /\ Cases(g)[i] = [dir |-> d, c |-> c] /\ lock[c] = g
      /\ \A b \in C, e \in Dirs :
           /\ Unique(Q(e, b)')
           /\ b # c \/ e # d => Q(e, b)' = Q(e, b)
           /\ \A r \in Range(Q(e, b)') :
                \/ r \in Range(Q(e, b))
                \/ b = c /\ e = d /\ r = [g |-> g, i |-> i, sel |-> op[g].sel]
  BY <1>1, JoinedQueue
<1>3. TypeOK' BY <1>2 DEF Inv, TypeOK
<1>4. ClosedStays BY DEF ClosedStays
<1>5. CallInv' BY <1>4, LocalCalls DEF Inv
<1>6. SoloInv' BY LocalSolo DEF Inv, Local
<1>7. \A h \in G : Cases(h)' = Cases(h) BY DEF Cases
<1>8. RecordInv'
  <2>1. ASSUME NEW b \in C, NEW e \in Dirs, NEW r \in Range(Q(e, b)'), r \in Range(Q(e, b))
        PROVE  RecordOf(r, e, b)'
    <3>1. RecordOf(r, e, b) BY <2>1 DEF Inv, RecordInv
    <3>. PICK t \in G : t = r.g BY <2>1, RecordIn DEF Inv
    <3>2. r.i \in Nat BY <2>1, RecordIn DEF Inv
    <3>3. CASE t = g
      <4>1. r.i < i BY <1>1, <3>1, <3>3 DEF RecordOf
      <4>2. r.i < i + 1 BY <1>2, <3>2, <4>1
      <4>. QED BY <1>7, <3>1, <3>3, <4>2 DEF RecordOf, Waits
    <3>4. CASE t # g
      <4>1. pc'[t] = pc[t] /\ at'[t] = at[t] BY <3>4 DEF Local
      <4>. QED BY <1>7, <3>1, <4>1 DEF RecordOf
    <3>. QED BY <3>3, <3>4
  <2>2. ASSUME NEW r, r = [g |-> g, i |-> i, sel |-> op[g].sel]
        PROVE  RecordOf(r, d, c)'
    <3>1. i < i + 1 BY <1>2
    <3>. QED BY <1>2, <1>7, <2>2, <3>1 DEF RecordOf, Waits
  <2>3. ASSUME NEW b \in C, NEW e \in Dirs PROVE Unique(Q(e, b))'
    <3>1. Unique(Q(e, b)') BY <1>2
    <3>. QED BY <3>1 DEF Unique
  <2>. QED BY <1>2, <2>1, <2>2, <2>3 DEF RecordInv
<1>9. WakeInv'
  <2>1. ASSUME NEW h \in G, wk[h] # None PROVE WokenBy(wk[h])'
    <3>1. PICK w \in Waking : w = wk[h] BY <2>1 DEF Inv, TypeOK
    <3>2. WokenBy(w) BY <2>1, <3>1 DEF Inv, WakeInv
    <3>. PICK t \in G : t = w.g BY DEF Waking
    <3>3. t # g /\ pc'[t] = "parked" BY <1>1, <3>2 DEF WokenBy, Local
    <3>4. ASSUME NEW b \in C, NEW e \in Dirs, NEW r \in Range(Q(e, b)')
          PROVE  r.g # t \/ r.i # w.i
      BY <1>2, <3>2, <3>3 DEF WokenBy
    <3>5. WokenBy(w)' BY <1>7, <3>2, <3>3, <3>4 DEF WokenBy
    <3>. QED BY <3>1, <3>5 DEF WokenBy
  <2>. QED BY <2>1 DEF Inv, WakeInv
<1>10. RingInv' BY DEF Inv, RingInv
<1>11. ASSUME NEW b \in C, NEW e \in Dirs
       PROVE  /\ Waiters(Q(e, b))' \subseteq Waiters(Q(e, b)) \cup {g}
              /\ b # c \/ e # d => Waiters(Q(e, b))' \subseteq Waiters(Q(e, b))
  <2>1. ASSUME NEW h \in Waiters(Q(e, b))'
        PROVE  h \in Waiters(Q(e, b)) \/ (b = c /\ e = d /\ h = g)
    <3>1. PICK k \in DOMAIN Q(e, b)' : Live(Q(e, b)[k])' /\ Q(e, b)'[k].g = h
      BY <2>1 DEF Waiters
    <3>. PICK r : r = Q(e, b)'[k] OBVIOUS
    <3>2. r \in Range(Q(e, b)') BY DEF Range
    <3>3. Live(r) BY <3>1 DEF Live
    <3>4. CASE r \in Range(Q(e, b)) BY <3>1, <3>3, <3>4, WaiterRecord
    <3>5. CASE r \notin Range(Q(e, b)) BY <1>2, <3>1, <3>2, <3>5
    <3>. QED BY <3>4, <3>5
  <2>. QED BY <2>1
<1>12. ASSUME NEW b \in C
       PROVE  /\ Waiters(recvq[b])' \subseteq Waiters(recvq[b]) \cup {g}
              /\ Waiters(sendq[b])' \subseteq Waiters(sendq[b]) \cup {g}
              /\ b # c \/ d = "send" => Waiters(recvq[b])' \subseteq Waiters(recvq[b])
              /\ b # c \/ d = "recv" => Waiters(sendq[b])' \subseteq Waiters(sendq[b])
  BY <1>11 DEF Q, Dirs
<1>13. TriedInv'
  <2>1. ASSUME NEW h \in G \ {g}, pc[h] \in {"try", "queue"}, NEW b \in Channels(op[h])
        PROVE  /\ cap'[b] = cap[b] /\ qcount'[b] = qcount[b] /\ closed'[b] = closed[b]
               /\ Waiters(recvq[b])' \subseteq Waiters(recvq[b])
               /\ Waiters(sendq[b])' \subseteq Waiters(sendq[b])
    <3>1. b \in C BY <2>1, ChannelsIn DEF Inv
    <3>2. lock[b] = h BY <2>1, HoldsLocks DEF Inv, Locking
    <3>3. b # c BY <1>2, <3>2
    <3>. QED BY <1>12, <3>1, <3>3
  <2>2. ASSUME NEW j \in DOMAIN Cases(g)' PROVE CaseStuck(g, j)'
    <3>1. CaseStuck(g, j) BY <1>1, <1>7 DEF Inv, TriedInv
    <3>2. Cases(g)[j].c \in C BY <1>1, <1>7, CaseOf DEF Inv
    <3>. QED BY <1>7, <1>12, <3>1, <3>2 DEF CaseStuck
  <2>. QED BY <2>1, <2>2, LocalTried DEF Inv
<1>14. WaitersInv'
  <2>1. ASSUME NEW b \in C, b # c PROVE WaitersOf(b)'
    <3>1. /\ Waiters(recvq[b])' \subseteq Waiters(recvq[b])
          /\ Waiters(sendq[b])' \subseteq Waiters(sendq[b])
      BY <1>12, <2>1
    <3>. QED BY <1>1, <3>1, LocalWaiters DEF Inv
  <2>2. WaitersOf(c)'
    <3>1. CaseStuck(g, i) BY <1>1, <1>2 DEF Inv, TriedInv
    <3>2. WaitersOf(c) BY <1>2 DEF Inv, WaitersInv
    <3>3. ~closed'[c] /\ cap'[c] = cap[c] /\ qcount'[c] = qcount[c]
      BY <1>2, <3>1 DEF CaseStuck
    <3>4. CASE d = "send"
      <4>1. Waiters(recvq[c]) \subseteq {g} /\ qcount[c] = cap[c]
        BY <1>2, <3>1, <3>4 DEF CaseStuck
      <4>2. /\ Waiters(recvq[c])' \subseteq Waiters(recvq[c])
            /\ Waiters(sendq[c])' \subseteq Waiters(sendq[c]) \cup {g}
        BY <1>2, <1>12, <3>4
      <4>. QED BY ONLY <3>2, <3>3, <4>1, <4>2 DEF WaitersOf
    <3>5. CASE d = "recv"
      <4>1. Waiters(sendq[c]) \subseteq {g} /\ qcount[c] = 0
        BY <1>2, <3>1, <3>5 DEF CaseStuck
      <4>2. /\ Waiters(recvq[c])' \subseteq Waiters(recvq[c]) \cup {g}
            /\ Waiters(sendq[c])' \subseteq Waiters(sendq[c])
        BY <1>2, <1>12, <3>5
      <4>. QED BY ONLY <3>2, <3>3, <4>1, <4>2 DEF WaitersOf
    <3>. QED BY <1>2, <3>4, <3>5 DEF Dirs
  <2>. QED BY <2>1, <2>2 DEF WaitersInv
<1>15. DeliveredOf(g)' BY DEF DeliveredOf
<1>16. DeliveredInv' BY <1>15, LocalDelivered DEF Inv
<1>. QED BY <1>3, <1>5, <1>6, <1>8, <1>9, <1>10, <1>13, <1>14, <1>16 DEF Inv

LEMMA QueueInv ==
    ASSUME Inv, NEW g \in G, Queue(g)
    PROVE  Inv'
<1>. USE DEF chans, flags
<1>1. pc[g] = "queue" /\ At(g, "queue") /\ Enqueue(g) /\ ~LastCase(g) BY DEF Queue, At
<1>2. /\ at' = [at EXCEPT ![g] = @ + 1]
      /\ UNCHANGED <<chans, lock, pc, op, todo, res, elem, flags, wk, failed>>
  BY DEF Queue
<1>. PICK i \in Nat : i = at[g] BY DEF Inv, TypeOK
<1>3. at'[g] = i + 1 /\ at' \in [G -> Nat] BY <1>2 DEF Inv, TypeOK
<1>4. Local(g) BY <1>2 DEF Local, Inv, TypeOK
<1>5. Cases(g)' = Cases(g) BY <1>2 DEF Cases
<1>6. i + 1 \in DOMAIN Cases(g)
  <2>1. /\ i \in DOMAIN Cases(g) /\ DOMAIN Cases(g) = 1 .. Len(Cases(g))
        /\ Len(Cases(g)) \in Nat
    BY <1>1, ThisCase, OpOf DEF Inv
  <2>2. i # Len(Cases(g)) BY <1>1 DEF LastCase, Cases
  <2>. QED BY <2>1, <2>2
<1>7. CallOf(g)'
  <2>1. CallOf(g) BY DEF Inv, CallInv
  <2>. QED BY <1>1, <1>2, <1>3, <1>5, <1>6, <2>1 DEF CallOf, Deciding, Waits, Clear
<1>8. LockInv' BY <1>1, <1>2, <1>4, LocalLocks DEF Inv, Locking
<1>9. /\ pc' \in [G -> PCs] /\ lock' \in [C -> G \cup {None}]
  BY <1>2 DEF Inv, TypeOK
<1>. QED BY <1>1, <1>2, <1>3, <1>4, <1>7, <1>8, <1>9, JoinedInv

LEMMA ParkInv ==
    ASSUME Inv, NEW g \in G, Park(g)
    PROVE  Inv'
<1>. USE DEF chans, flags
<1>1. pc[g] = "queue" /\ At(g, "queue") /\ Enqueue(g) BY DEF Park, At
<1>2. /\ at' = [at EXCEPT ![g] = 1] /\ pc' = [pc EXCEPT ![g] = "parked"]
      /\ lock' = [c \in C |-> IF lock[c] = g THEN None ELSE lock[c]]
      /\ UNCHANGED <<chans, op, todo, res, elem, flags, wk, failed>>
  BY DEF Park, Release, Goto
<1>3. /\ at'[g] = 1 /\ pc'[g] = "parked" /\ at' \in [G -> Nat] /\ pc' \in [G -> PCs]
      /\ lock' \in [C -> G \cup {None}]
  BY <1>2 DEF Inv, TypeOK, PCs
<1>4. Local(g) BY <1>2 DEF Local, Inv, TypeOK
<1>5. Cases(g)' = Cases(g) BY <1>2 DEF Cases
<1>6. 1 \in DOMAIN Cases(g)
  <2>1. /\ at[g] \in DOMAIN Cases(g) /\ DOMAIN Cases(g) = 1 .. Len(Cases(g))
        /\ Len(Cases(g)) \in Nat
    BY <1>1, ThisCase, OpOf DEF Inv
  <2>. QED BY <2>1
<1>7. CallOf(g)'
  <2>1. CallOf(g) BY DEF Inv, CallInv
  <2>. QED BY <1>1, <1>2, <1>3, <1>5, <1>6, <2>1 DEF CallOf, Deciding, Waits, Clear
<1>8. LockInv'
  <2>1. Release(g) BY DEF Park
  <2>2. \A h \in G \ {g} : pc[h] \in Locking => Channels(op[h]) \subseteq C
    BY ChannelsIn DEF Inv, Locking
  <2>. QED BY <1>1, <1>3, <1>4, <2>1, <2>2, ReleaseLocks DEF Inv, Locking
<1>9. \A c \in C : lock[c] \in {g, None} \/ lock'[c] = lock[c] BY <1>2
<1>. QED BY <1>1, <1>2, <1>3, <1>4, <1>7, <1>8, <1>9, JoinedInv

\* The call that was found is told which case went through, and readied.
LEMMA WakeSetInv ==
    ASSUME Inv, NEW g \in G, WakeSet(g)
    PROVE  Inv'
<1>. USE DEF chans, queues
<1>1. /\ pc[g] = "set" /\ At(g, "set") /\ wk[g] # None
      /\ This(g) = Cases(g)[at[g]] /\ at[g] \in DOMAIN Cases(g)
  <2>1. pc[g] = "set" /\ At(g, "set") BY DEF WakeSet, At
  <2>2. wk[g] # None BY <2>1 DEF Inv, CallInv, CallOf
  <2>. QED BY <2>1, <2>2, ThisCase DEF Inv
<1>. PICK w \in Waking : w = wk[g] BY <1>1 DEF Inv, TypeOK
<1>. PICK t \in G : t = w.g BY DEF Waking
<1>2. WokenBy(w) BY <1>1 DEF Inv, WakeInv
<1>3. /\ pc[t] = "parked" /\ w.i \in DOMAIN Cases(t) /\ w.sel = op[t].sel
      /\ \A c \in C, d \in Dirs : \A r \in Range(Q(d, c)) : r.g # t \/ r.i # w.i
      /\ ~w.ok => closed[Cases(t)[w.i].c]
      /\ t # g /\ w.i \in Nat \ {0} /\ w.ok \in BOOLEAN
  BY <1>1, <1>2, CaseOf DEF WokenBy, Inv, Waking
<1>. PICK back : back = IF This(g).dir = "close" THEN "drain" ELSE "unlock" OBVIOUS
<1>4. /\ done' = [done EXCEPT ![t] = w.i] /\ recvok' = [recvok EXCEPT ![t] = w.ok]
      /\ pc' = [pc EXCEPT ![g] = back, ![t] = IF @ = "parked" THEN "woken" ELSE @]
      /\ wk' = [wk EXCEPT ![g] = None]
      /\ UNCHANGED <<chans, queues, lock, frame, elem, failed>>
  BY DEF WakeSet
<1>5. /\ pc' = [h \in G |-> IF h = g THEN back ELSE IF h = t THEN "woken" ELSE pc[h]]
      /\ done' = [h \in G |-> IF h = t THEN w.i ELSE done[h]]
      /\ recvok' = [h \in G |-> IF h = t THEN w.ok ELSE recvok[h]]
      /\ wk' = [h \in G |-> IF h = g THEN None ELSE wk[h]]
      /\ back \in {"drain", "unlock"}
  BY <1>3, <1>4 DEF Inv, TypeOK
<1>6. UNCHANGED <<chans, queues, lock, op, at, todo, res, elem, failed>> BY <1>4 DEF frame
<1>7. TypeOK' BY <1>3, <1>5, <1>6 DEF Inv, TypeOK, PCs
<1>8. \A h \in G : Cases(h)' = Cases(h) BY <1>6 DEF Cases
<1>9. CallInv'
  <2>1. CallOf(g)'
    <3>1. CallOf(g) BY DEF Inv, CallInv
    <3>2. pc'[g] = back /\ wk'[g] = None /\ done'[g] = done[g] /\ recvok'[g] = recvok[g]
      BY <1>3, <1>5
    <3>3. pc'[g] = "drain" => Cases(g)[at[g]].dir = "close" BY <1>1, <3>2
    <3>. QED
      BY <1>1, <1>5, <1>6, <1>8, <3>1, <3>2, <3>3 DEF CallOf, Deciding, Waits, Clear
  <2>2. CallOf(t)'
    <3>1. CallOf(t) BY DEF Inv, CallInv
    <3>2. pc'[t] = "woken" /\ wk'[t] = wk[t] /\ done'[t] = w.i /\ recvok'[t] = w.ok
      BY <1>3, <1>5
    <3>. QED
      BY <1>3, <1>6, <1>8, <3>1, <3>2 DEF CallOf, Deciding, Waits, Clear
  <2>3. ASSUME NEW h \in G \ {g, t} PROVE CallOf(h)'
    <3>1. CallOf(h) BY DEF Inv, CallInv
    <3>2. /\ pc'[h] = pc[h] /\ wk'[h] = wk[h] /\ done'[h] = done[h]
          /\ recvok'[h] = recvok[h]
      BY <1>5
    <3>. QED BY <1>6, <1>8, <3>1, <3>2 DEF CallOf
  <2>. QED BY <2>1, <2>2, <2>3 DEF CallInv
<1>10. LockInv' BY <1>1, <1>3, <1>5, <1>6, SameLocks DEF Inv, Locking
<1>11. SoloInv'
  <2>1. \A h \in G \ {g} : pc'[h] = pc[h] \/ pc'[h] \in Resting BY <1>5 DEF Resting
  <2>. QED BY <1>1, <2>1, LocalSolo DEF Inv
<1>12. Shrinks /\ \A c \in C, d \in Dirs : Q(d, c)' = Q(d, c)
  BY <1>6, SameQueues DEF Inv
<1>13. RecordInv'
  <2>1. ASSUME NEW c \in C, NEW d \in Dirs, NEW r \in Range(Q(d, c)) PROVE RecordOf(r, d, c)'
    <3>1. RecordOf(r, d, c) BY DEF Inv, RecordInv
    <3>. PICK h \in G : h = r.g BY RecordIn DEF Inv
    <3>2. h # g
      <4>1. pc[h] \in Waits BY <3>1 DEF RecordOf
      <4>. QED BY <1>1, <4>1 DEF Waits
    <3>3. CASE h = t
      <4>1. r.i # w.i BY <1>3, <3>3
      <4>2. r.i \in DOMAIN Cases(t) /\ r.sel = op[t].sel BY <3>1, <3>3 DEF RecordOf
      <4>3. op[t].sel
        <5>1. ~op[t].sel => r.i = 1 /\ w.i = 1 BY <1>3, <4>2, CaseOf DEF Inv
        <5>. QED BY <4>1, <5>1
      <4>4. pc'[t] = "woken" /\ done'[t] = w.i BY <1>3, <1>5
      <4>. QED BY <1>6, <1>8, <3>1, <3>3, <4>1, <4>2, <4>3, <4>4 DEF RecordOf, Waits
    <3>4. CASE h # t
      <4>1. pc'[h] = pc[h] /\ done'[h] = done[h] BY <1>5, <3>2, <3>4
      <4>. QED BY <1>6, <1>8, <3>1, <4>1 DEF RecordOf
    <3>. QED BY <3>3, <3>4
  <2>2. \A c \in C, d \in Dirs : Unique(Q(d, c))' BY <1>12 DEF Shrinks
  <2>. QED BY <1>12, <2>1, <2>2 DEF RecordInv
<1>14. WakeInv'
  <2>1. ClosedStays BY <1>6 DEF ClosedStays
  <2>2. ASSUME NEW h \in G, wk'[h] # None PROVE WokenBy(wk[h])'
    <3>1. h # g /\ wk'[h] = wk[h] /\ wk[h] # None BY <1>5, <2>2
    <3>2. PICK u \in Waking : u = wk[h] BY <3>1 DEF Inv, TypeOK
    <3>3. WokenBy(u) BY <3>1, <3>2 DEF Inv, WakeInv
    <3>. PICK x \in G : x = u.g BY DEF Waking
    <3>4. x # t BY <1>1, <3>1, <3>2 DEF Inv, WakeInv
    <3>5. x # g BY <1>1, <3>3 DEF WokenBy
    <3>6. pc'[x] = pc[x] /\ op'[x] = op[x] BY <1>5, <1>6, <3>4, <3>5
    <3>7. WokenBy(u)' BY <1>12, <2>1, <3>3, <3>6, StillWoken DEF Inv
    <3>8. wk'[h] = u BY <3>1, <3>2
    <3>. QED BY <3>7, <3>8 DEF WokenBy
  <2>3. \A h \in G : wk'[h] # None => wk'[h] = wk[h] BY <1>5
  <2>. QED BY <2>2, <2>3 DEF Inv, WakeInv
<1>15. RingInv' BY <1>6 DEF Inv, RingInv
<1>16. \A c \in C : /\ Waiters(recvq[c])' \subseteq Waiters(recvq[c])
                   /\ Waiters(sendq[c])' \subseteq Waiters(sendq[c])
  <2>1. \A h \in G : done'[h] = 0 /\ done[h] # 0 => pc[h] \notin Waits
    BY <1>3, <1>5
  <2>2. \A c \in C, d \in Dirs : Waiters(Q(d, c))' \subseteq Waiters(Q(d, c))
    BY <1>12, <2>1, FewerWaiters DEF Inv
  <2>. QED BY <2>2 DEF Q, Dirs
<1>17. TriedInv'
  <2>1. ASSUME NEW h \in G, pc'[h] \in {"try", "queue"}, NEW i \in DOMAIN Cases(h),
               pc'[h] = "queue" \/ i < at[h]
        PROVE  CaseStuck(h, i)'
    <3>1. h # g /\ h # t /\ pc[h] = pc'[h] BY <1>3, <1>5, <2>1
    <3>2. CaseStuck(h, i) BY <2>1, <3>1 DEF Inv, TriedInv
    <3>3. Cases(h)[i].c \in C BY <2>1, <3>1, CaseOf DEF Inv
    <3>. QED BY <1>6, <1>8, <1>16, <3>2, <3>3 DEF CaseStuck
  <2>. QED BY <1>6, <1>8, <2>1 DEF TriedInv
<1>18. WaitersInv'
  <2>1. ASSUME NEW c \in C, Closing(c) PROVE Closing(c)'
    <3>1. PICK h \in G : /\ lock[c] = h /\ pc[h] \in {"wake", "set", "drain"}
                         /\ Cases(h)[at[h]] = [dir |-> "close", c |-> c]
      BY <2>1 DEF Closing
    <3>2. h = g => back = "drain" BY <1>1, <3>1
    <3>3. h # t BY <1>3, <3>1
    <3>4. pc'[h] \in {"wake", "set", "drain"} BY <1>5, <3>1, <3>2, <3>3
    <3>. QED BY <1>6, <1>8, <3>1, <3>4 DEF Closing
  <2>. QED BY <1>6, <1>16, <2>1 DEF Inv, WaitersInv, WaitersOf
<1>19. DeliveredInv'
  <2>1. ASSUME NEW h \in G PROVE DeliveredOf(h)'
    <3>1. DeliveredOf(h) BY DEF Inv, DeliveredInv
    <3>2. pc'[h] \in {"wake", "set", "drain", "unlock", "return"} =>
            pc[h] \in {"wake", "set", "drain", "unlock", "return"}
      BY <1>1, <1>5
    <3>. QED BY <1>6, <1>8, <3>1, <3>2 DEF DeliveredOf
  <2>. QED BY <2>1 DEF DeliveredInv
<1>. QED BY <1>7, <1>9, <1>10, <1>11, <1>13, <1>14, <1>15, <1>17, <1>18, <1>19 DEF Inv

-----------------------------------------------------------------------------
(***************************************************************************)
(* The invariant and what it implies.                                      *)
(***************************************************************************)

LEMMA InitInv ==
    ASSUME Init
    PROVE  Inv
<1>. USE DEF Init
<1>1. <<>> \in Seq(Record) /\ <<>> \in Seq(G \cup {None}) OBVIOUS
<1>2. \A c \in C : cap[c] \in Nat BY ChanAssumption
<1>3. TypeOK
  <2>1. /\ cap \in [C -> Caps] /\ DOMAIN ring = C
        /\ \A c \in C : ring[c] \in [0..(cap[c] - 1) -> G \cup {None}]
    OBVIOUS
  <2>2. /\ {sendx, recvx, qcount} \subseteq [C -> Nat]
        /\ \A c \in C : {sendx[c], recvx[c], qcount[c]} \subseteq 0..cap[c]
    BY <1>2
  <2>3. /\ sendq \in [C -> Seq(Record)] /\ recvq \in [C -> Seq(Record)]
        /\ elem \in [G -> Seq(G \cup {None})]
    BY <1>1
  <2>. QED BY <2>1, <2>2, <2>3 DEF TypeOK, PCs
<1>4. CallInv BY DEF CallInv, CallOf, Deciding, Waits, Clear
<1>5. LockInv /\ SoloInv BY DEF LockInv, SoloInv, Locking, Resting
<1>6. \A c \in C, d \in Dirs : Q(d, c) = <<>> BY DEF Q
<1>7. RecordInv BY <1>6, EmptyQueue DEF RecordInv
<1>8. WakeInv BY DEF WakeInv
<1>9. RingInv
  <2>1. ASSUME NEW n \in Nat, n # 0 PROVE 0 \in 0 .. (n - 1) /\ 0 = (0 + 0) % n
    BY <2>1
  <2>. QED BY <1>2, <2>1 DEF RingInv
<1>10. TriedInv /\ DeliveredInv BY DEF TriedInv, DeliveredInv, DeliveredOf
<1>11. \A c \in C : Waiters(recvq[c]) = {} /\ Waiters(sendq[c]) = {}
  BY DEF Waiters
<1>12. WaitersInv BY <1>11 DEF WaitersInv, WaitersOf
<1>. QED BY <1>3, <1>4, <1>5, <1>7, <1>8, <1>9, <1>10, <1>12 DEF Inv

LEMMA NextInv ==
    ASSUME Inv, OneThreadOrPlain, [Next]_vars
    PROVE  Inv'
<1>1. ASSUME NEW g \in G, NEW o \in Calls, Call(g, o) PROVE Inv'
  BY <1>1, CallStepInv
<1>2. ASSUME NEW g \in G, Step(g) PROVE Inv'
  <2>1. CASE Lock(g) BY <2>1, LockStepInv
  <2>2. CASE TrySend(g) BY <2>2, TrySendInv
  <2>3. CASE SendClosed(g) BY <2>3, FailInv DEF SendClosed
  <2>4. CASE TryRecv(g) BY <2>4, TryRecvInv
  <2>5. CASE TryNext(g) BY <2>5, TryNextInv
  <2>6. CASE Decline(g) BY <2>6, DeclineInv
  <2>7. CASE Wait(g) BY <2>7, WaitInv
  <2>8. CASE Queue(g) BY <2>8, QueueInv
  <2>9. CASE Park(g) BY <2>9, ParkInv
  <2>10. CASE WakeTest(g) BY <2>10, WakeTestInv
  <2>11. CASE WakeSet(g) BY <2>11, WakeSetInv
  <2>12. CASE ResumePlain(g) BY <2>12, ResumePlainInv
  <2>13. CASE ResumeSelect(g) BY <2>13, ResumeSelectInv
  <2>14. CASE Clean(g) BY <2>14, CleanInv
  <2>15. CASE CleanDone(g) BY <2>15, CleanDoneInv
  <2>16. CASE Close(g) BY <2>16, CloseInv
  <2>17. CASE Drain(g) BY <2>17, DrainInv
  <2>18. CASE Unlock(g) BY <2>18, UnlockInv
  <2>19. CASE Return(g) BY <2>19, ReturnInv
  <2>. QED
    BY <1>2, <2>1, <2>2, <2>3, <2>4, <2>5, <2>6, <2>7, <2>8, <2>9, <2>10, <2>11, <2>12,
       <2>13, <2>14, <2>15, <2>16, <2>17, <2>18, <2>19 DEF Step
<1>3. CASE UNCHANGED vars BY <1>3, FailInv DEF vars, Inv, TypeOK
<1>. QED BY <1>1, <1>2, <1>3 DEF Next

\* Where every call and every channel is, with one thread or without selects.
THEOREM ChanInvariant ==
    ASSUME OneThreadOrPlain PROVE Spec => []Inv
<1>1. Init => Inv BY InitInv
<1>2. Inv /\ [Next]_vars => Inv' BY NextInv
<1>. QED BY <1>1, <1>2, PTL DEF Spec

\* The values of all variables of runtime_gccgo.c's channels and selects.
THEOREM ChanTypes ==
    ASSUME OneThreadOrPlain PROVE Spec => []TypeOK
<1>1. Inv => TypeOK BY DEF Inv
<1>. QED BY <1>1, ChanInvariant, PTL

\* No goroutine waits at an unlocked channel for a value, a place or a close
\* that is there, and no sender and receiver wait at once.
THEOREM ChanNobodyWaitsInVain ==
    ASSUME OneThreadOrPlain PROVE Spec => []NobodyWaitsInVain
<1>1. ASSUME Inv PROVE NobodyWaitsInVain
  <2>1. ASSUME NEW c \in C, lock[c] = None, Closing(c) PROVE FALSE
    BY <2>1, ChanAssumption DEF Closing
  <2>. QED BY <1>1, <2>1 DEF Inv, WaitersInv, WaitersOf, NobodyWaitsInVain
<1>. QED BY <1>1, ChanInvariant, PTL

\* A wait record in a queue is that of a call that waits at that channel, for
\* that case, and is there once.
THEOREM ChanRecordsOfCalls ==
    ASSUME OneThreadOrPlain PROVE Spec => []RecordsOfCalls
<1>1. ASSUME Inv PROVE RecordsOfCalls
  <2>1. ASSUME NEW c \in C, NEW d \in Dirs, NEW k \in DOMAIN Q(d, c)
        PROVE  /\ pc[Q(d, c)[k].g] \in Waits
               /\ op[Q(d, c)[k].g].cases[Q(d, c)[k].i] = [dir |-> d, c |-> c]
               /\ \A j \in DOMAIN Q(d, c) : Q(d, c)[j] = Q(d, c)[k] => j = k
    <3>1. Q(d, c)[k] \in Range(Q(d, c)) BY DEF Range
    <3>2. RecordOf(Q(d, c)[k], d, c) /\ Unique(Q(d, c)) BY <1>1, <3>1 DEF Inv, RecordInv
    <3>. QED BY <3>2 DEF RecordOf, Cases, Unique
  <2>. QED BY <2>1 DEF RecordsOfCalls, Q, Dirs, Waits
<1>. QED BY <1>1, ChanInvariant, PTL

\* A call that is matched with one that waits wakes it, for that case, and
\* nobody else does.
THEOREM ChanMatchedOnce ==
    ASSUME OneThreadOrPlain PROVE Spec => []MatchedOnce
<1>1. ASSUME Inv PROVE MatchedOnce
  <2>1. ASSUME NEW g \in G, pc[g] \in {"wake", "set"}
        PROVE  Live(wk[g]) /\ \A h \in G \ {g} : wk[h] # None => wk[h].g # wk[g].g
    <3>1. wk[g] # None BY <1>1, <2>1 DEF Inv, CallInv, CallOf
    <3>2. PICK w \in Waking : w = wk[g] BY <1>1, <3>1 DEF Inv, TypeOK
    <3>. PICK t \in G : t = w.g BY DEF Waking
    <3>3. pc[t] = "parked" BY <1>1, <3>1, <3>2 DEF Inv, WakeInv, WokenBy
    <3>4. done[t] = 0 BY <1>1, <3>3 DEF Inv, CallInv, CallOf, Clear
    <3>. QED BY <1>1, <3>1, <3>2, <3>4 DEF Live, Inv, WakeInv
  <2>. QED BY <2>1 DEF MatchedOnce
<1>. QED BY <1>1, ChanInvariant, PTL

\* A plain send that returns has handed its value over, whatever the number of
\* threads.
THEOREM ChanSendsDelivered ==
    ASSUME \A o \in Calls : ~o.sel PROVE Spec => []SendsDelivered
<1>1. ASSUME Inv PROVE SendsDelivered
  <2>1. ASSUME NEW g \in G, pc[g] = "return", res[g].case # 0,
               op[g].cases[res[g].case].dir = "send"
        PROVE  res[g].ok
    <3>1. op[g] \in Calls BY <1>1, <2>1, OpOf DEF Inv
    <3>2. ~op[g].sel BY <3>1
    <3>. QED BY <1>1, <2>1, <3>2 DEF Inv, DeliveredInv, DeliveredOf, Cases
  <2>. QED BY <2>1 DEF SendsDelivered
<1>2. OneThreadOrPlain BY DEF OneThreadOrPlain
<1>. QED BY <1>1, <1>2, ChanInvariant, PTL

-----------------------------------------------------------------------------
(***************************************************************************)
(* Refinement.  The values of a ring buffer.                               *)
(***************************************************************************)
RingOf(f, a, k, n) == [m \in 1 .. k |-> f[(a + m - 1) % n]]

\* A place, and the ones behind it.
Place(x, n) == IF x < n THEN x ELSE x - n

LEMMA RingSeq ==
    ASSUME NEW S, NEW n \in Nat \ {0}, NEW f \in [0 .. (n - 1) -> S],
           NEW a \in 0 .. (n - 1), NEW k \in 0 .. n
    PROVE  /\ RingOf(f, a, k, n) \in Seq(S) /\ Len(RingOf(f, a, k, n)) = k
           /\ \A m \in 1 .. k :
                /\ RingOf(f, a, k, n)[m] = f[Place(a + m - 1, n)]
                /\ Place(a + m - 1, n) \in 0 .. (n - 1)
<1>1. ASSUME NEW m \in 1 .. k
      PROVE  /\ (a + m - 1) % n = Place(a + m - 1, n)
             /\ (a + m - 1) % n \in 0 .. (n - 1)
  <2>. PICK x \in 0 .. (2 * n - 1) : x = a + m - 1 OBVIOUS
  <2>1. x % n = (IF x < n THEN x ELSE x - n) /\ x % n \in 0 .. (n - 1) BY Wrap
  <2>. QED BY <2>1 DEF Place
<1>2. RingOf(f, a, k, n) \in [1 .. k -> S] BY <1>1 DEF RingOf
<1>3. RingOf(f, a, k, n) \in Seq(S) BY <1>2, SeqDef
<1>4. Len(RingOf(f, a, k, n)) = k
  <2>1. DOMAIN RingOf(f, a, k, n) = 1 .. k BY <1>2
  <2>2. /\ DOMAIN RingOf(f, a, k, n) = 1 .. Len(RingOf(f, a, k, n))
        /\ Len(RingOf(f, a, k, n)) \in Nat
    BY <1>3, LenProperties
  <2>. PICK l \in Nat : l = Len(RingOf(f, a, k, n)) BY <2>2
  <2>3. 1 .. l = 1 .. k BY <2>1, <2>2
  <2>. QED BY <2>3
<1>. QED BY <1>1, <1>3, <1>4 DEF RingOf

Vals == G \cup {None}

Put(f, b, v) == [f EXCEPT ![b] = v]

\* A value is added after the last one ...
LEMMA RingAdd ==
    ASSUME NEW n \in Nat \ {0}, NEW f \in [0 .. (n - 1) -> Vals],
           NEW a \in 0 .. (n - 1), NEW k \in 0 .. (n - 1), NEW v \in Vals
    PROVE  RingOf(Put(f, Place(a + k, n), v), a, k + 1, n) = Append(RingOf(f, a, k, n), v)
<1>7. Place(a + k, n) \in 0 .. (n - 1) BY DEF Place
<1>. PICK b \in 0 .. (n - 1) : b = Place(a + k, n) BY <1>7
<1>. PICK h \in [0 .. (n - 1) -> Vals] : h = [f EXCEPT ![b] = v] OBVIOUS
<1>. PICK s : s = RingOf(f, a, k, n) OBVIOUS
<1>. PICK t : t = RingOf(h, a, k + 1, n) OBVIOUS
<1>0. k \in 0 .. n OBVIOUS
<1>1. /\ s \in Seq(Vals) /\ Len(s) = k
      /\ \A m \in 1 .. k : s[m] = f[Place(a + m - 1, n)] /\ Place(a + m - 1, n) \in 0 .. (n - 1)
  <2>1. /\ RingOf(f, a, k, n) \in Seq(Vals) /\ Len(RingOf(f, a, k, n)) = k
        /\ \A m \in 1 .. k :
             /\ RingOf(f, a, k, n)[m] = f[Place(a + m - 1, n)]
             /\ Place(a + m - 1, n) \in 0 .. (n - 1)
    BY <1>0, RingSeq, Zenon
  <2>. QED BY <2>1
<1>2. /\ t \in Seq(Vals) /\ Len(t) = k + 1
      /\ \A m \in 1 .. (k + 1) :
           /\ t[m] = h[Place(a + m - 1, n)]
           /\ Place(a + m - 1, n) \in 0 .. (n - 1)
  <2>1. ASSUME NEW l \in 0 .. n
        PROVE  /\ RingOf(h, a, l, n) \in Seq(Vals) /\ Len(RingOf(h, a, l, n)) = l
               /\ \A m \in 1 .. l :
                    /\ RingOf(h, a, l, n)[m] = h[Place(a + m - 1, n)]
                    /\ Place(a + m - 1, n) \in 0 .. (n - 1)
    BY ONLY n \in Nat \ {0}, h \in [0 .. (n - 1) -> Vals], a \in 0 .. (n - 1),
            l \in 0 .. n, RingSeq, Zenon
  <2>2. k + 1 \in 0 .. n OBVIOUS
  <2>. QED BY <2>1, <2>2
<1>3. /\ Append(s, v) \in Seq(Vals) /\ Len(Append(s, v)) = k + 1
      /\ \A m \in 1 .. k : Append(s, v)[m] = s[m]
      /\ Append(s, v)[k + 1] = v
  BY <1>1, AppendProperties
<1>4. b \in 0 .. (n - 1) OBVIOUS
<1>5. ASSUME NEW m \in 1 .. k PROVE t[m] = s[m]
  <2>1. m \in 1 .. (k + 1) OBVIOUS
  <2>. PICK j \in 0 .. (n - 1) : j = Place(a + m - 1, n)
    BY <1>1
  <2>2. j # b BY DEF Place
  <2>. QED BY <1>1, <1>2, <2>1, <2>2
<1>6. t[k + 1] = v
  <2>1. k + 1 \in 1 .. (k + 1) OBVIOUS
  <2>2. b = Place(a + (k + 1) - 1, n) BY DEF Place
  <2>. QED BY <1>2, <1>4, <2>1, <2>2
<1>8. \A m \in 1 .. (k + 1) : t[m] = Append(s, v)[m]
  <2>1. \A m \in 1 .. (k + 1) : m \in 1 .. k \/ m = k + 1 OBVIOUS
  <2>. QED BY <1>3, <1>5, <1>6, <2>1
<1>. QED BY <1>2, <1>3, <1>8, SeqEqual DEF Put

\* ... and taken from the front.
LEMMA RingTake ==
    ASSUME NEW S, NEW n \in Nat \ {0}, NEW f \in [0 .. (n - 1) -> S],
           NEW a \in 0 .. (n - 1), NEW k \in 1 .. n
    PROVE  /\ RingOf(f, Place(a + 1, n), k - 1, n) = Tail(RingOf(f, a, k, n))
           /\ Head(RingOf(f, a, k, n)) = f[a] /\ RingOf(f, a, k, n) # <<>>
<1>. PICK s : s = RingOf(f, a, k, n) OBVIOUS
<1>. PICK y \in 0 .. (n - 1) : y = Place(a + 1, n) BY DEF Place
<1>. PICK t : t = RingOf(f, y, k - 1, n) OBVIOUS
<1>0. k \in 0 .. n OBVIOUS
<1>1. /\ s \in Seq(S) /\ Len(s) = k
      /\ \A m \in 1 .. k : s[m] = f[Place(a + m - 1, n)] /\ Place(a + m - 1, n) \in 0 .. (n - 1)
  <2>1. /\ RingOf(f, a, k, n) \in Seq(S) /\ Len(RingOf(f, a, k, n)) = k
        /\ \A m \in 1 .. k :
             /\ RingOf(f, a, k, n)[m] = f[Place(a + m - 1, n)]
             /\ Place(a + m - 1, n) \in 0 .. (n - 1)
    BY <1>0, RingSeq, Zenon
  <2>. QED BY <2>1
<1>2. /\ t \in Seq(S) /\ Len(t) = k - 1
      /\ \A m \in 1 .. (k - 1) :
           t[m] = f[Place(y + m - 1, n)]
  <2>1. ASSUME NEW l \in 0 .. n, NEW z \in 0 .. (n - 1)
        PROVE  /\ RingOf(f, z, l, n) \in Seq(S) /\ Len(RingOf(f, z, l, n)) = l
               /\ \A m \in 1 .. l :
                    /\ RingOf(f, z, l, n)[m] = f[Place(z + m - 1, n)]
                    /\ Place(z + m - 1, n) \in 0 .. (n - 1)
    BY ONLY n \in Nat \ {0}, f \in [0 .. (n - 1) -> S], z \in 0 .. (n - 1),
            l \in 0 .. n, RingSeq, Zenon
  <2>2. k - 1 \in 0 .. n /\ y \in 0 .. (n - 1) OBVIOUS
  <2>. QED BY <2>1, <2>2
<1>3. s # <<>> BY <1>1, EmptySeq
<1>4. /\ Head(s) = s[1] /\ Tail(s) \in Seq(S) /\ Len(Tail(s)) = k - 1
      /\ \A m \in 1 .. (k - 1) : Tail(s)[m] = s[m + 1]
  BY <1>1, <1>3, HeadTailProperties
<1>5. ASSUME NEW m \in 1 .. (k - 1) PROVE t[m] = s[m + 1]
  <2>1. m + 1 \in 1 .. k OBVIOUS
  <2>2. Place(y + m - 1, n) = Place(a + m, n) BY DEF Place
  <2>. QED BY <1>1, <1>2, <2>1, <2>2
<1>6. s[1] = f[a]
  <2>1. 1 \in 1 .. k /\ Place(a + 0, n) = a BY DEF Place
  <2>. QED BY <1>1, <2>1
<1>7. t = Tail(s) BY <1>2, <1>4, <1>5, SeqEqual
<1>. QED BY <1>3, <1>4, <1>6, <1>7

LEMMA ValuesOf ==
    ASSUME Inv, NEW c \in C
    PROVE  /\ values[c] = RingOf(ring[c], recvx[c], qcount[c], cap[c])
           /\ Len(values[c]) = qcount[c]
           /\ qcount[c] = 0 => values[c] = <<>>
           /\ qcount[c] # 0 =>
                /\ cap[c] \in Nat \ {0} /\ values[c] # <<>>
                /\ Head(values[c]) = ring[c][recvx[c]]
<1>1. values[c] = RingOf(ring[c], recvx[c], qcount[c], cap[c])
  BY DEF values, Contents, RingOf
<1>2. CASE cap[c] = 0
  <2>1. qcount[c] = 0 BY <1>2 DEF Inv, TypeOK
  <2>2. values[c] \in [1 .. 0 -> {0}] BY <1>1, <2>1 DEF RingOf
  <2>3. values[c] \in Seq({0}) BY <2>2, SeqDef
  <2>4. DOMAIN values[c] = 1 .. Len(values[c]) /\ Len(values[c]) \in Nat
    BY <2>3, LenProperties
  <2>5. Len(values[c]) = 0 BY <2>2, <2>4
  <2>6. values[c] = <<>> BY <2>3, <2>5, EmptySeq
  <2>. QED BY <1>1, <2>1, <2>5, <2>6
<1>3. CASE cap[c] # 0
  <2>. PICK n \in Nat \ {0} : n = cap[c] BY <1>3, RingPlaces DEF Inv
  <2>. PICK k \in 0 .. n : k = qcount[c] BY <1>3, RingPlaces DEF Inv
  <2>. PICK a \in 0 .. (n - 1) : a = recvx[c] BY <1>3, RingPlaces DEF Inv
  <2>. PICK f \in [0 .. (n - 1) -> Vals] : f = ring[c] BY DEF Inv, TypeOK, Vals
  <2>. PICK s : s = RingOf(f, a, k, n) OBVIOUS
  <2>1. s = values[c] BY <1>1
  <2>2. s \in Seq(Vals) /\ Len(s) = k
    <3>1. /\ RingOf(f, a, k, n) \in Seq(Vals) /\ Len(RingOf(f, a, k, n)) = k
          /\ \A m \in 1 .. k :
               /\ RingOf(f, a, k, n)[m] = f[Place(a + m - 1, n)]
               /\ Place(a + m - 1, n) \in 0 .. (n - 1)
      BY ONLY n \in Nat \ {0}, f \in [0 .. (n - 1) -> Vals],
              a \in 0 .. (n - 1), k \in 0 .. n, RingSeq, Zenon
    <3>. QED BY <3>1
  <2>3. k = 0 => s = <<>> BY <2>2, EmptySeq
  <2>4. k # 0 => s # <<>> /\ Head(s) = f[a]
    <3>1. ASSUME NEW l \in 1 .. n
          PROVE  RingOf(f, a, l, n) # <<>> /\ Head(RingOf(f, a, l, n)) = f[a]
      BY ONLY n \in Nat \ {0}, f \in [0 .. (n - 1) -> Vals],
              a \in 0 .. (n - 1), l \in 1 .. n, RingTake, Zenon
    <3>. QED BY <3>1
  <2>. QED BY <1>1, <2>1, <2>2, <2>3, <2>4
<1>. QED BY <1>2, <1>3

LEMMA SameValues ==
    ASSUME UNCHANGED <<cap, ring, recvx, qcount>>
    PROVE  values' = values
BY DEF values, Contents

\* One ring buffer changes.
RingTo(c, f, a, k) ==
    /\ cap' = cap
    /\ ring'[c] = f /\ recvx'[c] = a /\ qcount'[c] = k
    /\ \A b \in C \ {c} :
         ring'[b] = ring[b] /\ recvx'[b] = recvx[b] /\ qcount'[b] = qcount[b]

LEMMA ValuesTo ==
    ASSUME NEW c \in C, NEW f, NEW a, NEW k, RingTo(c, f, a, k)
    PROVE  values' = [values EXCEPT ![c] = RingOf(f, a, k, cap[c])]
<1>1. \A b \in C \ {c} : Contents(b)' = Contents(b) BY DEF Contents, RingTo
<1>2. Contents(c)' = RingOf(f, a, k, cap[c]) BY DEF Contents, RingTo, RingOf
<1>. QED BY <1>1, <1>2 DEF values

LEMMA ValuesAdd ==
    ASSUME Inv, NEW c \in C, qcount[c] < cap[c], NEW v \in G,
           RingTo(c, [ring[c] EXCEPT ![sendx[c]] = v], recvx[c], qcount[c] + 1)
    PROVE  values' = [values EXCEPT ![c] = Append(@, v)]
<1>1. cap[c] # 0 BY DEF Inv, TypeOK
<1>. PICK n \in Nat \ {0} : n = cap[c] BY <1>1, RingPlaces DEF Inv
<1>. PICK k \in 0 .. (n - 1) : k = qcount[c] BY <1>1, RingPlaces DEF Inv
<1>. PICK a \in 0 .. (n - 1) : a = recvx[c] BY <1>1, RingPlaces DEF Inv
<1>. PICK b \in 0 .. (n - 1) : b = sendx[c] BY <1>1, RingPlaces DEF Inv
<1>. PICK f \in [0 .. (n - 1) -> Vals] : f = ring[c] BY DEF Inv, TypeOK, Vals
<1>2. b = Place(a + k, n) BY <1>1, RingPlaces DEF Inv, Place
<1>6. v \in Vals BY DEF Vals
<1>. PICK h \in [0 .. (n - 1) -> Vals] : h = [f EXCEPT ![b] = v] BY <1>6
<1>3. RingOf(h, a, k + 1, n) = Append(RingOf(f, a, k, n), v)
  <2>1. RingOf(Put(f, Place(a + k, n), v), a, k + 1, n) = Append(RingOf(f, a, k, n), v)
    BY ONLY n \in Nat \ {0}, f \in [0 .. (n - 1) -> Vals], a \in 0 .. (n - 1),
            k \in 0 .. (n - 1), <1>6, RingAdd, Zenon
  <2>. QED BY <1>2, <2>1 DEF Put
<1>4. values[c] = RingOf(f, a, k, n) BY ValuesOf
<1>5. values' = [values EXCEPT ![c] = RingOf(h, a, k + 1, n)]
  BY ValuesTo
<1>. QED BY <1>3, <1>4, <1>5

LEMMA ValuesTake ==
    ASSUME Inv, NEW c \in C, qcount[c] > 0,
           RingTo(c, ring[c], Inc(c, recvx[c]), qcount[c] - 1)
    PROVE  values' = [values EXCEPT ![c] = Tail(@)]
<1>1. cap[c] # 0 BY DEF Inv, TypeOK
<1>. PICK n \in Nat \ {0} : n = cap[c] BY <1>1, RingPlaces DEF Inv
<1>. PICK k \in 1 .. n : k = qcount[c] BY <1>1, RingPlaces DEF Inv
<1>. PICK a \in 0 .. (n - 1) : a = recvx[c] BY <1>1, RingPlaces DEF Inv
<1>. PICK f \in [0 .. (n - 1) -> Vals] : f = ring[c] BY DEF Inv, TypeOK, Vals
<1>. PICK y : y = Inc(c, recvx[c]) OBVIOUS
<1>2. y = Place(a + 1, n) BY NextPlace DEF Place
<1>3. RingOf(f, y, k - 1, n) = Tail(RingOf(f, a, k, n))
  BY ONLY n \in Nat \ {0}, f \in [0 .. (n - 1) -> Vals],
          a \in 0 .. (n - 1), k \in 1 .. n, <1>2, RingTake, Zenon
<1>4. values[c] = RingOf(f, a, k, n) BY ValuesOf
<1>5. values' = [values EXCEPT ![c] = RingOf(f, y, k - 1, n)] BY ValuesTo
<1>. QED BY <1>3, <1>4, <1>5

LEMMA ValuesTurn ==
    ASSUME Inv, NEW c \in C, qcount[c] > 0, qcount[c] = cap[c], NEW v \in G,
           RingTo(c, [ring[c] EXCEPT ![sendx[c]] = v], Inc(c, recvx[c]), qcount[c])
    PROVE  values' = [values EXCEPT ![c] = Append(Tail(@), v)]
<1>1. cap[c] # 0 BY DEF Inv, TypeOK
<1>. PICK n \in Nat \ {0} : n = cap[c] BY <1>1, RingPlaces DEF Inv
<1>. PICK a \in 0 .. (n - 1) : a = recvx[c] BY <1>1, RingPlaces DEF Inv
<1>. PICK f \in [0 .. (n - 1) -> Vals] : f = ring[c] BY DEF Inv, TypeOK, Vals
<1>2. sendx[c] = a BY <1>1, RingPlaces DEF Inv
<1>. PICK y : y = Inc(c, recvx[c]) OBVIOUS
<1>3. y = Place(a + 1, n) BY NextPlace DEF Place
<1>4. y \in 0 .. (n - 1) BY <1>3 DEF Place
<1>5. RingOf(f, y, n - 1, n) = Tail(RingOf(f, a, n, n))
  <2>1. n \in 1 .. n OBVIOUS
  <2>. QED BY ONLY n \in Nat \ {0}, f \in [0 .. (n - 1) -> Vals],
                   a \in 0 .. (n - 1), <1>3, <2>1, RingTake, Zenon
<1>9. v \in Vals BY DEF Vals
<1>. PICK h \in [0 .. (n - 1) -> Vals] : h = [f EXCEPT ![a] = v] BY <1>9
<1>6. RingOf(h, y, n, n) = Append(RingOf(f, y, n - 1, n), v)
  <2>0. n - 1 \in 0 .. (n - 1) BY ONLY n \in Nat \ {0}
  <2>. PICK k \in 0 .. (n - 1) : k = n - 1 BY <2>0
  <2>1. a = Place(y + k, n)
    BY ONLY <1>3, n \in Nat \ {0}, a \in 0 .. (n - 1), k = n - 1 DEF Place
  <2>3. RingOf(Put(f, Place(y + k, n), v), y, k + 1, n) = Append(RingOf(f, y, k, n), v)
    BY ONLY n \in Nat \ {0}, f \in [0 .. (n - 1) -> Vals],
            k \in 0 .. (n - 1), <1>4, <1>9, RingAdd, Zenon
  <2>4. k + 1 = n BY ONLY n \in Nat \ {0}, k = n - 1
  <2>. QED BY <2>1, <2>3, <2>4 DEF Put
<1>7. values[c] = RingOf(f, a, n, n) BY ValuesOf
<1>8. values' = [values EXCEPT ![c] = RingOf(h, y, n, n)]
  BY <1>2, ValuesTo
<1>. QED BY <1>5, <1>6, <1>7, <1>8

-----------------------------------------------------------------------------
\* Who has taken effect, and how.
ReplyAt(g) ==
    /\ pc[g] \notin {"parked", "woken"} => Outcome1(g) = res[g]
    /\ pc[g] = "woken" =>
         Outcome1(g) = Outcome(done[g], Value(g, done[g], recvok[g]), recvok[g])
    /\ pc[g] = "parked" /\ (\A h \in G : wk[h] # None => wk[h].g # g) =>
         Outcome1(g) = None
    /\ \A h \in G : wk[h] # None /\ wk[h].g = g =>
         Outcome1(g) = Outcome(wk[h].i, Value(g, wk[h].i, wk[h].ok), wk[h].ok)

LEMMA RepliesNow == Inv => \A g \in G : ReplyAt(g)
<1>. SUFFICES ASSUME Inv, NEW g \in G PROVE ReplyAt(g) OBVIOUS
<1>1. ASSUME NEW h \in G, wk[h] # None, wk[h].g = g
      PROVE  Waker(g) = {h} /\ pc[g] = "parked"
  <2>1. pc[g] = "parked" BY <1>1 DEF Inv, WakeInv, WokenBy
  <2>2. \A j \in G : wk[j] # None /\ wk[j].g = g => j = h BY <1>1 DEF Inv, WakeInv
  <2>. QED BY <1>1, <2>1, <2>2 DEF Waker
<1>2. (\A h \in G : wk[h] # None => wk[h].g # g) => Waker(g) = {} BY DEF Waker
<1>3. pc[g] # "parked" => Waker(g) = {} BY <1>1 DEF Waker
<1>4. pc[g] = "parked" => res[g] = None BY DEF Inv, CallInv, CallOf, Deciding
<1>5. ASSUME NEW h \in G, wk[h] # None, wk[h].g = g
      PROVE  Outcome1(g) = Outcome(wk[h].i, Value(g, wk[h].i, wk[h].ok), wk[h].ok)
  <2>1. (CHOOSE j \in Waker(g) : TRUE) = h BY <1>1, <1>5
  <2>. QED BY <1>1, <1>5, <2>1 DEF Outcome1
<1>6. pc[g] \notin {"parked", "woken"} => Outcome1(g) = res[g] BY DEF Outcome1
<1>7. pc[g] = "woken" =>
        Outcome1(g) = Outcome(done[g], Value(g, done[g], recvok[g]), recvok[g])
  BY <1>3 DEF Outcome1
<1>8. pc[g] = "parked" /\ (\A h \in G : wk[h] # None => wk[h].g # g) =>
        Outcome1(g) = None
  BY <1>2, <1>4 DEF Outcome1
<1>. QED BY <1>5, <1>6, <1>7, <1>8 DEF ReplyAt

LEMMA RepliesNext == Inv' => (\A g \in G : ReplyAt(g))'
BY RepliesNow, PTL

\* What a step of others leaves alone.
LEMMA ReplyStays ==
    ASSUME NEW g \in G, NEW h \in G \ {g},
           pc'[h] = pc[h], op'[h] = op[h], res'[h] = res[h],
           done'[h] = done[h], recvok'[h] = recvok[h], elem'[h] = elem[h],
           \A j \in G \ {g} : wk'[j] = wk[j],
           \/ wk'[g] = wk[g]
           \/ /\ wk[g] # None => wk[g].g # h
              /\ wk'[g] # None => wk'[g].g # h
    PROVE  Outcome1(h)' = Outcome1(h)
<1>1. Waker(h)' = Waker(h) BY DEF Waker
<1>2. \A j \in Waker(h) : wk'[j] = wk[j] BY DEF Waker
<1>3. \A i, ok : Value(h, i, ok)' = Value(h, i, ok) BY DEF Value
<1>4. Waker(h) # {} => (CHOOSE j \in Waker(h) : TRUE) \in Waker(h) OBVIOUS
<1>. QED BY <1>1, <1>2, <1>3, <1>4 DEF Outcome1

LEMMA SameReply ==
    ASSUME NEW g \in G, NEW h \in G \ {g}, Local(g), elem'[h] = elem[h],
           \/ wk'[g] = wk[g]
           \/ /\ wk[g] # None => wk[g].g # h
              /\ wk'[g] # None => wk'[g].g # h
    PROVE  Outcome1(h)' = Outcome1(h)
<1>1. /\ pc'[h] = pc[h] /\ op'[h] = op[h] /\ res'[h] = res[h]
      /\ done'[h] = done[h] /\ recvok'[h] = recvok[h]
      /\ \A j \in G \ {g} : wk'[j] = wk[j]
  BY DEF Local
<1>. QED BY <1>1, ReplyStays

\* A step of g that changes no reply but its own.
LEMMA OthersReply ==
    ASSUME NEW g \in G, Local(g), \A h \in G \ {g} : elem'[h] = elem[h],
           wk'[g] = wk[g]
    PROVE  replies' = [replies EXCEPT ![g] = Outcome1(g)']
<1>1. \A h \in G \ {g} : Outcome1(h)' = Outcome1(h) BY SameReply
<1>. QED BY <1>1 DEF replies

\* ... and the one of t, whom it goes to wake.
LEMMA WakesReply ==
    ASSUME NEW g \in G, NEW t \in G \ {g}, Local(g),
           \A h \in G \ {g, t} : elem'[h] = elem[h],
           wk[g] = None, wk'[g].g = t
    PROVE  replies' = [replies EXCEPT ![g] = Outcome1(g)', ![t] = Outcome1(t)']
<1>1. \A h \in G \ {g, t} : Outcome1(h)' = Outcome1(h) BY SameReply
<1>. QED BY <1>1 DEF replies

-----------------------------------------------------------------------------
(***************************************************************************)
(* The steps that nobody sees.                                             *)
(***************************************************************************)
AbsStep == [Abs!AbsNext]_(Abs!absVars)

LEMMA IsStutter ==
    ASSUME UNCHANGED <<cap, values, closed, op, replies, failed>>
    PROVE  AbsStep
BY DEF AbsStep, Abs!absVars

LEMMA SilentStep ==
    ASSUME Inv, Inv', NEW g \in G, Local(g), \A h \in G : elem'[h] = elem[h],
           UNCHANGED <<cap, ring, recvx, qcount, closed, op, failed>>,
           wk'[g] = wk[g], Outcome1(g)' = Outcome1(g)
    PROVE  AbsStep
<1>1. replies' = [replies EXCEPT ![g] = Outcome1(g)'] BY OthersReply
<1>2. replies' = replies BY <1>1 DEF replies
<1>. QED BY <1>2, SameValues, IsStutter

LEMMA OwnReply ==
    ASSUME Inv, NEW g \in G, pc[g] \notin {"parked", "woken"}
    PROVE  Outcome1(g) = res[g]
BY RepliesNow DEF ReplyAt

LEMMA OwnReplyNext ==
    ASSUME Inv', NEW g \in G, pc'[g] \notin {"parked", "woken"}
    PROVE  Outcome1(g)' = res'[g]
BY RepliesNext DEF ReplyAt

LEMMA QuietStep ==
    ASSUME Inv, Inv', NEW g \in G, Local(g), \A h \in G : elem'[h] = elem[h],
           UNCHANGED <<cap, ring, recvx, qcount, closed, op, failed>>,
           wk'[g] = wk[g], res'[g] = res[g],
           pc[g] \notin {"parked", "woken"}, pc'[g] \notin {"parked", "woken"}
    PROVE  AbsStep
<1>1. Outcome1(g)' = Outcome1(g) BY OwnReply, OwnReplyNext
<1>. QED BY <1>1, SilentStep

LEMMA LockStep ==
    ASSUME Inv, Inv', NEW g \in G, Lock(g) PROVE AbsStep
<1>. USE DEF Lock, At, Goto
<1>1. Local(g) BY DEF Local, Inv, TypeOK, flags
<1>2. pc[g] = "lock" /\ pc'[g] \in {"try", "lock"} BY DEF Inv, TypeOK
<1>. QED BY <1>1, <1>2, QuietStep DEF chans, flags

LEMMA SearchStep ==
    ASSUME Inv, Inv', NEW g \in G, TryNext(g) \/ Wait(g) PROVE AbsStep
<1>. USE DEF TryNext, Wait, At, Goto
<1>1. Local(g) BY DEF Local, Inv, TypeOK, flags
<1>2. pc[g] = "try" /\ pc'[g] \in {"try", "queue"} BY DEF Inv, TypeOK
<1>. QED BY <1>1, <1>2, QuietStep DEF chans, flags

LEMMA QueueStep ==
    ASSUME Inv, Inv', NEW g \in G, Queue(g) PROVE AbsStep
<1>. USE DEF Queue, At, Goto
<1>1. Local(g) BY DEF Local, Inv, TypeOK, flags
<1>2. pc[g] = "queue" /\ pc'[g] = "queue" BY DEF Inv, TypeOK
<1>. QED BY <1>1, <1>2, QuietStep DEF chans, flags

LEMMA CleanStep ==
    ASSUME Inv, Inv', NEW g \in G, Clean(g) PROVE AbsStep
<1>. USE DEF Clean, At, Goto
<1>1. Local(g) BY DEF Local, Inv, TypeOK, flags
<1>2. pc[g] = "clean" /\ pc'[g] = "clean" BY DEF Inv, TypeOK
<1>. QED BY <1>1, <1>2, QuietStep DEF chans, flags

LEMMA UnlockStep ==
    ASSUME Inv, Inv', NEW g \in G, Unlock(g) PROVE AbsStep
<1>. USE DEF Unlock, At, Goto, frame
<1>1. Local(g) BY DEF Local, Inv, TypeOK, flags
<1>2. pc[g] = "unlock" /\ pc'[g] = "return" BY DEF Inv, TypeOK
<1>. QED BY <1>1, <1>2, QuietStep DEF chans, flags

\* A select is never woken for no case.
LEMMA CleanDoneStep ==
    ASSUME Inv, Inv', NEW g \in G, CleanDone(g) PROVE AbsStep
<1>. USE DEF CleanDone, At, Goto
<1>1. pc[g] = "clean" /\ res[g].case = done[g] /\ done[g] \in DOMAIN Cases(g)
  BY DEF Inv, CallInv, CallOf
<1>2. res[g].case # 0 BY <1>1, CaseOf DEF Inv
<1>3. Goto(g, "return") /\ UNCHANGED <<at, todo, flags, res>> BY <1>2
<1>4. Local(g) BY <1>3 DEF Local, Inv, TypeOK, flags
<1>5. pc'[g] = "return" BY <1>3 DEF Inv, TypeOK
<1>. QED BY <1>1, <1>3, <1>4, <1>5, QuietStep DEF chans, flags

\* The call that is to be woken has not been woken by another one.
LEMMA WakeTestStep ==
    ASSUME Inv, Inv', NEW g \in G, WakeTest(g) PROVE AbsStep
<1>. USE DEF WakeTest, At, Goto, frame
<1>1. pc[g] = "wake" /\ wk[g] # None BY DEF Inv, CallInv, CallOf
<1>2. Live(wk[g])
  <2>. PICK w \in Waking : w = wk[g] BY <1>1 DEF Inv, TypeOK
  <2>. PICK t \in G : t = w.g BY DEF Waking
  <2>1. pc[t] = "parked" BY <1>1 DEF Inv, WakeInv, WokenBy
  <2>2. done[t] = 0 BY <2>1 DEF Inv, CallInv, CallOf, Clear
  <2>. QED BY <2>2 DEF Live
<1>3. Goto(g, "set") /\ UNCHANGED wk BY <1>2
<1>4. Local(g) BY <1>3 DEF Local, Inv, TypeOK, flags
<1>5. pc'[g] = "set" BY <1>3 DEF Inv, TypeOK
<1>. QED BY <1>1, <1>3, <1>4, <1>5, QuietStep DEF chans, flags

LEMMA ParkStep ==
    ASSUME Inv, Inv', NEW g \in G, Park(g) PROVE AbsStep
<1>. USE DEF Park, At, Goto
<1>1. Local(g) BY DEF Local, Inv, TypeOK, flags
<1>2. pc[g] = "queue" /\ pc'[g] = "parked" BY DEF Inv, TypeOK
<1>3. res[g] = None BY <1>2 DEF Inv, CallInv, CallOf, Deciding
<1>4. Outcome1(g) = None BY <1>2, <1>3, OwnReply
<1>5. \A h \in G : wk[h] # None => wk[h].g # g
  BY <1>2 DEF Inv, WakeInv, WokenBy
<1>6. Outcome1(g)' = None BY <1>2, <1>5, RepliesNext DEF ReplyAt
<1>. QED BY <1>1, <1>4, <1>6, SilentStep DEF chans, flags

\* The call that is readied has taken effect before.
LEMMA WakeSetStep ==
    ASSUME Inv, Inv', NEW g \in G, WakeSet(g) PROVE AbsStep
<1>. USE DEF WakeSet, At, frame
<1>1. pc[g] = "set" /\ wk[g] # None BY DEF Inv, CallInv, CallOf
<1>. PICK w \in Waking : w = wk[g] BY <1>1 DEF Inv, TypeOK
<1>. PICK t \in G : t = w.g BY DEF Waking
<1>2. pc[t] = "parked" /\ t # g BY <1>1 DEF Inv, WakeInv, WokenBy
<1>3. /\ pc'[t] = "woken" /\ done'[t] = w.i /\ recvok'[t] = w.ok
      /\ pc'[g] \notin {"parked", "woken"}
      /\ wk'[g] = None /\ \A h \in G \ {g} : wk'[h] = wk[h]
      /\ \A h \in G \ {g, t} : /\ pc'[h] = pc[h] /\ done'[h] = done[h]
                               /\ recvok'[h] = recvok[h]
  BY <1>2 DEF Inv, TypeOK
<1>4. \A i, ok : Value(t, i, ok)' = Value(t, i, ok) BY DEF Value
<1>5. Outcome1(t)' = Outcome1(t)
  <2>1. Outcome1(t) = Outcome(w.i, Value(t, w.i, w.ok), w.ok)
    BY <1>1, RepliesNow DEF ReplyAt
  <2>2. Outcome1(t)' = Outcome(done[t], Value(t, done[t], recvok[t]), recvok[t])'
    BY <1>3, RepliesNext DEF ReplyAt
  <2>3. Value(t, done[t], recvok[t])' = Value(t, w.i, w.ok)
    BY <1>3, <1>4 DEF Value
  <2>. QED BY <1>3, <2>1, <2>2, <2>3 DEF Outcome
<1>6. Outcome1(g)' = Outcome1(g) BY <1>1, <1>3, OwnReply, OwnReplyNext
<1>7. ASSUME NEW h \in G \ {g, t} PROVE Outcome1(h)' = Outcome1(h)
  <2>1. op'[h] = op[h] /\ res'[h] = res[h] /\ elem'[h] = elem[h] OBVIOUS
  <2>. QED BY ONLY <1>3, <2>1, w = wk[g], t = w.g, h \in G \ {g, t}, ReplyStays
<1>8. replies' = replies BY <1>5, <1>6, <1>7 DEF replies
<1>. QED BY <1>8, SameValues, IsStutter DEF chans

LEMMA ResumePlainStep ==
    ASSUME Inv, Inv', NEW g \in G, ResumePlain(g), failed' = failed
    PROVE  AbsStep
<1>. USE DEF ResumePlain, At, Goto, Reply
<1>1. pc[g] = "woken" /\ ~op[g].sel /\ ~failed OBVIOUS
<1>2. done[g] = 1 /\ at[g] = 1
  <2>1. done[g] \in DOMAIN Cases(g) BY <1>1 DEF Inv, CallInv, CallOf
  <2>. QED BY <1>1, <2>1, CaseOf, PlainCase DEF Inv
<1>3. CASE failed' = TRUE BY <1>1, <1>3
<1>4. CASE ~(This(g).dir = "send" /\ ~recvok[g])
  <2>. PICK v : v = IF This(g).dir = "recv" /\ recvok[g] THEN elem[g][1] ELSE None
    OBVIOUS
  <2>1. /\ pc' = [pc EXCEPT ![g] = "return"]
        /\ res' = [res EXCEPT ![g] = Outcome(1, v, recvok[g])]
    BY <1>4
  <2>2. v = Value(g, 1, recvok[g]) BY <1>2 DEF Value, This
  <2>3. pc'[g] = "return" /\ res'[g] = Outcome(1, v, recvok[g])
    BY <2>1 DEF Inv, TypeOK
  <2>4. Local(g) BY <2>1 DEF Local, Inv, TypeOK, flags
  <2>5. Outcome1(g) = Outcome(1, v, recvok[g])
    BY <1>1, <1>2, <2>2, RepliesNow DEF ReplyAt
  <2>6. Outcome1(g)' = Outcome1(g) BY <2>3, <2>5, OwnReplyNext
  <2>. QED BY <2>4, <2>6, SilentStep DEF chans
<1>. QED BY <1>3, <1>4

LEMMA ResumeSelectStep ==
    ASSUME Inv, Inv', NEW g \in G, ResumeSelect(g) PROVE AbsStep
<1>. USE DEF ResumeSelect, At, Goto, Reply
<1>1. pc[g] = "woken" OBVIOUS
<1>2. done[g] # 0
  <2>1. done[g] \in DOMAIN Cases(g) BY <1>1 DEF Inv, CallInv, CallOf
  <2>. QED BY <1>1, <2>1, CaseOf DEF Inv
<1>. PICK v : v = IF done[g] # 0 /\ recvok[g] /\ op[g].cases[done[g]].dir = "recv"
                  THEN elem[g][done[g]] ELSE None
  OBVIOUS
<1>3. /\ pc' = [pc EXCEPT ![g] = "clean"]
      /\ res' = [res EXCEPT ![g] = Outcome(done[g], v, recvok[g])]
  OBVIOUS
<1>4. v = Value(g, done[g], recvok[g]) BY <1>2 DEF Value
<1>5. pc'[g] = "clean" /\ res'[g] = Outcome(done[g], v, recvok[g])
  BY <1>3 DEF Inv, TypeOK
<1>6. Local(g) BY <1>3 DEF Local, Inv, TypeOK, flags
<1>7. Outcome1(g) = Outcome(done[g], v, recvok[g]) BY <1>1, <1>4, RepliesNow DEF ReplyAt
<1>8. Outcome1(g)' = Outcome1(g) BY <1>5, <1>7, OwnReplyNext
<1>. QED BY <1>6, <1>8, SilentStep DEF chans

-----------------------------------------------------------------------------
(***************************************************************************)
(* The steps in which calls begin, end, fail and take effect by themselves. *)
(***************************************************************************)
LEMMA InvokeStep ==
    ASSUME Inv, Inv', NEW g \in G, NEW o \in Calls, Call(g, o) PROVE AbsStep
<1>. USE DEF Call, Begin, At, Goto
<1>1. pc[g] = "idle" /\ ~failed /\ pc'[g] = "lock" BY DEF Inv, TypeOK
<1>2. op[g] = None BY <1>1 DEF Inv, CallInv, CallOf
<1>3. Local(g) /\ \A h \in G \ {g} : elem'[h] = elem[h]
  BY DEF Local, Inv, TypeOK, flags
<1>4. Outcome1(g)' = Outcome1(g) BY <1>1, OwnReply, OwnReplyNext
<1>5. replies' = replies BY <1>3, <1>4, OthersReply DEF replies
<1>6. values' = values BY SameValues DEF chans
<1>7. Abs!Invoke(g, o) BY <1>5, <1>6 DEF Abs!Invoke, chans
<1>. QED BY <1>1, <1>2, <1>7 DEF AbsStep, Abs!AbsNext

LEMMA ReturnStep ==
    ASSUME Inv, Inv', NEW g \in G, Return(g) PROVE AbsStep
<1>. USE DEF Return, At, Goto
<1>1. pc[g] = "return" /\ ~failed /\ pc'[g] = "idle" /\ res'[g] = None
  BY DEF Inv, TypeOK
<1>2. res[g] # None BY <1>1 DEF Inv, CallInv, CallOf, Deciding
<1>3. Local(g) /\ \A h \in G \ {g} : elem'[h] = elem[h]
  BY DEF Local, Inv, TypeOK, flags
<1>4. Outcome1(g) = res[g] /\ Outcome1(g)' = None BY <1>1, OwnReply, OwnReplyNext
<1>5. replies' = [replies EXCEPT ![g] = None] BY <1>3, <1>4, OthersReply
<1>6. replies[g] # None BY <1>2, <1>4 DEF replies
<1>7. values' = values BY SameValues DEF chans
<1>8. Abs!Return(g) BY <1>5, <1>6, <1>7 DEF Abs!Return, chans
<1>. QED BY <1>1, <1>8 DEF AbsStep, Abs!AbsNext

\* The case of a call.
LEMMA OnCase ==
    ASSUME Inv, NEW g \in G, pc[g] \notin {"idle", "clean", "return"}
    PROVE  /\ at[g] \in DOMAIN op[g].cases /\ op[g] # None
           /\ Abs!On(g, at[g]) = This(g).c
           /\ \A d : Abs!Offers(g, at[g], d) <=> This(g).dir = d
<1>1. at[g] \in DOMAIN op[g].cases BY ThisCase DEF Inv, Cases
<1>2. op[g] # None BY DEF Inv, CallInv, CallOf
<1>. QED BY <1>1, <1>2 DEF Abs!On, Abs!Offers, This

LEMMA IsFail ==
    ASSUME NEW g \in G, ~failed, failed' = TRUE, op[g] # None,
           UNCHANGED <<cap, values, closed, op, replies>>,
           NEW i \in DOMAIN op[g].cases, Abs!Fail(g, i)
    PROVE  AbsStep
BY DEF AbsStep, Abs!AbsNext

\* A throw of a call that has not gone through ...
LEMMA FailStep ==
    ASSUME Inv, Inv', NEW g \in G, At(g, "try"), This(g).dir # "recv",
           closed[This(g).c], failed' = TRUE,
           UNCHANGED <<chans, queues, lock, pc, frame, elem, flags, wk>>
    PROVE  AbsStep
<1>. USE DEF At, chans, frame, flags
<1>1. pc[g] = "try" /\ ~failed /\ op[g] # None /\ at[g] \in DOMAIN op[g].cases
  BY OnCase
<1>2. \A h \in G : Outcome1(h)' = Outcome1(h) BY DEF Outcome1, Waker, Value
<1>3. replies' = replies BY <1>2 DEF replies
<1>4. replies[g] = None
  <2>1. res[g] = None BY <1>1 DEF Inv, CallInv, CallOf, Deciding
  <2>. QED BY <1>1, <2>1, OwnReply DEF replies
<1>5. values' = values BY SameValues
<1>6. Abs!Fail(g, at[g]) BY <1>1, <1>3, <1>4, <1>5, OnCase DEF Abs!Fail
<1>. QED BY <1>1, <1>3, <1>5, <1>6, IsFail

\* ... and of a plain send that waited until its channel was closed.
LEMMA ResumeFailStep ==
    ASSUME Inv, Inv', NEW g \in G, ResumePlain(g), failed' # failed
    PROVE  AbsStep
<1>. USE DEF ResumePlain, At, chans
<1>1. /\ pc[g] = "woken" /\ ~op[g].sel /\ ~failed
      /\ This(g).dir = "send" /\ ~recvok[g] /\ failed' = TRUE /\ UNCHANGED <<pc, res>>
  BY DEF Inv, TypeOK
<1>2. done[g] = 1 /\ at[g] = 1 /\ closed[This(g).c]
  <2>1. done[g] \in DOMAIN Cases(g) /\ closed[Cases(g)[done[g]].c]
    BY <1>1 DEF Inv, CallInv, CallOf
  <2>. QED BY <1>1, <2>1, CaseOf, PlainCase DEF Inv
<1>3. \A h \in G : Outcome1(h)' = Outcome1(h)
  BY <1>1 DEF Outcome1, Waker, Value, flags
<1>4. replies' = replies BY <1>3 DEF replies
<1>5. replies[g] = Abs!Closed(at[g])
  <2>1. Outcome1(g) = Outcome(1, Value(g, 1, recvok[g]), recvok[g])
    BY <1>1, <1>2, RepliesNow DEF ReplyAt
  <2>2. recvok[g] = FALSE BY <1>1 DEF Inv, TypeOK
  <2>3. Value(g, 1, recvok[g]) = None BY <2>2 DEF Value
  <2>. QED BY <1>2, <2>1, <2>2, <2>3 DEF replies, Outcome, Abs!Closed, Abs!Outcome
<1>6. values' = values BY SameValues
<1>7. op[g] # None /\ at[g] \in DOMAIN op[g].cases BY <1>1, OnCase
<1>8. Abs!Fail(g, at[g]) BY <1>1, <1>2, <1>4, <1>5, <1>6, OnCase DEF Abs!Fail
<1>. QED BY <1>1, <1>4, <1>6, <1>7, <1>8, IsFail

\* A call takes effect.
LEMMA TakesEffect ==
    ASSUME NEW g \in G, ~failed, Abs!Pending(g), Abs!TakeEffect(g)
    PROVE  AbsStep
BY DEF AbsStep, Abs!AbsNext

LEMMA Tries ==
    ASSUME Inv, NEW g \in G, At(g, "try")
    PROVE  /\ ~failed /\ Abs!Pending(g) /\ at[g] \in DOMAIN op[g].cases
           /\ pc[g] = "try" /\ wk[g] = None /\ This(g).c \in C
           /\ Abs!On(g, at[g]) = This(g).c
           /\ \A d : Abs!Offers(g, at[g], d) <=> This(g).dir = d
<1>1. pc[g] = "try" /\ ~failed BY DEF At
<1>2. res[g] = None /\ wk[g] = None BY <1>1 DEF Inv, CallInv, CallOf, Deciding
<1>3. replies[g] = None BY <1>1, <1>2, OwnReply DEF replies
<1>. QED BY <1>1, <1>2, <1>3, OnCase, ThisCase DEF Abs!Pending, Inv

LEMMA SendBufferStep ==
    ASSUME Inv, Inv', NEW g \in G, At(g, "try"), NEW c \in C, c = This(g).c,
           This(g).dir = "send", ~closed[c],
           SendBuffer(g, c), Reply(g, at[g], None, TRUE),
           UNCHANGED <<lock, op, at, todo, flags, failed>>
    PROVE  AbsStep
<1>. USE DEF SendBuffer, Goto, Reply
<1>1. Local(g) BY DEF Local, Inv, TypeOK, flags
<1>2. pc'[g] = "unlock" /\ res'[g] = Abs!Sent(at[g])
  BY DEF Inv, TypeOK, Outcome, Abs!Sent, Abs!Outcome
<1>3. replies' = [replies EXCEPT ![g] = Abs!Sent(at[g])]
  BY <1>1, <1>2, OthersReply, OwnReplyNext
<1>4. values' = [values EXCEPT ![c] = Append(@, g)]
  <2>1. RingTo(c, [ring[c] EXCEPT ![sendx[c]] = g], recvx[c], qcount[c] + 1)
    BY DEF RingTo, Inv, TypeOK
  <2>. QED BY <2>1, ValuesAdd
<1>5. Len(values[c]) < cap[c] BY ValuesOf
<1>6. Abs!Send(g, at[g]) BY <1>3, <1>4, <1>5, Tries DEF Abs!Send, Abs!Same
<1>. QED BY <1>6, Tries, TakesEffect DEF Abs!TakeEffect

LEMMA RecvClosedStep ==
    ASSUME Inv, Inv', NEW g \in G, At(g, "try"), NEW c \in C, c = This(g).c,
           This(g).dir = "recv", RecvClosed(g, c),
           UNCHANGED <<lock, op, at, todo, flags, failed>>
    PROVE  AbsStep
<1>. USE DEF RecvClosed, Goto, Reply, chans
<1>1. Local(g) BY DEF Local, Inv, TypeOK, flags
<1>2. pc'[g] = "unlock" /\ res'[g] = Abs!Closed(at[g])
  BY DEF Inv, TypeOK, Outcome, Abs!Closed, Abs!Outcome
<1>3. replies' = [replies EXCEPT ![g] = Abs!Closed(at[g])]
  BY <1>1, <1>2, OthersReply, OwnReplyNext
<1>4. values' = values BY SameValues
<1>5. values[c] = <<>> BY ValuesOf
<1>6. Abs!Drained(g, at[g]) BY <1>3, <1>4, <1>5, Tries DEF Abs!Drained, Abs!Same
<1>. QED BY <1>6, Tries, TakesEffect DEF Abs!TakeEffect

LEMMA CloseStep ==
    ASSUME Inv, Inv', NEW g \in G, Close(g), ~closed[This(g).c]
    PROVE  AbsStep
<1>. PICK c \in C : c = This(g).c BY ThisCase DEF Inv, Close, At
<1>. USE DEF Close, Goto, Reply
<1>0. At(g, "try") /\ This(g).dir = "close" OBVIOUS
<1>1. Local(g) BY DEF Local, Inv, TypeOK, flags
<1>2. pc'[g] = "drain" /\ res'[g] = Abs!Closed(1)
  BY DEF Inv, TypeOK, Outcome, Abs!Closed, Abs!Outcome
<1>3. replies' = [replies EXCEPT ![g] = Abs!Closed(1)]
  BY <1>1, <1>2, OthersReply, OwnReplyNext
<1>4. values' = values BY SameValues
<1>5. at[g] = 1
  <2>1. pc[g] = "try" BY DEF At
  <2>2. ~op[g].sel BY <1>0, <2>1, OpOf, ThisCase DEF Inv
  <2>. QED BY <2>1, <2>2, PlainCase
<1>6. Abs!Shut(g, at[g]) BY <1>0, <1>3, <1>4, <1>5, Tries DEF Abs!Shut
<1>. QED BY <1>0, <1>6, Tries, TakesEffect DEF Abs!TakeEffect

LEMMA DeclineStep ==
    ASSUME Inv, Inv', NEW g \in G, Decline(g) PROVE AbsStep
<1>. USE DEF Decline, Goto, Reply
<1>0. At(g, "try") /\ pc[g] = "try" BY DEF At
<1>1. Local(g) BY DEF Local, Inv, TypeOK, flags
<1>2. pc'[g] = "unlock" /\ res'[g] = Abs!Declined
  BY DEF Inv, TypeOK, Outcome, Abs!Declined, Abs!Outcome
<1>3. replies' = [replies EXCEPT ![g] = Abs!Declined]
  BY <1>1, <1>2, OthersReply, OwnReplyNext
<1>4. values' = values BY SameValues DEF chans
<1>5. ASSUME NEW i \in DOMAIN op[g].cases
      PROVE  /\ ~closed[Abs!On(g, i)]
             /\ Abs!Offers(g, i, "send") => Len(values[Abs!On(g, i)]) = cap[Abs!On(g, i)]
             /\ Abs!Offers(g, i, "recv") => values[Abs!On(g, i)] = <<>>
  <2>. USE DEF Abs!On, Abs!Offers
  <2>. PICK c \in C : c = op[g].cases[i].c BY <1>0, CaseOf DEF Inv, Cases
  <2>1. Len(values[c]) = qcount[c] /\ (qcount[c] = 0 => values[c] = <<>>)
    BY ValuesOf
  <2>2. CASE i = at[g] BY <1>0, <2>1, <2>2 DEF Stuck, This
  <2>3. CASE i < at[g]
    <3>1. CaseStuck(g, i) BY <1>0, <2>3 DEF Inv, TriedInv, Cases
    <3>. QED BY <2>1, <3>1 DEF CaseStuck, Cases
  <2>4. i = at[g] \/ i < at[g]
    <3>1. DOMAIN op[g].cases = 1 .. Len(op[g].cases) /\ Len(op[g].cases) \in Nat
      BY <1>0, OpOf DEF Inv, Cases
    <3>. QED BY <3>1 DEF LastCase
  <2>. QED BY <2>2, <2>3, <2>4
<1>6. Abs!Decline(g) BY <1>3, <1>4, <1>5 DEF Abs!Decline, Abs!Same, chans
<1>. QED BY <1>0, <1>6, Tries, TakesEffect DEF Abs!TakeEffect

-----------------------------------------------------------------------------
(***************************************************************************)
(* The steps in which a call takes effect with one that waits.             *)
(***************************************************************************)

\* A record that counts says that its call has not taken effect.
LEMMA WaiterPending ==
    ASSUME Inv, OneThreadOrPlain, NEW g \in G, pc[g] \in {"try", "drain"},
           NEW c \in C, c = This(g).c, NEW d \in Dirs,
           NEW k \in FirstLive(Q(d, c)), NEW r, r = Q(d, c)[k]
    PROVE  /\ r.g \in G \ {g} /\ Abs!Pending(r.g) /\ r.i \in DOMAIN op[r.g].cases
           /\ op[r.g].cases[r.i] = [dir |-> d, c |-> c]
           /\ r.i \in DOMAIN elem[r.g]
<1>1. /\ r \in Record /\ r.g \in G \ {g} /\ pc[r.g] = "parked" /\ RecordOf(r, d, c)
      /\ \A h \in G : wk[h] # None => wk[h].g # r.g
  BY FoundWaiter
<1>. PICK t \in G : t = r.g BY <1>1
<1>2. Outcome1(t) = None BY <1>1, RepliesNow DEF ReplyAt
<1>3. op[t] # None /\ DOMAIN elem[t] = DOMAIN Cases(t)
  BY <1>1 DEF Inv, CallInv, CallOf
<1>4. Cases(t)[r.i] = [dir |-> d, c |-> c] /\ r.i \in DOMAIN Cases(t)
  BY <1>1 DEF RecordOf
<1>. QED BY <1>1, <1>2, <1>3, <1>4 DEF Abs!Pending, replies, Cases

\* Its call takes effect when the record is taken out of its queue.
LEMMA WaiterReply ==
    ASSUME Inv, Inv', NEW g \in G, NEW r, NEW ok \in BOOLEAN, ToWake(g, r, ok),
           r.g \in G, op' = op
    PROVE  /\ wk'[g] # None /\ wk'[g].g = r.g /\ pc'[g] = "wake"
           /\ Outcome1(r.g)' =
                Outcome(r.i, IF ok /\ op[r.g].cases[r.i].dir = "recv"
                             THEN elem'[r.g][r.i] ELSE None, ok)
<1>. PICK t \in G : t = r.g OBVIOUS
<1>. PICK i : i = r.i OBVIOUS
<1>1. wk' = [wk EXCEPT ![g] = [g |-> t, i |-> i, sel |-> r.sel, ok |-> ok]]
      /\ pc' = [pc EXCEPT ![g] = "wake"]
  BY DEF ToWake, Goto
<1>2. wk'[g] = [g |-> t, i |-> i, sel |-> r.sel, ok |-> ok] /\ pc'[g] = "wake"
  BY <1>1 DEF Inv, TypeOK
<1>3. wk'[g] # None BY <1>2 DEF Inv, CallInv, CallOf
<1>4. ReplyAt(t)' BY RepliesNext
<1>5. Outcome1(t)' = Outcome(wk[g].i, Value(t, wk[g].i, wk[g].ok), wk[g].ok)'
  BY <1>2, <1>3, <1>4 DEF ReplyAt
<1>6. Value(t, wk[g].i, wk[g].ok)' =
        IF ok /\ op[t].cases[i].dir = "recv" THEN elem'[t][i] ELSE None
  BY <1>2 DEF Value
<1>7. Outcome(wk[g].i, Value(t, wk[g].i, wk[g].ok), wk[g].ok)' =
        Outcome(i, Value(t, wk[g].i, wk[g].ok)', ok)
  BY <1>2 DEF Outcome
<1>. QED BY <1>2, <1>3, <1>5, <1>6, <1>7

\* A goroutine that waits at a channel whose lock g holds to send or receive.
LEMMA FoundRoom ==
    ASSUME Inv, NEW g \in G, At(g, "try"), NEW c \in C, c = This(g).c,
           This(g).dir # "close", NEW d \in Dirs, FirstLive(Q(d, c)) # {}
    PROVE  /\ ~closed[c]
           /\ d = "recv" => qcount[c] = 0
           /\ d = "send" => qcount[c] = cap[c]
<1>1. Waiters(Q(d, c)) # {} BY FirstLiveWaiters DEF Inv
<1>2. WaitersOf(c) BY DEF Inv, WaitersInv
<1>3. ~Closing(c)
  <2>1. pc[g] = "try" BY DEF At
  <2>2. lock[c] = g BY <2>1, ThisCase, HoldsLocks DEF Inv, Locking
  <2>. QED BY <2>1, <2>2 DEF Closing
<1>. QED BY <1>1, <1>2, <1>3 DEF WaitersOf, Q, Dirs

LEMMA SendDirectStep ==
    ASSUME Inv, Inv', OneThreadOrPlain, NEW g \in G, At(g, "try"), NEW c \in C,
           c = This(g).c, This(g).dir = "send",
           NEW k \in FirstLive(recvq[c]), NEW r, r = recvq[c][k],
           elem' = [elem EXCEPT ![r.g][r.i] = g], ToWake(g, r, TRUE),
           Reply(g, at[g], None, TRUE),
           UNCHANGED <<chans, op, at, todo, flags, failed>>
    PROVE  AbsStep
<1>1. pc[g] \in {"try", "drain"} /\ c = This(g).c BY DEF At
<1>. PICK d \in Dirs : d = "recv" BY DEF Dirs
<1>2. k \in FirstLive(Q(d, c)) /\ r = Q(d, c)[k] BY DEF Q
<1>3. /\ elem' = [elem EXCEPT ![r.g][r.i] = g] /\ ToWake(g, r, TRUE)
      /\ UNCHANGED chans
  OBVIOUS
<1>4. /\ r.g \in G \ {g} /\ Abs!Pending(r.g) /\ r.i \in DOMAIN op[r.g].cases
      /\ op[r.g].cases[r.i] = [dir |-> d, c |-> c]
      /\ r.i \in DOMAIN elem[r.g]
  BY ONLY <1>1, <1>2, WaiterPending, Inv, OneThreadOrPlain, g \in G, c \in C, d \in Dirs
<1>. PICK t \in G : t = r.g BY <1>4
<1>. PICK i : i = r.i OBVIOUS
<1>5. /\ \A h \in G : DOMAIN elem'[h] = DOMAIN elem[h]
      /\ \A h \in G \ {t} : elem'[h] = elem[h]
      /\ elem'[t][i] = g
  <2>1. /\ TypeOK /\ t \in G /\ i \in DOMAIN elem[t] /\ g \in G \cup {None}
        /\ elem' = [elem EXCEPT ![t][i] = g]
    BY <1>3, <1>4 DEF Inv
  <2>2. /\ \A h \in G : DOMAIN elem'[h] = DOMAIN elem[h]
        /\ \A h \in G \ {t} : elem'[h] = elem[h]
        /\ elem'[t] = [elem[t] EXCEPT ![i] = g]
    BY ONLY <2>1, ElemType
  <2>. QED BY <2>1, <2>2
<1>6. Local(g)
  <2>1. \A h \in G \ {g} : pc'[h] = pc[h] /\ wk'[h] = wk[h]
    <3>1. pc \in [G -> PCs] /\ wk \in [G -> Waking \cup {None}] BY DEF Inv, TypeOK
    <3>. QED BY ONLY <1>3, <3>1 DEF ToWake, Goto
  <2>2. \A h \in G \ {g} : res'[h] = res[h]
    <3>1. res \in [G -> Outcomes \cup {None}] BY DEF Inv, TypeOK
    <3>. QED BY ONLY Reply(g, at[g], None, TRUE), <3>1 DEF Reply
  <2>3. UNCHANGED <<op, at, todo, flags>> OBVIOUS
  <2>. QED BY ONLY <1>5, <2>1, <2>2, <2>3 DEF Local, flags
<1>7. /\ wk'[g].g = t /\ pc'[g] = "wake"
      /\ Outcome1(t)' = Outcome(i, IF TRUE /\ op[t].cases[i].dir = "recv"
                                   THEN elem'[t][i] ELSE None, TRUE)
  <2>1. t \in G /\ op' = op OBVIOUS
  <2>2. /\ wk'[g] # None /\ wk'[g].g = r.g /\ pc'[g] = "wake"
        /\ Outcome1(r.g)' = Outcome(r.i, IF TRUE /\ op[r.g].cases[r.i].dir = "recv"
                                         THEN elem'[r.g][r.i] ELSE None, TRUE)
    BY ONLY <1>3, <2>1, t = r.g, Inv, Inv', g \in G, WaiterReply
  <2>. QED BY ONLY <2>2, t = r.g, i = r.i
<1>8. Outcome1(t)' = Abs!Received(i, g)
  <2>1. op[t].cases[i].dir = "recv" BY ONLY <1>4, t = r.g, i = r.i, d = "recv"
  <2>. QED BY ONLY <1>5, <1>7, <2>1 DEF Abs!Received, Abs!Outcome, Outcome
<1>9. Outcome1(g)' = Abs!Sent(at[g])
  <2>1. res'[g] = Abs!Sent(at[g])
    BY DEF Reply, Inv, TypeOK, Outcome, Abs!Sent, Abs!Outcome
  <2>. QED BY <1>7, <2>1, OwnReplyNext
<1>10. replies' = [replies EXCEPT ![g] = Abs!Sent(at[g]), ![t] = Abs!Received(i, g)]
  <2>1. wk[g] = None BY Tries
  <2>2. t \in G \ {g} /\ \A h \in G \ {g, t} : elem'[h] = elem[h] BY <1>4, <1>5
  <2>3. replies' = [replies EXCEPT ![g] = Outcome1(g)', ![t] = Outcome1(t)']
    BY ONLY <1>6, <1>7, <2>1, <2>2, g \in G, WakesReply
  <2>. QED BY <1>8, <1>9, <2>3
<1>11. values' = values BY <1>3, SameValues DEF chans
<1>12. ~closed[c] /\ values[c] = <<>>
  <2>1. FirstLive(Q(d, c)) # {} BY <1>2
  <2>. QED BY <2>1, FoundRoom, ValuesOf
<1>13. Abs!Exchange(g, at[g], t, i)
  <2>1. Abs!On(t, i) = c /\ Abs!Offers(t, i, "recv")
    BY ONLY <1>4, t = r.g, i = r.i, d = "recv" DEF Abs!On, Abs!Offers
  <2>2. Abs!On(g, at[g]) = c /\ Abs!Offers(g, at[g], "send") BY Tries
  <2>3. UNCHANGED <<cap, closed, op, failed>> BY <1>3 DEF chans
  <2>. QED BY ONLY <1>10, <1>11, <1>12, <2>1, <2>2, <2>3 DEF Abs!Exchange, Abs!Same
<1>. QED
  <2>1. t \in G \ {g} /\ Abs!Pending(t) /\ i \in DOMAIN op[t].cases BY <1>4
  <2>2. Abs!TakeEffect(g) BY <1>13, <2>1, Tries DEF Abs!TakeEffect
  <2>. QED BY <2>2, Tries, TakesEffect

Gets(g, v) == elem' = [elem EXCEPT ![g][at[g]] = v] /\ Reply(g, at[g], v, TRUE)

\* t's case i, a send, goes through together with g's, which receives v.
SendsTo(t, i, g, c, v) ==
    /\ t \in G \ {g} /\ Abs!Pending(t) /\ i \in DOMAIN op[t].cases
    /\ Abs!On(t, i) = c /\ Abs!Offers(t, i, "send")
    /\ replies' = [replies EXCEPT ![t] = Abs!Sent(i), ![g] = Abs!Received(at[g], v)]

\* A receive that is matched with a waiting sender.
LEMMA SenderReply ==
    ASSUME Inv, Inv', OneThreadOrPlain, NEW g \in G, At(g, "try"), NEW c \in C,
           c = This(g).c, This(g).dir = "recv",
           NEW k \in FirstLive(sendq[c]), NEW r, r = sendq[c][k],
           NEW v \in G \cup {None}, Gets(g, v), ToWake(g, r, TRUE),
           UNCHANGED <<op, at, todo, flags, failed>>
    PROVE  SendsTo(r.g, r.i, g, c, v)
<1>0. elem' = [elem EXCEPT ![g][at[g]] = v] /\ Reply(g, at[g], v, TRUE) BY DEF Gets
<1>1. pc[g] \in {"try", "drain"} /\ c = This(g).c BY DEF At
<1>. PICK d \in Dirs : d = "send" BY DEF Dirs
<1>2. k \in FirstLive(Q(d, c)) /\ r = Q(d, c)[k] BY DEF Q
<1>3. /\ r.g \in G \ {g} /\ Abs!Pending(r.g) /\ r.i \in DOMAIN op[r.g].cases
      /\ op[r.g].cases[r.i] = [dir |-> d, c |-> c]
      /\ r.i \in DOMAIN elem[r.g]
  BY ONLY <1>1, <1>2, WaiterPending, Inv, OneThreadOrPlain, g \in G, c \in C, d \in Dirs
<1>. PICK t \in G \ {g} : t = r.g BY <1>3
<1>. PICK i : i = r.i OBVIOUS
<1>4. op[t].cases[i].dir = "send" /\ op[t].cases[i].c = c
  BY ONLY <1>3, t = r.g, i = r.i, d = "send"
<1>5. /\ \A h \in G : DOMAIN elem'[h] = DOMAIN elem[h]
      /\ \A h \in G \ {g} : elem'[h] = elem[h]
  <2>1. /\ TypeOK /\ at[g] \in DOMAIN elem[g] /\ elem' = [elem EXCEPT ![g][at[g]] = v]
    BY <1>0, <1>1, ThisCase DEF Inv, CallInv, CallOf
  <2>. QED BY ONLY <2>1, g \in G, v \in G \cup {None}, ElemType
<1>6. Local(g)
  <2>1. \A h \in G \ {g} : pc'[h] = pc[h] /\ wk'[h] = wk[h]
    <3>1. pc \in [G -> PCs] /\ wk \in [G -> Waking \cup {None}] BY DEF Inv, TypeOK
    <3>. QED BY ONLY ToWake(g, r, TRUE), <3>1 DEF ToWake, Goto
  <2>2. \A h \in G \ {g} : res'[h] = res[h]
    <3>1. res \in [G -> Outcomes \cup {None}] BY DEF Inv, TypeOK
    <3>. QED BY ONLY <1>0, <3>1 DEF Reply
  <2>3. UNCHANGED <<op, at, todo, flags>> OBVIOUS
  <2>. QED BY ONLY <1>5, <2>1, <2>2, <2>3 DEF Local, flags
<1>7. /\ wk'[g].g = t /\ pc'[g] = "wake"
      /\ Outcome1(t)' = Outcome(i, IF TRUE /\ op[t].cases[i].dir = "recv"
                                   THEN elem'[t][i] ELSE None, TRUE)
  <2>1. r.g \in G /\ op' = op BY <1>3
  <2>2. /\ wk'[g] # None /\ wk'[g].g = r.g /\ pc'[g] = "wake"
        /\ Outcome1(r.g)' = Outcome(r.i, IF TRUE /\ op[r.g].cases[r.i].dir = "recv"
                                         THEN elem'[r.g][r.i] ELSE None, TRUE)
    BY ONLY <2>1, ToWake(g, r, TRUE), Inv, Inv', g \in G, WaiterReply
  <2>. QED BY ONLY <2>2, t = r.g, i = r.i
<1>8. Outcome1(t)' = Abs!Sent(i)
  BY ONLY <1>4, <1>7 DEF Abs!Sent, Abs!Outcome, Outcome
<1>9. Outcome1(g)' = Abs!Received(at[g], v)
  <2>1. res \in [G -> Outcomes \cup {None}] BY DEF Inv, TypeOK
  <2>2. res'[g] = Outcome(at[g], v, TRUE)
    BY ONLY <2>1, g \in G, <1>0 DEF Reply
  <2>3. Outcome1(g)' = res'[g] BY ONLY <1>7, Inv', g \in G, OwnReplyNext
  <2>. QED BY ONLY <2>2, <2>3 DEF Outcome, Abs!Received, Abs!Outcome
<1>10. replies' = [replies EXCEPT ![t] = Abs!Sent(i), ![g] = Abs!Received(at[g], v)]
  <2>1. wk[g] = None BY Tries
  <2>2. t \in G \ {g} /\ \A h \in G \ {g, t} : elem'[h] = elem[h] BY <1>5
  <2>3. replies' = [replies EXCEPT ![g] = Outcome1(g)', ![t] = Outcome1(t)']
    BY ONLY <1>6, <1>7, <2>1, <2>2, g \in G, WakesReply
  <2>4. [replies EXCEPT ![g] = Outcome1(g)', ![t] = Outcome1(t)'] =
        [replies EXCEPT ![t] = Outcome1(t)', ![g] = Outcome1(g)']
    BY ONLY t \in G \ {g}
  <2>. QED BY ONLY <1>8, <1>9, <2>3, <2>4
<1>. QED
  BY ONLY <1>3, <1>4, <1>10, t = r.g, i = r.i, t \in G \ {g}
     DEF Abs!On, Abs!Offers, SendsTo

LEMMA RecvDirectStep ==
    ASSUME Inv, Inv', OneThreadOrPlain, NEW g \in G, At(g, "try"), NEW c \in C,
           c = This(g).c, This(g).dir = "recv", qcount[c] = 0,
           NEW k \in FirstLive(sendq[c]), NEW r, r = sendq[c][k],
           Gets(g, r.g), ToWake(g, r, TRUE),
           UNCHANGED <<chans, op, at, todo, flags, failed>>
    PROVE  AbsStep
<1>1. r.g \in G
  <2>. PICK d \in Dirs : d = "send" BY DEF Dirs
  <2>1. k \in FirstLive(Q(d, c)) /\ r = Q(d, c)[k] BY DEF Q
  <2>2. pc[g] \in {"try", "drain"} BY DEF At
  <2>. QED BY ONLY <2>1, <2>2, FoundWaiter, Inv, OneThreadOrPlain, g \in G, c \in C,
                   d \in Dirs, c = This(g).c
<1>. PICK t \in G : t = r.g BY <1>1
<1>. PICK i : i = r.i OBVIOUS
<1>2. /\ t \in G \ {g} /\ Abs!Pending(t) /\ i \in DOMAIN op[t].cases
      /\ Abs!On(t, i) = c /\ Abs!Offers(t, i, "send")
      /\ replies' = [replies EXCEPT ![t] = Abs!Sent(i), ![g] = Abs!Received(at[g], t)]
  <2>1. UNCHANGED <<op, at, todo, flags, failed>> OBVIOUS
  <2>2. r.g \in G \cup {None} BY <1>1
  <2>3. SendsTo(r.g, r.i, g, c, r.g)
    BY ONLY <2>1, <2>2, SenderReply, Inv, Inv', OneThreadOrPlain, g \in G,
            At(g, "try"), c \in C, c = This(g).c, This(g).dir = "recv",
            k \in FirstLive(sendq[c]), r = sendq[c][k],
            Gets(g, r.g), ToWake(g, r, TRUE)
  <2>. QED BY ONLY <2>3, t = r.g, i = r.i DEF SendsTo
<1>3. values' = values BY SameValues DEF chans
<1>4. ~closed[c] /\ values[c] = <<>>
  <2>. PICK d \in Dirs : d = "send" BY DEF Dirs
  <2>1. FirstLive(Q(d, c)) # {} BY DEF Q
  <2>. QED BY <2>1, FoundRoom, ValuesOf
<1>5. /\ Abs!On(g, at[g]) = c /\ Abs!Offers(g, at[g], "recv") /\ Abs!Pending(g)
      /\ at[g] \in DOMAIN op[g].cases /\ ~failed
  BY Tries
<1>6. Abs!Exchange(t, i, g, at[g])
  <2>1. UNCHANGED <<cap, closed, op, failed>> BY DEF chans
  <2>. QED BY ONLY <1>2, <1>3, <1>4, <1>5, <2>1 DEF Abs!Exchange, Abs!Same
<1>7. Abs!TakeEffect(t)
  BY ONLY <1>2, <1>5, <1>6, g \in G DEF Abs!TakeEffect
<1>. QED BY ONLY <1>2, <1>5, <1>7, TakesEffect

\* The oldest value.
LEMMA OldestValue ==
    ASSUME Inv, NEW c \in C, qcount[c] > 0
    PROVE  /\ ring[c][recvx[c]] \in G \cup {None} /\ values[c] # <<>>
           /\ Head(values[c]) = ring[c][recvx[c]]
<1>1. qcount[c] # 0 /\ cap[c] # 0 BY ChanAssumption DEF Inv, TypeOK
<1>2. recvx[c] \in 0 .. (cap[c] - 1) BY <1>1, RingPlaces DEF Inv
<1>3. ring[c] \in [0 .. (cap[c] - 1) -> G \cup {None}] BY DEF Inv, TypeOK
<1>. QED BY <1>1, <1>2, <1>3, ValuesOf

LEMMA RecvStep ==
    ASSUME Inv, Inv', NEW g \in G, At(g, "try"), NEW c \in C, c = This(g).c,
           This(g).dir = "recv", qcount[c] > 0, Gets(g, ring[c][recvx[c]]),
           recvx' = [recvx EXCEPT ![c] = Inc(c, @)],
           qcount' = [qcount EXCEPT ![c] = @ - 1], Goto(g, "unlock"),
           UNCHANGED <<cap, ring, closed, wk, op, at, todo, flags, failed>>
    PROVE  AbsStep
<1>. PICK v \in G \cup {None} : v = ring[c][recvx[c]] BY OldestValue
<1>1. elem' = [elem EXCEPT ![g][at[g]] = v] /\ Reply(g, at[g], v, TRUE) BY DEF Gets
<1>2. elem \in [G -> Seq(G \cup {None})] /\ at[g] \in DOMAIN elem[g]
  BY ThisCase DEF Inv, TypeOK, CallInv, CallOf, At
<1>3. DOMAIN elem'[g] = DOMAIN elem[g] /\ \A h \in G \ {g} : elem'[h] = elem[h]
  BY <1>1, <1>2, ElemType DEF Inv
<1>4. pc'[g] = "unlock" /\ res'[g] = Abs!Received(at[g], v)
  BY <1>1 DEF Inv, TypeOK, Goto, Reply, Outcome, Abs!Received, Abs!Outcome
<1>5. Local(g) BY <1>1, <1>3 DEF Local, Inv, TypeOK, Goto, Reply, flags
<1>6. replies' = [replies EXCEPT ![g] = Abs!Received(at[g], v)]
  BY <1>3, <1>4, <1>5, OthersReply, OwnReplyNext
<1>7. values' = [values EXCEPT ![c] = Tail(@)]
  <2>1. RingTo(c, ring[c], Inc(c, recvx[c]), qcount[c] - 1)
    BY DEF RingTo, Inv, TypeOK
  <2>. QED BY <2>1, ValuesTake
<1>8. values[c] # <<>> /\ Head(values[c]) = v BY OldestValue
<1>9. Abs!Recv(g, at[g]) BY <1>6, <1>7, <1>8, Tries DEF Abs!Recv, Abs!Same
<1>. QED BY <1>9, Tries, TakesEffect DEF Abs!TakeEffect

LEMMA RefillStep ==
    ASSUME Inv, Inv', OneThreadOrPlain, NEW g \in G, At(g, "try"), NEW c \in C,
           c = This(g).c, This(g).dir = "recv", qcount[c] > 0,
           Gets(g, ring[c][recvx[c]]), NEW k \in FirstLive(sendq[c]),
           NEW r, r = sendq[c][k], ToWake(g, r, TRUE),
           recvx' = [recvx EXCEPT ![c] = Inc(c, @)],
           ring' = [ring EXCEPT ![c][sendx[c]] = r.g],
           UNCHANGED <<cap, qcount, closed, op, at, todo, flags, failed>>
    PROVE  AbsStep
<1>. PICK v \in G \cup {None} : v = ring[c][recvx[c]] BY OldestValue
<1>. PICK t, i : t = r.g /\ i = r.i OBVIOUS
<1>1. SendsTo(t, i, g, c, v)
  <2>1. UNCHANGED <<op, at, todo, flags, failed>> /\ Gets(g, v) OBVIOUS
  <2>2. SendsTo(r.g, r.i, g, c, v)
    BY ONLY <2>1, SenderReply, Inv, Inv', OneThreadOrPlain, g \in G,
            At(g, "try"), c \in C, c = This(g).c, This(g).dir = "recv",
            k \in FirstLive(sendq[c]), r = sendq[c][k], v \in G \cup {None},
            ToWake(g, r, TRUE)
  <2>. QED BY ONLY <2>2, t = r.g, i = r.i
<1>2. /\ t \in G \ {g} /\ Abs!Pending(t) /\ i \in DOMAIN op[t].cases
      /\ Abs!On(t, i) = c /\ Abs!Offers(t, i, "send")
      /\ replies' = [replies EXCEPT ![t] = Abs!Sent(i), ![g] = Abs!Received(at[g], v)]
  BY ONLY <1>1 DEF SendsTo
<1>3. ~closed[c] /\ qcount[c] = cap[c]
  <2>. PICK d \in Dirs : d = "send" BY DEF Dirs
  <2>1. FirstLive(Q(d, c)) # {} BY DEF Q
  <2>. QED BY <2>1, FoundRoom
<1>4. values' = [values EXCEPT ![c] = Append(Tail(@), t)]
  <2>1. recvx \in [C -> Nat] /\ DOMAIN ring = C BY DEF Inv, TypeOK
  <2>2. RingTo(c, [ring[c] EXCEPT ![sendx[c]] = t], Inc(c, recvx[c]), qcount[c])
    BY <2>1 DEF RingTo
  <2>. QED BY <1>2, <1>3, <2>2, ValuesTurn
<1>5. /\ values[c] # <<>> /\ Head(values[c]) = v /\ Len(values[c]) = cap[c]
  BY <1>3, OldestValue, ValuesOf
<1>6. /\ Abs!On(g, at[g]) = c /\ Abs!Offers(g, at[g], "recv") /\ Abs!Pending(g)
      /\ at[g] \in DOMAIN op[g].cases /\ ~failed
  BY Tries
<1>7. Abs!Shift(t, i, g, at[g])
  <2>1. UNCHANGED <<cap, closed, op, failed>> OBVIOUS
  <2>. QED BY ONLY <1>2, <1>3, <1>4, <1>5, <1>6, <2>1 DEF Abs!Shift, Abs!Same
<1>8. Abs!TakeEffect(t)
  BY ONLY <1>2, <1>6, <1>7, g \in G DEF Abs!TakeEffect
<1>. QED BY ONLY <1>2, <1>6, <1>8, TakesEffect

\* A close drains a waiting call.
LEMMA DrainOneStep ==
    ASSUME Inv, Inv', OneThreadOrPlain, NEW g \in G, At(g, "drain"), NEW c \in C,
           c = This(g).c, NEW d \in Dirs, NEW k \in FirstLive(Q(d, c)),
           NEW r, r = Q(d, c)[k], ToWake(g, r, FALSE),
           d = "recv" => qcount[c] = 0,
           UNCHANGED <<chans, frame, elem, flags, failed>>
    PROVE  AbsStep
<1>1. pc[g] = "drain" /\ ~failed BY DEF At
<1>2. /\ r.g \in G \ {g} /\ Abs!Pending(r.g) /\ r.i \in DOMAIN op[r.g].cases
      /\ op[r.g].cases[r.i] = [dir |-> d, c |-> c]
  <2>1. pc[g] \in {"try", "drain"} BY <1>1
  <2>. QED BY ONLY <2>1, WaiterPending, Inv, OneThreadOrPlain, g \in G, c \in C,
                   c = This(g).c, d \in Dirs, k \in FirstLive(Q(d, c)), r = Q(d, c)[k]
<1>. PICK t \in G \ {g} : t = r.g BY <1>2
<1>. PICK i : i = r.i OBVIOUS
<1>3. /\ Abs!Pending(t) /\ i \in DOMAIN op[t].cases
      /\ Abs!On(t, i) = c /\ Abs!Offers(t, i, d)
  BY ONLY <1>2, t = r.g, i = r.i DEF Abs!On, Abs!Offers
<1>4. UNCHANGED <<op, at, todo, res, elem, flags, cap, closed, failed>>
  BY DEF frame, chans
<1>5. Local(g)
  <2>1. \A h \in G \ {g} : pc'[h] = pc[h] /\ wk'[h] = wk[h]
    <3>1. pc \in [G -> PCs] /\ wk \in [G -> Waking \cup {None}] BY DEF Inv, TypeOK
    <3>. QED BY ONLY ToWake(g, r, FALSE), <3>1 DEF ToWake, Goto
  <2>. QED BY ONLY <1>4, <2>1 DEF Local, flags
<1>6. /\ wk'[g].g = t /\ pc'[g] = "wake" /\ Outcome1(t)' = Abs!Closed(i)
  <2>1. r.g \in G /\ op' = op /\ FALSE \in BOOLEAN BY <1>2, <1>4
  <2>2. /\ wk'[g] # None /\ wk'[g].g = r.g /\ pc'[g] = "wake"
        /\ Outcome1(r.g)' = Outcome(r.i, IF FALSE /\ op[r.g].cases[r.i].dir = "recv"
                                         THEN elem'[r.g][r.i] ELSE None, FALSE)
    BY ONLY <2>1, ToWake(g, r, FALSE), Inv, Inv', g \in G, WaiterReply
  <2>. QED BY ONLY <2>2, t = r.g, i = r.i DEF Outcome, Abs!Closed, Abs!Outcome
<1>7. Outcome1(g)' = Outcome1(g) BY <1>1, <1>4, <1>6, OwnReply, OwnReplyNext
<1>8. replies' = [replies EXCEPT ![t] = Abs!Closed(i)]
  <2>1. wk[g] = None BY <1>1 DEF Inv, CallInv, CallOf
  <2>2. \A h \in G \ {g, t} : elem'[h] = elem[h] BY <1>4
  <2>3. replies' = [replies EXCEPT ![g] = Outcome1(g)', ![t] = Outcome1(t)']
    BY ONLY <1>5, <1>6, <2>1, <2>2, g \in G, t \in G \ {g}, WakesReply
  <2>4. replies \in [G -> {Outcome1(h) : h \in G}] /\ replies[g] = Outcome1(g)
    BY DEF replies
  <2>. QED BY ONLY <1>6, <1>7, <2>3, <2>4, t \in G \ {g}
<1>9. values' = values BY SameValues DEF chans
<1>10. closed[c]
  <2>1. This(g) = Cases(g)[at[g]] BY <1>1, ThisCase DEF Inv
  <2>. QED BY <1>1, <2>1 DEF Inv, CallInv, CallOf
<1>11. d = "recv" => values[c] = <<>> BY ValuesOf
<1>12. CASE d = "recv"
  <2>1. Abs!Drained(t, i)
    BY ONLY <1>3, <1>4, <1>8, <1>9, <1>10, <1>11, <1>12 DEF Abs!Drained, Abs!Same
  <2>. QED BY <1>1, <1>3, <2>1, TakesEffect DEF Abs!TakeEffect
<1>13. CASE d = "send"
  <2>1. Abs!Refuse(t, i)
    BY ONLY <1>3, <1>4, <1>8, <1>9, <1>10, <1>13 DEF Abs!Refuse, Abs!Same
  <2>. QED BY <1>1, <1>3, <2>1, TakesEffect DEF Abs!TakeEffect
<1>. QED BY <1>12, <1>13 DEF Dirs

LEMMA TrySendStep ==
    ASSUME Inv, Inv', OneThreadOrPlain, NEW g \in G, TrySend(g) PROVE AbsStep
<1>. PICK c \in C : c = This(g).c BY ThisCase DEF Inv, TrySend, At
<1>1. /\ At(g, "try") /\ Reply(g, at[g], None, TRUE) /\ This(g).dir = "send"
      /\ ~closed[c] /\ UNCHANGED <<lock, op, at, todo, flags, failed>>
      /\ IF FirstLive(recvq[c]) # {} THEN SendDirect(g, c) ELSE SendBuffer(g, c)
  BY DEF TrySend
<1>2. CASE SendDirect(g, c)
  <2>. PICK k \in FirstLive(recvq[c]) :
          /\ elem' = [elem EXCEPT ![recvq[c][k].g][recvq[c][k].i] = g]
          /\ ToWake(g, recvq[c][k], TRUE) /\ UNCHANGED chans
    BY <1>2 DEF SendDirect
  <2>. QED BY <1>1, SendDirectStep
<1>3. CASE SendBuffer(g, c) BY <1>1, <1>3, SendBufferStep
<1>. QED BY <1>1, <1>2, <1>3

LEMMA TryRecvStep ==
    ASSUME Inv, Inv', OneThreadOrPlain, NEW g \in G, TryRecv(g) PROVE AbsStep
<1>. PICK c \in C : c = This(g).c BY ThisCase DEF Inv, TryRecv, At
<1>1. /\ At(g, "try") /\ This(g).dir = "recv" /\ c = This(g).c
      /\ UNCHANGED <<lock, op, at, todo, flags, failed>>
      /\ RecvBuffer(g, c) \/ RecvDirect(g, c) \/ RecvClosed(g, c)
  BY DEF TryRecv
<1>2. CASE RecvBuffer(g, c)
  <2>1. /\ qcount[c] > 0 /\ Gets(g, ring[c][recvx[c]])
        /\ recvx' = [recvx EXCEPT ![c] = Inc(c, @)] /\ UNCHANGED <<cap, closed>>
    BY <1>2 DEF RecvBuffer, Gets
  <2>2. CASE FirstLive(sendq[c]) # {}
    <3>. PICK k \in FirstLive(sendq[c]) : Refill(g, k, c)
      BY <1>2, <2>2 DEF RecvBuffer
    <3>1. /\ ToWake(g, sendq[c][k], TRUE) /\ UNCHANGED qcount
          /\ ring' = [ring EXCEPT ![c][sendx[c]] = sendq[c][k].g]
      BY DEF Refill
    <3>. QED BY <1>1, <2>1, <3>1, RefillStep
  <2>3. CASE FirstLive(sendq[c]) = {}
    <3>1. /\ qcount' = [qcount EXCEPT ![c] = @ - 1] /\ Goto(g, "unlock")
          /\ UNCHANGED <<ring, wk>>
      BY <1>2, <2>3 DEF RecvBuffer
    <3>. QED BY <1>1, <2>1, <3>1, RecvStep
  <2>. QED BY <2>2, <2>3
<1>3. CASE RecvDirect(g, c)
  <2>. PICK k \in FirstLive(sendq[c]) :
          /\ Gets(g, sendq[c][k].g) /\ ToWake(g, sendq[c][k], TRUE) /\ UNCHANGED chans
    BY <1>3 DEF RecvDirect, Gets
  <2>1. qcount[c] = 0 BY <1>3 DEF RecvDirect
  <2>. QED BY <1>1, <2>1, RecvDirectStep
<1>4. CASE RecvClosed(g, c) BY <1>1, <1>4, RecvClosedStep
<1>. QED BY <1>1, <1>2, <1>3, <1>4

LEMMA DrainStep ==
    ASSUME Inv, Inv', OneThreadOrPlain, NEW g \in G, Drain(g) PROVE AbsStep
<1>. PICK c \in C : c = This(g).c BY ThisCase DEF Inv, Drain, At
<1>1. /\ At(g, "drain") /\ pc[g] = "drain" /\ c = This(g).c
      /\ UNCHANGED <<chans, lock, frame, elem, flags, failed>>
  BY DEF Drain, At
<1>2. CASE FirstLive(recvq[c]) # {}
  <2>. PICK k \in FirstLive(recvq[c]) : ToWake(g, recvq[c][k], FALSE)
    BY <1>2 DEF Drain
  <2>. PICK d \in Dirs : d = "recv" BY DEF Dirs
  <2>1. k \in FirstLive(Q(d, c)) /\ recvq[c][k] = Q(d, c)[k] BY DEF Q
  <2>2. qcount[c] = 0
    <3>1. Waiters(Q(d, c)) # {} BY <2>1, FirstLiveWaiters DEF Inv
    <3>. QED BY <3>1 DEF Inv, WaitersInv, WaitersOf, Q
  <2>. QED BY <1>1, <2>1, <2>2, DrainOneStep
<1>3. CASE FirstLive(recvq[c]) = {} /\ FirstLive(sendq[c]) # {}
  <2>. PICK k \in FirstLive(sendq[c]) : ToWake(g, sendq[c][k], FALSE)
    BY <1>3 DEF Drain
  <2>. PICK d \in Dirs : d = "send" BY DEF Dirs
  <2>1. k \in FirstLive(Q(d, c)) /\ sendq[c][k] = Q(d, c)[k] BY DEF Q
  <2>. QED BY <1>1, <2>1, DrainOneStep
<1>4. CASE FirstLive(recvq[c]) = {} /\ FirstLive(sendq[c]) = {}
  <2>1. Goto(g, "unlock") /\ UNCHANGED wk BY <1>4 DEF Drain
  <2>2. Local(g) BY <1>1, <2>1 DEF Local, Inv, TypeOK, Goto, frame, flags
  <2>3. pc'[g] = "unlock" BY <2>1 DEF Inv, TypeOK, Goto
  <2>. QED BY <1>1, <2>1, <2>2, <2>3, QuietStep DEF chans, frame
<1>. QED BY <1>2, <1>3, <1>4

LEMMA InitRefines == ASSUME Init PROVE Abs!AbsInit
<1>1. cap \in [C -> Nat] BY ChanAssumption DEF Init
<1>2. values = [c \in C |-> <<>>]
  <2>1. Inv BY InitInv
  <2>2. \A c \in C : qcount[c] = 0 BY DEF Init
  <2>3. \A c \in C : values[c] = <<>> BY <2>1, <2>2, ValuesOf
  <2>. QED BY <2>3 DEF values
<1>3. replies = [g \in G |-> None] BY DEF replies, Outcome1, Init
<1>. QED BY <1>1, <1>2, <1>3 DEF Init, Abs!AbsInit

LEMMA NextRefines ==
    ASSUME Inv, Inv', OneThreadOrPlain, [Next]_vars
    PROVE  AbsStep
<1>1. ASSUME NEW g \in G, NEW o \in Calls, Call(g, o) PROVE AbsStep
  BY <1>1, InvokeStep
<1>2. ASSUME NEW g \in G, Step(g) PROVE AbsStep
  <2>1. CASE Lock(g) BY <2>1, LockStep
  <2>2. CASE TrySend(g) BY <2>2, TrySendStep
  <2>3. CASE SendClosed(g) BY <2>3, FailStep DEF SendClosed
  <2>4. CASE TryRecv(g) BY <2>4, TryRecvStep
  <2>5. CASE TryNext(g) \/ Wait(g) BY <2>5, SearchStep
  <2>6. CASE Decline(g) BY <2>6, DeclineStep
  <2>7. CASE Queue(g) BY <2>7, QueueStep
  <2>8. CASE Park(g) BY <2>8, ParkStep
  <2>9. CASE WakeTest(g) BY <2>9, WakeTestStep
  <2>10. CASE WakeSet(g) BY <2>10, WakeSetStep
  <2>11. CASE ResumePlain(g) BY <2>11, ResumePlainStep, ResumeFailStep
  <2>12. CASE ResumeSelect(g) BY <2>12, ResumeSelectStep
  <2>13. CASE Clean(g) BY <2>13, CleanStep
  <2>14. CASE CleanDone(g) BY <2>14, CleanDoneStep
  <2>15. CASE Close(g)
    <3>1. CASE closed[This(g).c]
      BY <2>15, <3>1, FailStep DEF Close, chans, frame
    <3>2. CASE ~closed[This(g).c] BY <2>15, <3>2, CloseStep
    <3>. QED BY <3>1, <3>2
  <2>16. CASE Drain(g) BY <2>16, DrainStep
  <2>17. CASE Unlock(g) BY <2>17, UnlockStep
  <2>18. CASE Return(g) BY <2>18, ReturnStep
  <2>. QED
    BY <1>2, <2>1, <2>2, <2>3, <2>4, <2>5, <2>6, <2>7, <2>8, <2>9, <2>10, <2>11,
       <2>12, <2>13, <2>14, <2>15, <2>16, <2>17, <2>18 DEF Step
<1>3. CASE UNCHANGED vars
  <2>1. UNCHANGED <<cap, ring, recvx, qcount, closed, op, failed>>
    BY <1>3 DEF vars, chans, frame
  <2>2. \A h \in G : Outcome1(h)' = Outcome1(h)
    BY <1>3 DEF vars, frame, flags, Outcome1, Waker, Value
  <2>3. replies' = replies BY <2>2 DEF replies
  <2>. QED BY <2>1, <2>3, SameValues, IsStutter
<1>. QED BY <1>1, <1>2, <1>3 DEF Next

\* Every call takes effect at one moment between its beginning and its end, on
\* a first-in first-out queue: with one thread, or without selects.
THEOREM ChanAtomic ==
    ASSUME OneThreadOrPlain PROVE Spec => Atomic
<1>1. Init => Abs!AbsInit BY InitRefines
<1>2. Inv /\ Inv' /\ [Next]_vars => [Abs!AbsNext]_(Abs!absVars)
  BY NextRefines DEF AbsStep
<1>3. Spec => []Inv BY ChanInvariant
<1>. QED BY <1>1, <1>2, <1>3, PTL DEF Spec, Atomic, Abs!AbsSpec
=============================================================================
