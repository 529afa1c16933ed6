----------------------------- MODULE WakeProofs -----------------------------
(***************************************************************************)
(* Proofs about what wakes a goroutine at another's word or at its time:   *)
(* NotifyList for any number of goroutines and tickets, and Timer for any  *)
(* number of users, armings and deadlines.  The lists keep their types, no *)
(* wait record outlives the wait of its goroutine, and a list implements   *)
(* the line of AbsNotify.  Nothing comes from a timer that was stopped,    *)
(* what Stop and Reset return adds up, the drain after a Stop that came    *)
(* too late does not block, and a ticker keeps its phase.                  *)
(***************************************************************************)
EXTENDS NotifyList, Timer, QueueLemmas

-----------------------------------------------------------------------------
(***************************************************************************)
(* The notification lists                                                  *)
(***************************************************************************)
\* A line of parked goroutines, each once.
Distinct(q) == \A i, j \in DOMAIN q : q[i] = q[j] => i = j
AllParked(q) == \A i \in DOMAIN q : pc[q[i]] = "parked"

\* g's record is in q.
Has(q, g) == \E i \in DOMAIN q : q[i] = g

\* The list and the chains have no goroutine in common.
Apart ==
    /\ \A g, h \in G : Has(list, g) => ~Has(chain[h], g)
    /\ \A g, h, k \in G : Has(chain[h], g) /\ Has(chain[k], g) => h = k

Lines ==
    /\ Distinct(list) /\ AllParked(list)
    /\ \A h \in G : Distinct(chain[h]) /\ AllParked(chain[h])
    /\ Apart

IndInv == TypeOK /\ Lines

-----------------------------------------------------------------------------
LEMMA TicketsKept ==
    /\ 0 \in Tickets
    /\ \A t \in Tickets : Plus1(t) \in Tickets
<1>1. Half \in Nat /\ Half # 0 BY NotifyAssumption
<1>2. \A a, n \in Nat : n # 0 => a % n \in 0 .. (n - 1) BY SMT
<1>. QED BY <1>1, <1>2 DEF Tickets, Plus1

\* A step of a goroutine that is not parked and goes on unparked.
LEMMA OthersStep ==
    ASSUME IndInv, NEW g \in G, pc[g] # "parked", NEW p \in PCs,
           Goto(g, p), UNCHANGED <<list, chain>>
    PROVE  Lines'
<1>1. pc \in [G -> PCs] /\ pc' = [pc EXCEPT ![g] = p]
  BY DEF IndInv, TypeOK, Goto
<1>2. \A h \in G : pc[h] = "parked" => pc'[h] = "parked" BY <1>1
<1>3. /\ \A i \in DOMAIN list : list[i] \in G
      /\ \A h \in G : \A i \in DOMAIN chain[h] : chain[h][i] \in G
  BY ElementOfSeq, LenProperties DEF IndInv, TypeOK
<1>. QED BY <1>2, <1>3 DEF IndInv, Lines, Distinct, AllParked, Apart, Has

\* Lines says of a record only in which lines it is.
LEMMA ByRecord ==
    ASSUME Distinct(list)', \A h \in G : Has(list, h)' => pc'[h] = "parked",
           \A h \in G : /\ Distinct(chain[h])'
                        /\ \A k \in G : Has(chain[h], k)' => pc'[k] = "parked",
           list' \in Seq(G), chain' \in [G -> Seq(G)], Apart'
    PROVE  Lines'
<1>1. /\ \A i \in DOMAIN list' : list'[i] \in G
      /\ \A h \in G : \A i \in DOMAIN chain'[h] : chain'[h][i] \in G
  BY ElementOfSeq, LenProperties
<1>2. AllParked(list)' BY <1>1 DEF AllParked, Has
<1>3. \A h \in G : AllParked(chain[h])' BY <1>1 DEF AllParked, Has
<1>. QED BY <1>2, <1>3 DEF Lines

LEMMA LineAppended ==
    ASSUME NEW q \in Seq(G), NEW g \in G, Distinct(q), ~Has(q, g)
    PROVE  /\ Append(q, g) \in Seq(G) /\ Distinct(Append(q, g))
           /\ \A h : Has(Append(q, g), h) <=> Has(q, h) \/ h = g
<1>1. /\ \A j, k \in DOMAIN q : q[j] = q[k] => j = k
      /\ \A j \in DOMAIN q : q[j] # g
  BY DEF Distinct, Has
<1>2. /\ Append(q, g) \in Seq(G)
      /\ \A j, k \in DOMAIN Append(q, g) : Append(q, g)[j] = Append(q, g)[k] => j = k
      /\ \A h : (\E j \in DOMAIN Append(q, g) : Append(q, g)[j] = h)
                <=> (\E j \in DOMAIN q : q[j] = h) \/ h = g
  BY <1>1, AppendedQueue
<1>. QED BY <1>2 DEF Distinct, Has

LEMMA LineRemoved ==
    ASSUME NEW q \in Seq(G), NEW i \in DOMAIN q, Distinct(q)
    PROVE  /\ RemoveAt(q, i) \in Seq(G) /\ q[i] \in G /\ Distinct(RemoveAt(q, i))
           /\ \A h : Has(RemoveAt(q, i), h) <=> Has(q, h) /\ h # q[i]
<1>1. \A j, k \in DOMAIN q : q[j] = q[k] => j = k
  BY DEF Distinct
<1>2. /\ RemoveAt(q, i) \in Seq(G) /\ q[i] \in G
      /\ \A j, k \in DOMAIN RemoveAt(q, i) :
            RemoveAt(q, i)[j] = RemoveAt(q, i)[k] => j = k
      /\ \A h : (\E j \in DOMAIN RemoveAt(q, i) : RemoveAt(q, i)[j] = h)
                <=> (\E j \in DOMAIN q : q[j] = h) /\ h # q[i]
  BY <1>1, RemovedQueue
<1>. QED BY <1>2 DEF Distinct, Has

\* What is left of a chain when its first goroutine is taken.
LEMMA ChainTail ==
    ASSUME NEW S, NEW q \in Seq(S), q # <<>>, Distinct(q)
    PROVE  /\ Head(q) \in S /\ Tail(q) \in Seq(S) /\ Distinct(Tail(q))
           /\ \A h : Has(Tail(q), h) <=> Has(q, h) /\ h # Head(q)
<1>1. /\ Head(q) \in S /\ Tail(q) \in Seq(S) /\ Head(q) = q[1]
      /\ Len(q) \in Nat /\ Len(q) # 0 /\ DOMAIN q = 1 .. Len(q)
      /\ DOMAIN Tail(q) = 1 .. (Len(q) - 1)
      /\ \A i \in 1 .. (Len(q) - 1) : Tail(q)[i] = q[i + 1]
  BY HeadTailProperties, LenProperties, EmptySeq
<1>2. Distinct(Tail(q)) BY <1>1 DEF Distinct
<1>3. ASSUME NEW h, Has(Tail(q), h) PROVE Has(q, h) /\ h # Head(q)
  BY <1>1, <1>3 DEF Has, Distinct
<1>4. ASSUME NEW h, Has(q, h), h # Head(q) PROVE Has(Tail(q), h)
  <2>1. PICK i \in DOMAIN q : q[i] = h BY <1>4 DEF Has
  <2>2. i - 1 \in DOMAIN Tail(q) /\ Tail(q)[i - 1] = h
    <3>1. i \in Nat /\ i > 1 /\ i <= Len(q) BY <1>1, <1>4, <2>1
    <3>2. i - 1 \in 1 .. (Len(q) - 1) /\ (i - 1) + 1 = i BY <1>1, <3>1
    <3>. QED BY <1>1, <2>1, <3>2
  <2>. QED BY <2>2 DEF Has
<1>. QED BY <1>1, <1>2, <1>3, <1>4

LEMMA WaitStep ==
    ASSUME IndInv, NEW g \in G, Wait(g)
    PROVE  IndInv'
<1>0. /\ pc \in [G -> PCs] /\ list \in Seq(G) /\ chain \in [G -> Seq(G)]
      /\ ticket \in [G -> Tickets] /\ pc[g] = "added"
  BY DEF IndInv, TypeOK, Wait
<1>1. CASE Less(ticket[g], notify)
  <2>1. TypeOK' BY <1>0, <1>1, TicketsKept DEF IndInv, TypeOK, Wait, Goto, Forget, PCs
  <2>2. Lines' BY <1>0, <1>1, OthersStep DEF Wait, PCs
  <2>. QED BY <2>1, <2>2 DEF IndInv
<1>2. CASE ~Less(ticket[g], notify)
  <2>1. /\ pc' = [pc EXCEPT ![g] = "parked"] /\ list' = Append(list, g)
        /\ UNCHANGED <<ticket, wait, notify, old, chain, ahead>>
    BY <1>2 DEF Wait, Goto
  <2>2. /\ ~Has(list, g)
        /\ \A h \in G : ~Has(chain[h], g)
    BY <1>0 DEF IndInv, Lines, AllParked, Has
  <2>3. Distinct(list) BY DEF IndInv, Lines
  <2>4. /\ list' \in Seq(G) /\ Distinct(list')
        /\ \A h : Has(list', h) <=> Has(list, h) \/ h = g
    BY <1>0, <2>1, <2>2, <2>3, LineAppended
  <2>5. TypeOK' BY <1>0, <2>1, <2>4 DEF IndInv, TypeOK, PCs
  <2>6. /\ \A h \in G : Has(list, h) => pc[h] = "parked"
        /\ \A h, k \in G : Has(chain[h], k) => pc[k] = "parked"
    BY DEF IndInv, Lines, AllParked, Has
  <2>7. Apart' BY <2>1, <2>2, <2>4 DEF IndInv, Lines, Apart
  <2>8. Distinct(list)' /\ \A h \in G : Has(list, h)' => pc'[h] = "parked"
    BY <1>0, <2>1, <2>4, <2>6 DEF Distinct, Has
  <2>9. \A h \in G : Distinct(chain[h])' /\ \A k \in G : Has(chain[h], k)' => pc'[k] = "parked"
    BY <1>0, <2>1, <2>6 DEF IndInv, Lines, Distinct, Has
  <2>. QED BY <2>5, <2>7, <2>8, <2>9, ByRecord DEF IndInv, TypeOK
<1>. QED BY <1>1, <1>2

LEMMA EndsTyped ==
    ASSUME TypeOK, NEW g \in G, Ends(g) PROVE ahead' \in [G -> SUBSET G]
BY DEF Ends, TypeOK

LEMMA NotifyAllStep ==
    ASSUME IndInv, NEW g \in G, NotifyAll(g)
    PROVE  IndInv'
<1>0. /\ pc \in [G -> PCs] /\ list \in Seq(G) /\ chain \in [G -> Seq(G)]
      /\ pc[g] = "allLock" /\ pc' = [pc EXCEPT ![g] = "walk"]
      /\ chain' = [chain EXCEPT ![g] = list] /\ list' = <<>>
  BY DEF IndInv, TypeOK, NotifyAll, Goto
<1>1. TypeOK'
  <2>1. ahead' \in [G -> SUBSET G] BY EndsTyped DEF IndInv, NotifyAll
  <2>2. list' \in Seq(G) /\ chain' \in [G -> Seq(G)] /\ pc' \in [G -> PCs]
    BY <1>0 DEF PCs
  <2>. QED BY <2>1, <2>2 DEF IndInv, TypeOK, NotifyAll
<1>2. \A h \in G : chain'[h] = IF h = g THEN list ELSE chain[h] BY <1>0
<1>3. \A h \in G : pc[h] = "parked" => pc'[h] = "parked" BY <1>0
<1>4. ~\E i \in DOMAIN <<>> : TRUE OBVIOUS
<1>5. Distinct(list)' /\ \A h \in G : ~Has(list, h)'
  BY <1>0, <1>4 DEF Distinct, Has
<1>6. /\ \A h \in G : Has(list, h) => pc[h] = "parked"
      /\ \A h, k \in G : Has(chain[h], k) => pc[k] = "parked"
  BY DEF IndInv, Lines, AllParked, Has
<1>7. \A h, k \in G : Has(chain[h], k)' <=> IF h = g THEN Has(list, k) ELSE Has(chain[h], k)
  BY <1>2 DEF Has
<1>8. \A h \in G : Distinct(chain[h])' /\ \A k \in G : Has(chain[h], k)' => pc'[k] = "parked"
  <2>1. \A h \in G : Distinct(chain[h])' BY <1>2 DEF IndInv, Lines, Distinct
  <2>. QED BY <1>3, <1>6, <1>7, <2>1
<1>9. Apart' BY <1>5, <1>7 DEF IndInv, Lines, Apart
<1>. QED BY <1>1, <1>5, <1>8, <1>9, ByRecord DEF IndInv, TypeOK

\* One record leaves the list for the notifier's chain.
LEMMA NotifyOneStep ==
    ASSUME IndInv, NEW g \in G, NotifyOne(g)
    PROVE  IndInv'
<1>0. /\ pc \in [G -> PCs] /\ list \in Seq(G) /\ chain \in [G -> Seq(G)]
      /\ pc[g] = "oneLock" /\ notify' \in Tickets /\ ahead' \in [G -> SUBSET G]
  BY TicketsKept, EndsTyped DEF IndInv, TypeOK, NotifyOne
<1>1. CASE notify = wait \/ Holder(notify) = {}
  <2>1. Goto(g, "idle") /\ UNCHANGED <<list, chain, wait, ticket, old>>
    BY <1>1 DEF NotifyOne
  <2>2. TypeOK' BY <1>0, <2>1 DEF IndInv, TypeOK, Goto, PCs
  <2>3. Lines' BY <1>0, <2>1, OthersStep DEF PCs
  <2>. QED BY <2>2, <2>3 DEF IndInv
<1>2. CASE ~(notify = wait \/ Holder(notify) = {})
  <2>1. PICK i \in Holder(notify) :
           /\ list' = RemoveAt(list, i) /\ chain' = [chain EXCEPT ![g] = <<list[i]>>]
           /\ pc' = [pc EXCEPT ![g] = "walk"]
    BY <1>2 DEF NotifyOne, Goto
  <2>2. i \in DOMAIN list BY <2>1 DEF Holder
  <2>3. Distinct(list) BY DEF IndInv, Lines
  <2>4. /\ list' \in Seq(G) /\ list[i] \in G /\ Distinct(list')
        /\ \A h : Has(list', h) <=> Has(list, h) /\ h # list[i]
    BY <1>0, <2>1, <2>2, <2>3, LineRemoved
  <2>. DEFINE one == <<list[i]>>
  <2>5. one \in Seq(G) /\ Distinct(one) /\ \A h : Has(one, h) <=> h = list[i]
    BY <2>4 DEF Distinct, Has
  <2>6. \A h \in G : chain'[h] = IF h = g THEN one ELSE chain[h] BY <1>0, <2>1
  <2>. HIDE DEF one
  <2>7. \A h, k \in G : Has(chain[h], k)' <=> IF h = g THEN k = list[i] ELSE Has(chain[h], k)
    BY <2>5, <2>6 DEF Has
  <2>8. Has(list, list[i]) BY <2>2 DEF Has
  <2>9. /\ \A h \in G : Has(list, h) => pc[h] = "parked"
        /\ \A h, k \in G : Has(chain[h], k) => pc[k] = "parked"
    BY DEF IndInv, Lines, AllParked, Has
  <2>10. \A h \in G : pc[h] = "parked" => pc'[h] = "parked" BY <1>0, <2>1
  <2>11. TypeOK'
    <3>1. chain' \in [G -> Seq(G)] BY <1>0, <2>1, <2>5 DEF one
    <3>. QED BY <1>0, <2>1, <2>4, <3>1 DEF IndInv, TypeOK, NotifyOne, PCs
  <2>12. Apart'
    <3>1. \A h \in G : Has(list, h)' <=> Has(list, h) /\ h # list[i]
      BY <2>4 DEF Has
    <3>2. \A h \in G : ~Has(chain[h], list[i])
      BY <2>4, <2>8 DEF IndInv, Lines, Apart
    <3>. QED BY <2>7, <3>1, <3>2 DEF IndInv, Lines, Apart
  <2>13. Distinct(list)' /\ \A h \in G : Has(list, h)' => pc'[h] = "parked"
    BY <2>4, <2>9, <2>10 DEF Distinct, Has
  <2>14. \A h \in G : Distinct(chain[h])' /\ \A k \in G : Has(chain[h], k)' => pc'[k] = "parked"
    <3>1. \A h \in G : Distinct(chain[h])'
      BY <2>5, <2>6 DEF IndInv, Lines, Distinct
    <3>. QED BY <2>4, <2>7, <2>8, <2>9, <2>10, <3>1
  <2>. QED BY <2>11, <2>12, <2>13, <2>14, ByRecord DEF IndInv, TypeOK
<1>. QED BY <1>1, <1>2

\* The first goroutine of a chain is let go.
LEMMA WalkStep ==
    ASSUME IndInv, NEW g \in G, Walk(g)
    PROVE  IndInv'
<1>0. /\ pc \in [G -> PCs] /\ list \in Seq(G) /\ chain \in [G -> Seq(G)]
      /\ pc[g] = "walk"
  BY DEF IndInv, TypeOK, Walk
<1>1. CASE chain[g] = <<>>
  <2>1. Goto(g, "idle") /\ UNCHANGED <<list, chain, wait, notify, ticket, old, ahead>>
    BY <1>1 DEF Walk
  <2>2. TypeOK' BY <1>0, <2>1 DEF IndInv, TypeOK, Goto, PCs
  <2>3. Lines' BY <1>0, <2>1, OthersStep DEF PCs
  <2>. QED BY <2>2, <2>3 DEF IndInv
<1>2. CASE chain[g] # <<>>
  <2>. DEFINE f == Head(chain[g])
              rest == Tail(chain[g])
  <2>1. /\ pc' = [pc EXCEPT ![f] = "idle"] /\ ticket' = [ticket EXCEPT ![f] = 0]
        /\ chain' = [chain EXCEPT ![g] = rest]
        /\ UNCHANGED <<wait, notify, list, old, ahead>>
    BY <1>2 DEF Walk, Goto, Forget
  <2>2. chain[g] \in Seq(G) /\ Distinct(chain[g]) BY <1>0 DEF IndInv, Lines
  <2>3. /\ f \in G /\ rest \in Seq(G) /\ Distinct(rest)
        /\ \A h : Has(rest, h) <=> Has(chain[g], h) /\ h # f
    BY <1>2, <2>2, ChainTail DEF Has
  <2>4. Has(chain[g], f)
    BY <1>2, <2>2, HeadTailProperties, LenProperties DEF Has
  <2>. HIDE DEF f, rest
  <2>5. \A h \in G : chain'[h] = IF h = g THEN rest ELSE chain[h] BY <1>0, <2>1
  <2>6. \A h, k \in G : Has(chain[h], k)' <=> Has(chain[h], k) /\ k # f
    <3>. SUFFICES ASSUME NEW h \in G, NEW k \in G
                  PROVE  Has(chain'[h], k) <=> Has(chain[h], k) /\ k # f
      BY DEF Has
    <3>1. CASE h = g BY <2>3, <2>5, <3>1
    <3>2. CASE h # g BY <2>3, <2>4, <2>5, <3>2 DEF IndInv, Lines, Apart
    <3>. QED BY <3>1, <3>2
  <2>7. /\ \A h \in G : Has(list, h) => pc[h] = "parked" /\ h # f
        /\ \A h, k \in G : Has(chain[h], k) => pc[k] = "parked"
    BY <2>3, <2>4 DEF IndInv, Lines, AllParked, Apart, Has
  <2>8. \A h \in G : h # f => pc'[h] = pc[h] BY <1>0, <2>1
  <2>9. TypeOK' BY <1>0, <2>1, <2>3, TicketsKept DEF IndInv, TypeOK, PCs
  <2>10. Apart' BY <2>1, <2>6 DEF IndInv, Lines, Apart, Has
  <2>11. Distinct(list)' /\ \A h \in G : Has(list, h)' => pc'[h] = "parked"
    BY <2>1, <2>7, <2>8 DEF IndInv, Lines, Distinct, Has
  <2>12. \A h \in G : Distinct(chain[h])' /\ \A k \in G : Has(chain[h], k)' => pc'[k] = "parked"
    <3>1. \A h \in G : Distinct(chain[h])' BY <2>3, <2>5 DEF IndInv, Lines, Distinct
    <3>. QED BY <2>6, <2>7, <2>8, <3>1
  <2>. QED BY <2>9, <2>10, <2>11, <2>12, ByRecord DEF IndInv, TypeOK
<1>. QED BY <1>1, <1>2

-----------------------------------------------------------------------------
LEMMA InitInv == Init => IndInv
<1>. SUFFICES ASSUME Init PROVE IndInv OBVIOUS
<1>1. <<>> \in Seq(G) /\ ~\E i \in DOMAIN <<>> : TRUE OBVIOUS
<1>2. TypeOK BY <1>1, TicketsKept DEF Init, TypeOK, PCs
<1>3. Lines BY <1>1 DEF Init, Lines, Distinct, AllParked, Apart, Has
<1>. QED BY <1>2, <1>3 DEF IndInv

LEMMA NextInv == IndInv /\ [Next]_vars => IndInv'
<1>. SUFFICES ASSUME IndInv, [Next]_vars PROVE IndInv' OBVIOUS
<1>1. CASE UNCHANGED vars
  BY <1>1 DEF vars, IndInv, TypeOK, Lines, Distinct, AllParked, Apart, Has
<1>2. CASE Next
  <2>1. PICK g \in G : Call(g) \/ Step(g) BY <1>2 DEF Next
  <2>2. CASE Add(g)
    <3>1. TypeOK' BY <2>2, TicketsKept DEF Add, IndInv, TypeOK, Goto, PCs
    <3>2. Lines' BY <2>2, OthersStep DEF Add, PCs
    <3>. QED BY <3>1, <3>2 DEF IndInv
  <2>3. ASSUME NEW p \in {"all", "one"}, LoadWait(g, p) PROVE IndInv'
    <3>1. TypeOK' BY <2>3 DEF LoadWait, IndInv, TypeOK, Goto, PCs
    <3>2. Lines' BY <2>3, OthersStep DEF LoadWait, PCs
    <3>. QED BY <3>1, <3>2 DEF IndInv
  <2>4. ASSUME NEW p \in {"all", "one"}, NEW q \in {"allLock", "oneLock"},
               LoadNotify(g, p, q)
        PROVE  IndInv'
    <3>1. TypeOK'
      <4>1. ahead' \in [G -> SUBSET G] BY <2>4, EndsTyped DEF LoadNotify, IndInv, TypeOK
      <4>2. pc' \in [G -> PCs] BY <2>4 DEF LoadNotify, IndInv, TypeOK, Goto, PCs
      <4>. QED BY <2>4, <4>1, <4>2, TicketsKept DEF LoadNotify, IndInv, TypeOK, Forget
    <3>2. Lines'
      <4>1. PICK r \in PCs \ {"parked"} : Goto(g, r) BY <2>4 DEF LoadNotify, PCs
      <4>. QED BY <2>4, <4>1, OthersStep DEF LoadNotify
    <3>. QED BY <3>1, <3>2 DEF IndInv
  <2>. QED BY <2>1, <2>2, <2>3, <2>4, WaitStep, NotifyAllStep, NotifyOneStep, WalkStep
           DEF Call, Step
<1>. QED BY <1>1, <1>2

\* The inductive invariant of the notification lists.
THEOREM NotifyInvariant == Spec => []IndInv
<1>. QED BY InitInv, NextInv, PTL DEF Spec

\* Type correctness: the counters stay in their range when they wrap around.
THEOREM NotifyTypes == Spec => []TypeOK
<1>1. IndInv => TypeOK BY DEF IndInv
<1>. QED BY <1>1, NotifyInvariant, PTL

\* A wait record on the stack of a goroutine is in one line, once, and only
\* while the goroutine is parked.
THEOREM RecordsOnStacks == Spec => []StackRecords
<1>1. IndInv => StackRecords
  <2>. SUFFICES ASSUME IndInv, NEW p \in Places, NEW q \in Places
                PROVE  /\ pc[Record(p)] = "parked"
                       /\ Record(p) = Record(q) => p = q
    BY DEF StackRecords
  <2>. DEFINE In(r) == \/ \E i \in DOMAIN list : r = <<None, i>> /\ Record(r) = list[i]
                       \/ \E g \in G : \E i \in DOMAIN chain[g] :
                             r = <<g, i>> /\ Record(r) = chain[g][i]
  <2>1. \A r \in Places : In(r) BY NotifyAssumption DEF Places, Record
  <2>2. /\ \A i \in DOMAIN list : list[i] \in G
        /\ \A h \in G : \A i \in DOMAIN chain[h] : chain[h][i] \in G
    BY ElementOfSeq, LenProperties DEF IndInv, TypeOK
  <2>3. In(p) /\ In(q) BY <2>1
  <2>4. pc[Record(p)] = "parked" BY <2>3 DEF IndInv, Lines, AllParked
  <2>5. ASSUME Record(p) = Record(q) PROVE p = q
    <3>. USE <2>2, <2>5 DEF IndInv, Lines, Distinct, Apart, Has
    <3>1. CASE \E i \in DOMAIN list : p = <<None, i>> /\ Record(p) = list[i]
      BY <2>3, <3>1
    <3>2. CASE \E g \in G : \E i \in DOMAIN chain[g] :
                  p = <<g, i>> /\ Record(p) = chain[g][i]
      BY <2>3, <3>2
    <3>. QED BY <2>3, <3>1, <3>2
  <2>. QED BY <2>4, <2>5
<1>. QED BY <1>1, NotifyInvariant, PTL

-----------------------------------------------------------------------------
(***************************************************************************)
(* The list implements the line of AbsNotify                               *)
(***************************************************************************)
\* Counting modulo the number of tickets.
LEMMA ModIs ==
    ASSUME NEW p \in Nat \ {0}, NEW n \in 0..(p - 1)
    PROVE  n % p = n
OBVIOUS

LEMMA ModWraps ==
    ASSUME NEW p \in Nat \ {0}, NEW n \in 0..(p - 1)
    PROVE  (n - p) % p = n
OBVIOUS

LEMMA MinusIs ==
    ASSUME NEW s \in Tickets, NEW t \in Tickets
    PROVE  Minus(s, t) = IF s >= t THEN s - t ELSE s - t + 2 * Half
<1>. DEFINE p == 2 * Half
<1>1. p \in Nat \ {0} /\ s \in 0..(p - 1) /\ t \in 0..(p - 1)
  BY NotifyAssumption DEF Tickets
<1>. HIDE DEF p
<1>2. CASE s >= t
  <2>1. s - t \in 0..(p - 1) BY <1>1, <1>2
  <2>2. (s - t) % p = s - t BY <1>1, <2>1, ModIs
  <2>. QED BY <1>2, <2>2 DEF Minus, p
<1>3. CASE ~(s >= t)
  <2>. DEFINE n == s - t + p
  <2>1. n \in 0..(p - 1) /\ n - p = s - t BY <1>1, <1>3
  <2>. HIDE DEF n
  <2>2. (n - p) % p = n BY <1>1, <2>1, ModWraps
  <2>3. (s - t) % p = n BY <2>1, <2>2
  <2>. QED BY <1>3, <2>3 DEF Minus, p, n
<1>. QED BY <1>2, <1>3

LEMMA Plus1Is ==
    ASSUME NEW t \in Tickets
    PROVE  /\ Plus1(t) \in Tickets
           /\ Plus1(t) = IF t = 2 * Half - 1 THEN 0 ELSE t + 1
<1>. DEFINE p == 2 * Half
<1>1. p \in Nat \ {0} /\ t \in 0..(p - 1) BY NotifyAssumption DEF Tickets
<1>. HIDE DEF p
<1>2. CASE t = p - 1
  <2>1. 0 \in 0..(p - 1) BY <1>1
  <2>2. p % p = 0 BY <1>1
  <2>3. t + 1 = p BY <1>1, <1>2
  <2>. QED BY <1>2, <2>1, <2>2, <2>3 DEF Plus1, p, Tickets
<1>3. CASE t # p - 1
  <2>1. t + 1 \in 0..(p - 1) BY <1>1, <1>3
  <2>2. (t + 1) % p = t + 1 BY <1>1, <2>1, ModIs
  <2>. QED BY <1>3, <2>1, <2>2 DEF Plus1, p, Tickets
<1>. QED BY <1>2, <1>3 DEF p

\* The tickets are the hours of a clock: how far one is after another.
LEMMA Clock ==
    ASSUME NEW s \in Tickets, NEW t \in Tickets
    PROVE  /\ Minus(s, t) \in Tickets
           /\ Minus(s, t) = 0 <=> s = t
           /\ Minus(Plus1(s), t) =
                IF Minus(s, t) = 2 * Half - 1 THEN 0 ELSE Minus(s, t) + 1
           /\ Minus(s, Plus1(t)) =
                IF Minus(s, t) = 0 THEN 2 * Half - 1 ELSE Minus(s, t) - 1
<1>1. Half \in Nat \ {0} /\ Tickets = 0..(2 * Half - 1)
  BY NotifyAssumption DEF Tickets
<1>2. Plus1(s) \in Tickets /\ Plus1(t) \in Tickets BY Plus1Is
<1>3. Minus(s, t) = IF s >= t THEN s - t ELSE s - t + 2 * Half BY MinusIs
<1>4. Minus(s, t) \in Tickets /\ (Minus(s, t) = 0 <=> s = t) BY <1>1, <1>3
<1>5. Minus(Plus1(s), t) =
        IF Minus(s, t) = 2 * Half - 1 THEN 0 ELSE Minus(s, t) + 1
  <2>1. Minus(Plus1(s), t) = IF Plus1(s) >= t THEN Plus1(s) - t
                             ELSE Plus1(s) - t + 2 * Half
    BY <1>2, MinusIs
  <2>2. Plus1(s) = IF s = 2 * Half - 1 THEN 0 ELSE s + 1 BY Plus1Is
  <2>. QED BY <1>1, <1>3, <2>1, <2>2
<1>6. Minus(s, Plus1(t)) =
        IF Minus(s, t) = 0 THEN 2 * Half - 1 ELSE Minus(s, t) - 1
  <2>1. Minus(s, Plus1(t)) = IF s >= Plus1(t) THEN s - Plus1(t)
                             ELSE s - Plus1(t) + 2 * Half
    BY <1>2, MinusIs
  <2>2. Plus1(t) = IF t = 2 * Half - 1 THEN 0 ELSE t + 1 BY Plus1Is
  <2>. QED BY <1>1, <1>3, <2>1, <2>2
<1>. QED BY <1>4, <1>5, <1>6

LEMMA ClockSum ==
    ASSUME NEW r \in Tickets, NEW s \in Tickets, NEW t \in Tickets
    PROVE  Minus(s, r) = IF Minus(s, t) >= Minus(r, t)
                         THEN Minus(s, t) - Minus(r, t)
                         ELSE Minus(s, t) - Minus(r, t) + 2 * Half
<1>1. Half \in Nat \ {0} /\ Tickets = 0..(2 * Half - 1)
  BY NotifyAssumption DEF Tickets
<1>2. /\ Minus(s, r) = IF s >= r THEN s - r ELSE s - r + 2 * Half
      /\ Minus(s, t) = IF s >= t THEN s - t ELSE s - t + 2 * Half
      /\ Minus(r, t) = IF r >= t THEN r - t ELSE r - t + 2 * Half
  BY MinusIs
<1>. QED BY <1>1, <1>2

-----------------------------------------------------------------------------
\* g is in line behind k others.
At(g, k) == InLine(g) /\ Minus(ticket[g], notify) = k

size == Minus(wait, notify)

\* Every place in line is taken, by one goroutine.
Filled == \A k \in 0..(size - 1) : \E g \in G : At(g, k)
Single == \A k \in Nat : \A g, h \in G : At(g, k) /\ At(h, k) => g = h
Within == \A k \in Nat : \A g \in G : At(g, k) => k < size

\* A ticket is not older than half the range as long as it has to be compared.
Fresh == \A g \in G : pc[g] = "added" => Minus(wait, ticket[g]) \in 1..Half

LineInv == Filled /\ Single /\ Within /\ Fresh

LEMMA LineTypes ==
    ASSUME TypeOK
    PROVE  /\ Half \in Nat \ {0} /\ 2 * Half - 1 \in Nat
           /\ Tickets = 0..(2 * Half - 1)
           /\ wait \in Tickets /\ notify \in Tickets /\ size \in Tickets
           /\ pc \in [G -> PCs] /\ ticket \in [G -> Tickets]
           /\ \A g \in G : /\ ticket[g] \in Tickets
                           /\ Minus(ticket[g], notify) \in Tickets
                           /\ InLine(g) => At(g, Minus(ticket[g], notify))
<1>1. /\ wait \in Tickets /\ notify \in Tickets
      /\ pc \in [G -> PCs] /\ ticket \in [G -> Tickets]
  BY DEF TypeOK
<1>2. Half \in Nat \ {0} /\ Tickets = 0..(2 * Half - 1) /\ 2 * Half - 1 \in Nat
  BY NotifyAssumption DEF Tickets
<1>3. \A g \in G : ticket[g] \in Tickets BY <1>1
<1>4. size \in Tickets BY <1>1, Clock DEF size
<1>5. \A g \in G : Minus(ticket[g], notify) \in Tickets BY <1>1, <1>3, Clock
<1>. QED BY <1>1, <1>2, <1>3, <1>4, <1>5 DEF At

\* The line is no longer than the number of those who can stand in it.
LEMMA SizeBound ==
    ASSUME TypeOK, LineInv, NEW S \in SUBSET G, \A g \in G : InLine(g) => g \in S
    PROVE  IsFiniteSet(S) /\ size <= Cardinality(S)
<1>. DEFINE K == 0..(size - 1)
            f == [k \in K |-> CHOOSE g \in G : At(g, k)]
<1>1. size \in Nat BY LineTypes
<1>2. IsFiniteSet(S) BY FS_Subset, NotifyAssumption
<1>3. \A k \in K : \E g \in G : At(g, k) BY DEF LineInv, Filled
<1>4. \A k \in K : f[k] \in G /\ At(f[k], k) BY <1>3
<1>. HIDE DEF f
<1>5. \A k \in K : f[k] \in S /\ Minus(ticket[f[k]], notify) = k
  BY <1>4 DEF At
<1>6. DOMAIN f = K /\ f \in [K -> S] BY <1>5 DEF f
<1>7. \A j, k \in K : f[j] = f[k] => j = k BY <1>5
<1>8. f \in Injection(K, S) BY <1>6, <1>7 DEF Injection, IsInjective
<1>9. Cardinality(K) <= Cardinality(S) BY <1>2, <1>8, FS_Injection
<1>10. Cardinality(K) = size BY <1>1, FS_Interval
<1>. QED BY <1>2, <1>9, <1>10

LEMMA SizeLimit ==
    ASSUME TypeOK, LineInv PROVE size <= Half
<1>1. size <= Cardinality(G) BY SizeBound
<1>2. Cardinality(G) \in Nat BY NotifyAssumption, FS_CardinalityType
<1>. QED BY <1>1, <1>2, NotifyAssumption, LineTypes

-----------------------------------------------------------------------------
(***************************************************************************)
(* What a step does to the line: nothing, or it adds one at the end, takes *)
(* the first away, or empties it.                                          *)
(***************************************************************************)
LEMMA LineNow ==
    ASSUME TypeOK, LineInv
    PROVE  /\ line \in Seq(G) /\ Len(line) = size
           /\ \A k \in 0..(size - 1) : line[k + 1] \in G /\ At(line[k + 1], k)
           /\ \A i \in 1..size : i - 1 \in 0..(size - 1) /\ (i - 1) + 1 = i
           /\ \A g \in G : (\A i \in DOMAIN line : line[i] # g) <=> ~InLine(g)
<1>1. size \in Nat BY LineTypes
<1>2. \A i \in 1..size : i - 1 \in 0..(size - 1) /\ (i - 1) + 1 = i BY <1>1
<1>3. \A i \in 1..size : \E g \in G : At(g, i - 1)
  BY <1>2 DEF LineInv, Filled
<1>4. /\ DOMAIN line = 1..size
      /\ \A i \in 1..size : line[i] = CHOOSE g \in G : At(g, i - 1)
  BY DEF line, size, At
<1>5. \A i \in 1..size : line[i] \in G /\ At(line[i], i - 1) BY <1>3, <1>4
<1>6. line \in [1..size -> G] BY <1>4, <1>5 DEF line, size
<1>7. line \in Seq(G) /\ Len(line) = size BY <1>1, <1>6
<1>8. ASSUME NEW k \in 0..(size - 1)
      PROVE  line[k + 1] \in G /\ At(line[k + 1], k)
  <2>1. k + 1 \in 1..size /\ (k + 1) - 1 = k BY <1>1
  <2>2. At(line[k + 1], (k + 1) - 1) /\ line[k + 1] \in G BY <1>5, <2>1
  <2>. QED BY <2>1, <2>2
<1>9. ASSUME NEW g \in G, InLine(g) PROVE \E i \in DOMAIN line : line[i] = g
  <2>. DEFINE k == Minus(ticket[g], notify)
  <2>1. At(g, k) /\ k \in Nat BY <1>9, LineTypes
  <2>. HIDE DEF k
  <2>2. k \in 0..(size - 1) BY <1>1, <2>1 DEF LineInv, Within
  <2>3. line[k + 1] \in G /\ At(line[k + 1], k) BY <1>8, <2>2
  <2>4. line[k + 1] = g BY <2>1, <2>3 DEF LineInv, Single
  <2>5. k + 1 \in DOMAIN line BY <1>1, <1>4, <2>2
  <2>. QED BY <2>4, <2>5
<1>10. ASSUME NEW g \in G, NEW i \in DOMAIN line, line[i] = g PROVE InLine(g)
  BY <1>4, <1>5, <1>10 DEF At
<1>. QED BY <1>2, <1>7, <1>8, <1>9, <1>10

\* The line after a step is known from who is where.
LEMMA LineBecomes ==
    ASSUME NEW q, q \in Seq(G), size' = Len(q), Single',
           \A i \in 1..Len(q) : \E g \in G : q[i] = g /\ At(g, i - 1)'
    PROVE  line' = q
<1>1. Len(q) \in Nat /\ DOMAIN q = 1..Len(q) /\ q \in [1..Len(q) -> G]
  BY LenProperties
<1>2. line' = [i \in 1..size' |-> CHOOSE g \in G : At(g, i - 1)']
  BY DEF line, size, At
<1>3. ASSUME NEW i \in 1..Len(q)
      PROVE  (CHOOSE g \in G : At(g, i - 1)') = q[i]
  <2>1. i - 1 \in Nat BY <1>1
  <2>2. PICK g \in G : q[i] = g /\ At(g, i - 1)' OBVIOUS
  <2>3. \A h \in G : At(h, i - 1)' => h = g BY <2>1, <2>2 DEF Single
  <2>. QED BY <2>2, <2>3
<1>4. line' = [i \in 1..Len(q) |-> q[i]] BY <1>2, <1>3
<1>. QED BY <1>1, <1>4

LEMMA LineKept ==
    ASSUME TypeOK, LineInv, Fresh', size' = size,
           \A g \in G, k \in Nat : At(g, k)' <=> At(g, k)
    PROVE  LineInv' /\ line' = line
<1>1. size \in Nat /\ \A k \in 0..(size - 1) : k \in Nat BY LineTypes
<1>2. Single' BY DEF LineInv, Single
<1>3. Filled' BY <1>1 DEF LineInv, Filled
<1>4. Within' BY DEF LineInv, Within
<1>5. \A i \in 1..Len(line) : \E g \in G : line[i] = g /\ At(g, i - 1)'
  <2>1. ASSUME NEW i \in 1..Len(line) PROVE \E g \in G : line[i] = g /\ At(g, i - 1)'
    <3>1. i - 1 \in 0..(size - 1) /\ (i - 1) + 1 = i BY LineNow
    <3>2. line[i] \in G /\ At(line[i], i - 1) BY <3>1, LineNow
    <3>3. PICK g \in G : g = line[i] BY <3>2
    <3>. QED BY <1>1, <3>1, <3>2, <3>3
  <2>. QED BY <2>1
<1>6. line \in Seq(G) /\ size' = Len(line) BY LineNow
<1>7. line' = line BY <1>2, <1>5, <1>6, LineBecomes
<1>. QED BY <1>2, <1>3, <1>4, <1>7 DEF LineInv

LEMMA LineJoined ==
    ASSUME TypeOK, LineInv, Fresh', size' = size + 1, NEW g \in G, ~InLine(g),
           \A h \in G, k \in Nat :
               At(h, k)' <=> At(h, k) \/ (h = g /\ k = size)
    PROVE  LineInv' /\ line' = Append(line, g)
<1>0. size \in Nat BY LineTypes
<1>1. /\ size \in Nat /\ \A k \in 0..(size - 1) : k \in Nat
      /\ \A k \in 0..size : k \in 0..(size - 1) \/ k = size
      /\ (size + 1) - 1 = size
  BY <1>0
<1>2. Single' BY <1>1 DEF LineInv, Single, Within
<1>3. Filled'
  <2>1. ASSUME NEW k \in 0..size PROVE \E h \in G : At(h, k)'
    BY <1>1 DEF LineInv, Filled
  <2>. QED BY <1>1, <2>1 DEF Filled
<1>4. Within' BY <1>1 DEF LineInv, Within
<1>. DEFINE q == Append(line, g)
<1>5. /\ line \in Seq(G) /\ Len(line) = size BY LineNow
<1>6. /\ q \in Seq(G) /\ Len(q) = size + 1
      /\ \A i \in 1..size : q[i] = line[i]
      /\ q[size + 1] = g
  BY <1>5, AppendProperties
<1>. HIDE DEF q
<1>7. ASSUME NEW i \in 1..Len(q) PROVE \E h \in G : q[i] = h /\ At(h, i - 1)'
  <2>1. CASE i \in 1..size
    <3>1. i - 1 \in 0..(size - 1) /\ (i - 1) + 1 = i BY <2>1, LineNow
    <3>2. line[i] \in G /\ At(line[i], i - 1) BY <3>1, LineNow
    <3>3. PICK h \in G : h = line[i] BY <3>2
    <3>. QED BY <1>1, <1>6, <2>1, <3>1, <3>2, <3>3
  <2>2. CASE i = size + 1 BY <1>1, <1>6, <2>2
  <2>. QED BY <1>1, <1>6, <2>1, <2>2
<1>8. line' = q BY <1>2, <1>6, <1>7, LineBecomes
<1>. QED BY <1>2, <1>3, <1>4, <1>8 DEF LineInv, q

LEMMA LineLeft ==
    ASSUME TypeOK, LineInv, Fresh', size # 0, size' = size - 1,
           \A h \in G, k \in Nat : At(h, k)' <=> At(h, k + 1)
    PROVE  LineInv' /\ line # <<>> /\ line' = Tail(line)
<1>1. /\ size \in Nat /\ size - 1 \in Nat
      /\ \A k \in Nat : k + 1 \in Nat /\ (k + 1 < size <=> k < size - 1)
      /\ \A k \in 0..((size - 1) - 1) : k \in Nat /\ k + 1 \in 0..(size - 1)
  BY LineTypes
<1>2. Single' BY <1>1 DEF LineInv, Single
<1>3. Filled' BY <1>1 DEF LineInv, Filled
<1>4. Within' BY <1>1 DEF LineInv, Within
<1>5. /\ line \in Seq(G) /\ Len(line) = size BY LineNow
<1>6. line # <<>> BY <1>5
<1>. DEFINE q == Tail(line)
<1>7. /\ q \in Seq(G) /\ Len(q) = size - 1
      /\ \A i \in 1..(size - 1) : q[i] = line[i + 1]
  BY <1>1, <1>5, <1>6, HeadTailProperties
<1>. HIDE DEF q
<1>8. ASSUME NEW i \in 1..Len(q) PROVE \E h \in G : q[i] = h /\ At(h, i - 1)'
  <2>1. /\ i \in 1..(size - 1) /\ i \in 0..(size - 1)
        /\ i - 1 \in Nat /\ (i - 1) + 1 = i
    BY <1>1, <1>7
  <2>2. line[i + 1] \in G /\ At(line[i + 1], i) BY <2>1, LineNow
  <2>3. PICK h \in G : h = line[i + 1] BY <2>2
  <2>4. At(h, (i - 1) + 1) BY <2>1, <2>2, <2>3
  <2>5. At(h, i - 1)' BY <2>1, <2>4
  <2>. QED BY <1>7, <2>1, <2>3, <2>5
<1>9. line' = q BY <1>2, <1>7, <1>8, LineBecomes
<1>. QED BY <1>2, <1>3, <1>4, <1>6, <1>9 DEF LineInv, q

LEMMA LineEmptied ==
    ASSUME Fresh', size' = 0, \A h \in G : ~InLine(h)'
    PROVE  LineInv' /\ line' = <<>>
<1>1. \A h \in G, k \in Nat : ~At(h, k)' BY DEF At
<1>2. Single' BY <1>1 DEF Single
<1>3. Filled' BY DEF Filled
<1>4. Within' BY <1>1 DEF Within
<1>5. <<>> \in Seq(G) /\ Len(<<>>) = 0 OBVIOUS
<1>. DEFINE q == <<>>
<1>6. /\ q \in Seq(G) /\ size' = Len(q)
      /\ \A i \in 1..Len(q) : \E g \in G : q[i] = g /\ At(g, i - 1)'
  BY <1>5
<1>. HIDE DEF q
<1>7. line' = q BY <1>2, <1>6, LineBecomes
<1>. QED BY <1>2, <1>3, <1>4, <1>7 DEF LineInv, q

-----------------------------------------------------------------------------
(***************************************************************************)
(* Every step is one of AbsNotify or leaves its state alone                *)
(***************************************************************************)
AbsStep == [Abs!AbsNext]_(Abs!absVars)

\* What a step does not touch keeps its place.
LEMMA PlaceKept ==
    ASSUME TypeOK, UNCHANGED notify,
           \A h \in G : InLine(h)' <=> InLine(h),
           \A h \in G : InLine(h) => ticket'[h] = ticket[h]
    PROVE  \A h \in G, k \in Nat : At(h, k)' <=> At(h, k)
BY DEF At

LEMMA InLineIs ==
    /\ \A h \in G : InLine(h) <=>
         \/ Has(list, h)
         \/ pc[h] = "added" /\ ~Less(ticket[h], notify)
    /\ \A h \in G : InLine(h)' <=>
         \/ Has(list', h)
         \/ pc'[h] = "added" /\ ~Less(ticket'[h], notify')
    /\ IndInv => \A h \in G : Has(list, h) => pc[h] = "parked"
    /\ \A h \in G : h \in inside <=> pc[h] \in {"added", "parked"}
    /\ \A h \in G : h \in inside' <=> pc'[h] \in {"added", "parked"}
    /\ inside \subseteq G /\ inside' \subseteq G
BY DEF InLine, Has, IndInv, Lines, AllParked, inside

\* A step of a goroutine that is outside and stays there.
LEMMA OutsideKeeps ==
    ASSUME IndInv, LineInv, NEW g \in G, pc[g] \notin {"added", "parked"},
           NEW p \in PCs \ {"added", "parked"}, Goto(g, p),
           UNCHANGED <<wait, notify, list, ticket>>
    PROVE  /\ LineInv' /\ line' = line /\ inside' = inside
           /\ \A h \in G : InLine(h)' <=> InLine(h)
<1>1. TypeOK /\ pc \in [G -> PCs] BY DEF IndInv, TypeOK
<1>2. /\ pc'[g] = p /\ \A h \in G \ {g} : pc'[h] = pc[h]
      /\ \A h \in G : h # g => pc'[h] = pc[h]
  BY <1>1 DEF Goto
<1>3. \A h \in G : InLine(h)' <=> InLine(h) BY <1>2, InLineIs
<1>4. \A h \in G, k \in Nat : At(h, k)' <=> At(h, k) BY <1>1, <1>3, PlaceKept
<1>5. Fresh' /\ size' = size BY <1>2 DEF LineInv, Fresh, size
<1>6. LineInv' /\ line' = line BY <1>1, <1>4, <1>5, LineKept
<1>7. \A h \in G : h \in inside' <=> h \in inside BY <1>2, InLineIs
<1>8. inside' = inside BY <1>7, InLineIs
<1>. QED BY <1>3, <1>6, <1>8

\* Whom a notifier has passed over: who was in line when it was called, and is
\* still, has a ticket before the one that was next then.
AheadInv ==
    /\ \A g \in G : ahead[g] # {} => pc[g] \in {"all", "allLock", "one", "oneLock"}
    /\ \A g \in G : \A h \in ahead[g] : InLine(h)
    /\ \A g \in G : pc[g] \in {"all", "one"} =>
          \A h \in ahead[g] : Minus(ticket[h], notify) < Minus(old[g], notify)

LEMMA CalledIs ==
    /\ \A h \in G : called[h] = CASE pc[h] \in {"one", "oneLock"} -> "signal"
                                  [] pc[h] \in {"all", "allLock"} -> "broadcast"
                                  [] OTHER -> "none"
    /\ \A h \in G : called'[h] = CASE pc'[h] \in {"one", "oneLock"} -> "signal"
                                   [] pc'[h] \in {"all", "allLock"} -> "broadcast"
                                   [] OTHER -> "none"
    /\ DOMAIN called = G /\ DOMAIN called' = G
    /\ called = [h \in G |-> called[h]] /\ called' = [h \in G |-> called'[h]]
BY DEF called

\* A step from p to q.
LEMMA CalledMoves ==
    ASSUME TypeOK, NEW g \in G, NEW p \in PCs, NEW q \in PCs, pc[g] = p,
           pc' = [pc EXCEPT ![g] = q]
    PROVE  /\ q \in {"idle", "walk", "added", "parked"} =>
                 called' = [called EXCEPT ![g] = "none"]
           /\ q = "one" => called' = [called EXCEPT ![g] = "signal"]
           /\ q = "all" => called' = [called EXCEPT ![g] = "broadcast"]
           /\ \/ p \in {"one", "oneLock"} /\ q \in {"one", "oneLock"}
              \/ p \in {"all", "allLock"} /\ q \in {"all", "allLock"}
              \/ p \notin {"all", "allLock", "one", "oneLock"} /\
                 q \notin {"all", "allLock", "one", "oneLock"}
              => called' = called
<1>1. pc'[g] = q /\ \A h \in G : h # g => pc'[h] = pc[h] BY DEF TypeOK
<1>2. \A h \in G : h # g => called'[h] = called[h] BY <1>1, CalledIs
<1>3. ASSUME NEW v, called'[g] = v PROVE called' = [called EXCEPT ![g] = v]
  BY <1>2, <1>3, CalledIs
<1>4. called[g] = called'[g] => called' = called BY <1>2, CalledIs
<1>5. /\ q \in {"idle", "walk", "added", "parked"} => called'[g] = "none"
      /\ q = "one" => called'[g] = "signal"
      /\ q = "all" => called'[g] = "broadcast"
  BY <1>1, CalledIs
<1>6. \/ p \in {"one", "oneLock"} /\ q \in {"one", "oneLock"}
      \/ p \in {"all", "allLock"} /\ q \in {"all", "allLock"}
      \/ p \notin {"all", "allLock", "one", "oneLock"} /\
         q \notin {"all", "allLock", "one", "oneLock"}
      => called[g] = called'[g]
  BY <1>1, CalledIs
<1>. QED BY <1>3, <1>4, <1>5, <1>6

\* A step that takes nobody out of the line and no notifier further.
LEMMA AheadKept ==
    ASSUME IndInv, AheadInv, UNCHANGED <<notify, old, ahead>>,
           \A h \in G : InLine(h) => InLine(h)' /\ ticket'[h] = ticket[h],
           \A h \in G : /\ pc'[h] \in {"all", "one"} => pc'[h] = pc[h]
                        /\ pc[h] \in {"all", "one", "allLock", "oneLock"} =>
                              pc'[h] \in {"all", "one", "allLock", "oneLock"}
    PROVE  AheadInv'
<1>1. \A g \in G : ahead[g] \subseteq G BY DEF IndInv, TypeOK
<1>. QED BY <1>1 DEF AheadInv

\* A call that ends.
LEMMA AheadEnds ==
    ASSUME IndInv, AheadInv, NEW g \in G, Ends(g), UNCHANGED ticket,
           pc'[g] \notin {"all", "one"},
           \A h \in G : h # g => pc'[h] = pc[h] /\ old'[h] = old[h],
           \A h \in G, k \in G :
               h # g /\ pc[h] \in {"all", "one"} /\ k \in ahead[h] /\ InLine(k)' =>
                   Minus(ticket[k], notify') < Minus(old[h], notify')
    PROVE  /\ AheadInv'
           /\ ahead' = [h \in G |-> IF h = g THEN {}
                                    ELSE {k \in ahead[h] : InLine(k)'}]
<1>1. \A h \in G : ahead[h] \subseteq G BY DEF IndInv, TypeOK
<1>2. \A h \in G : ahead'[h] = IF h = g THEN {} ELSE {k \in ahead[h] : InLine(k)'}
  BY DEF Ends
<1>3. ahead' = [h \in G |-> IF h = g THEN {} ELSE {k \in ahead[h] : InLine(k)'}]
  BY DEF Ends
<1>4. \A h \in G : ahead'[h] # {} => pc'[h] \in {"all", "allLock", "one", "oneLock"}
  BY <1>2 DEF AheadInv
<1>5. \A h \in G : \A k \in ahead'[h] : InLine(k)' BY <1>2
<1>6. ASSUME NEW h \in G, pc'[h] \in {"all", "one"}, NEW k \in ahead'[h]
      PROVE  Minus(ticket'[k], notify') < Minus(old'[h], notify')
  <2>1. h # g /\ k \in ahead[h] /\ k \in G /\ InLine(k)' BY <1>1, <1>2, <1>6
  <2>. QED BY <1>6, <2>1
<1>. QED BY <1>3, <1>4, <1>5, <1>6 DEF AheadInv

\* Who stands in the line, now and after a step.
Stood == \A k \in G : k \in Abs!Standing(line) <=> InLine(k)

LEMMA Stands == TypeOK /\ LineInv => Stood
<1>1. TypeOK /\ LineInv =>
        \A k \in G : (\A i \in DOMAIN line : line[i] # k) <=> ~InLine(k)
  BY LineNow
<1>. QED BY <1>1 DEF Stood, Abs!Standing

LEMMA StandsNext == (TypeOK /\ LineInv)' => Stood'
<1>. QED BY Stands, PTL

\* In terms of the line.
LEMMA EndIs ==
    ASSUME IndInv, LineInv, LineInv', TypeOK', NEW g \in G,
           ahead' = [h \in G |-> IF h = g THEN {} ELSE {k \in ahead[h] : InLine(k)'}],
           called' = [called EXCEPT ![g] = "none"], inside' = inside
    PROVE  Abs!End(g)
<1>1. \A k \in G : k \in Abs!Standing(line') <=> InLine(k)'
  BY StandsNext DEF Stood
<1>2. \A h \in G : ahead[h] \subseteq G BY DEF IndInv, TypeOK
<1>3. \A h \in G : {k \in ahead[h] : InLine(k)'} = ahead[h] \cap Abs!Standing(line')
  BY <1>1, <1>2
<1>. QED BY <1>3 DEF Abs!End

\* A step of a notifier on its way, or after its effect.
LEMMA SilentRefines ==
    ASSUME IndInv, LineInv, AheadInv, NEW g \in G, pc[g] \notin {"added", "parked"},
           NEW p \in PCs \ {"added", "parked", "all", "one"}, Goto(g, p),
           called' = called,
           UNCHANGED <<wait, notify, list, ticket, ahead>>,
           \A h \in G : h # g => old'[h] = old[h]
    PROVE  LineInv' /\ AheadInv' /\ AbsStep
<1>1. /\ LineInv' /\ line' = line /\ inside' = inside
      /\ \A h \in G : InLine(h)' <=> InLine(h)
  BY OutsideKeeps
<1>2. pc'[g] = p /\ \A h \in G : h # g => pc'[h] = pc[h]
  BY DEF IndInv, TypeOK, Goto
<1>3. /\ called[g] = "none" <=> pc[g] \notin {"all", "allLock", "one", "oneLock"}
      /\ called'[g] = "none" <=> pc'[g] \notin {"all", "allLock", "one", "oneLock"}
  BY CalledIs
<1>4. AheadInv'
  <2>1. \A h \in G : ahead[h] \subseteq G BY DEF IndInv, TypeOK
  <2>. QED BY <1>1, <1>2, <1>3, <2>1 DEF AheadInv
<1>. QED BY <1>1, <1>4 DEF AbsStep, Abs!absVars

\* A call without effect.
LEMMA PassRefines ==
    ASSUME IndInv, LineInv, AheadInv, NEW g \in G,
           pc[g] \in {"all", "one", "oneLock"}, ahead[g] = {},
           Goto(g, "idle"), Ends(g),
           UNCHANGED <<wait, notify, list, ticket>>,
           \A h \in G : h # g => old'[h] = old[h], TypeOK'
    PROVE  LineInv' /\ AheadInv' /\ AbsStep
<1>1. /\ LineInv' /\ line' = line /\ inside' = inside
      /\ \A h \in G : InLine(h)' <=> InLine(h)
  BY OutsideKeeps DEF PCs
<1>2. pc' = [pc EXCEPT ![g] = "idle"] /\ TypeOK BY DEF IndInv, TypeOK, Goto
<1>3. pc'[g] = "idle" /\ \A h \in G : h # g => pc'[h] = pc[h]
  BY <1>2 DEF TypeOK
<1>4. /\ AheadInv'
      /\ ahead' = [h \in G |-> IF h = g THEN {} ELSE {k \in ahead[h] : InLine(k)'}]
  <2>1. \A h \in G, k \in G :
           h # g /\ pc[h] \in {"all", "one"} /\ k \in ahead[h] /\ InLine(k)' =>
               Minus(ticket[k], notify') < Minus(old[h], notify')
    BY DEF AheadInv
  <2>. QED BY <1>3, <2>1, AheadEnds
<1>5. called' = [called EXCEPT ![g] = "none"] BY <1>2, CalledMoves DEF PCs
<1>6. Abs!End(g) BY <1>1, <1>4, <1>5, EndIs
<1>7. called[g] # "none" BY CalledIs
<1>8. Abs!Pass(g) BY <1>1, <1>6, <1>7 DEF Abs!Pass
<1>. QED BY <1>1, <1>4, <1>8 DEF AbsStep, Abs!AbsNext

\* A call begins.
LEMMA LoadWaitRefines ==
    ASSUME IndInv, LineInv, AheadInv, NEW g \in G, NEW p \in {"all", "one"}, LoadWait(g, p)
    PROVE  LineInv' /\ AheadInv' /\ AbsStep
<1>1. /\ pc[g] = "idle" /\ pc' = [pc EXCEPT ![g] = p] /\ TypeOK
      /\ old' = [old EXCEPT ![g] = wait]
      /\ ahead' = [ahead EXCEPT ![g] = {h \in G : InLine(h)}]
      /\ UNCHANGED <<wait, notify, list, ticket>>
  BY DEF LoadWait, Goto, IndInv
<1>2. /\ pc'[g] = p /\ \A h \in G : h # g => pc'[h] = pc[h] /\ old'[h] = old[h]
      /\ \A h \in G : h # g => ahead'[h] = ahead[h]
      /\ ahead'[g] = {h \in G : InLine(h)} /\ old'[g] = wait
  BY <1>1 DEF TypeOK
<1>3. /\ LineInv' /\ line' = line /\ inside' = inside
      /\ \A h \in G : InLine(h)' <=> InLine(h)
  BY <1>1, OutsideKeeps DEF PCs, Goto
<1>4. AheadInv'
  <2>1. ASSUME NEW h \in G, InLine(h) PROVE Minus(ticket[h], notify) < size
    <3>1. At(h, Minus(ticket[h], notify)) /\ Minus(ticket[h], notify) \in Nat
      BY <1>1, <2>1, LineTypes
    <3>. QED BY <3>1 DEF LineInv, Within
  <2>2. \A h \in G : ahead[h] \subseteq G BY DEF IndInv, TypeOK
  <2>3. Minus(old'[g], notify') = size BY <1>1, <1>2 DEF size
  <2>4. ASSUME NEW h \in G
        PROVE  /\ ahead'[h] # {} => pc'[h] \in {"all", "allLock", "one", "oneLock"}
               /\ \A k \in ahead'[h] : InLine(k)'
               /\ pc'[h] \in {"all", "one"} =>
                     \A k \in ahead'[h] : Minus(ticket'[k], notify') < Minus(old'[h], notify')
    <3>1. CASE h = g BY <1>1, <1>2, <1>3, <2>1, <2>3, <3>1
    <3>2. CASE h # g
      BY <1>1, <1>2, <1>3, <2>2, <3>2 DEF AheadInv
    <3>. QED BY <3>1, <3>2
  <2>. QED BY <2>4 DEF AheadInv
<1>5. {h \in G : InLine(h)} = Abs!Standing(line)
  <2>1. Stood BY <1>1, Stands
  <2>2. Abs!Standing(line) \subseteq G
    <3>1. line \in Seq(G) BY <1>1, LineNow
    <3>. QED BY <3>1, ElementOfSeq, LenProperties DEF Abs!Standing
  <2>. QED BY <2>1, <2>2 DEF Stood
<1>6. g \notin inside /\ called[g] = "none" BY <1>1, InLineIs, CalledIs
<1>7. CASE p = "one"
  <2>1. called' = [called EXCEPT ![g] = "signal"]
    BY <1>1, <1>7, CalledMoves DEF PCs
  <2>2. Abs!Begin(g, "signal") BY <1>1, <1>3, <1>5, <1>6, <2>1 DEF Abs!Begin
  <2>. QED BY <1>3, <1>4, <2>2 DEF AbsStep, Abs!AbsNext
<1>8. CASE p = "all"
  <2>1. called' = [called EXCEPT ![g] = "broadcast"]
    BY <1>1, <1>8, CalledMoves DEF PCs
  <2>2. Abs!Begin(g, "broadcast") BY <1>1, <1>3, <1>5, <1>6, <2>1 DEF Abs!Begin
  <2>. QED BY <1>3, <1>4, <2>2 DEF AbsStep, Abs!AbsNext
<1>. QED BY <1>7, <1>8

\* The test without the lock: if the counter has come to the ticket that was next
\* when the call began, all who were in line then have been let go.
LEMMA LoadNotifyRefines ==
    ASSUME IndInv, LineInv, AheadInv, NEW g \in G,
           NEW p \in {"all", "one"}, NEW q \in {"allLock", "oneLock"},
           p = "all" <=> q = "allLock", LoadNotify(g, p, q), IndInv'
    PROVE  LineInv' /\ AheadInv' /\ AbsStep
<1>1. /\ pc[g] = p /\ UNCHANGED <<wait, notify, list, ticket>> /\ TypeOK /\ TypeOK'
      /\ old' = [old EXCEPT ![g] = 0]
  BY DEF LoadNotify, Forget, IndInv
<1>2. \A h \in G : h # g => old'[h] = old[h] BY <1>1 DEF TypeOK
<1>3. CASE old[g] = notify
  <2>1. Goto(g, "idle") /\ Ends(g) BY <1>3 DEF LoadNotify
  <2>2. Minus(old[g], notify) = 0
    <3>1. old[g] \in Tickets /\ notify \in Tickets BY <1>1 DEF TypeOK
    <3>. QED BY <1>3, <3>1, Clock
  <2>3. ahead[g] = {}
    <3>1. ASSUME NEW h \in ahead[g] PROVE FALSE
      <4>1. h \in G BY <1>1 DEF TypeOK
      <4>2. Minus(ticket[h], notify) < 0
        BY <1>1, <2>2 DEF AheadInv
      <4>3. Minus(ticket[h], notify) \in Nat
        BY <1>1, <4>1, LineTypes
      <4>. QED BY <4>2, <4>3
    <3>. QED BY <3>1
  <2>. QED BY <1>1, <1>2, <2>1, <2>3, PassRefines
<1>4. CASE old[g] # notify
  <2>1. Goto(g, q) /\ ahead' = ahead BY <1>4 DEF LoadNotify
  <2>2. called' = called BY <1>1, <2>1, CalledMoves DEF PCs, Goto
  <2>. QED BY <1>1, <1>2, <2>1, <2>2, SilentRefines DEF PCs
<1>. QED BY <1>3, <1>4

LEMMA AddRefines ==
    ASSUME IndInv, LineInv, AheadInv, NEW g \in G, Add(g) PROVE LineInv' /\ AheadInv' /\ AbsStep
<1>1. /\ TypeOK /\ pc \in [G -> PCs] /\ ticket \in [G -> Tickets]
      /\ wait \in Tickets /\ notify \in Tickets /\ Half \in Nat \ {0}
      /\ Tickets = 0..(2 * Half - 1) /\ size \in Tickets
      /\ \A h \in G : ticket[h] \in Tickets
  BY LineTypes DEF IndInv, TypeOK
<1>2. /\ pc[g] = "idle" /\ InWindow /\ wait' = Plus1(wait)
      /\ pc' = [pc EXCEPT ![g] = "added"]
      /\ ticket' = [ticket EXCEPT ![g] = wait]
      /\ notify' = notify /\ list' = list
  BY DEF Add, Goto
<1>3. /\ pc'[g] = "added" /\ ticket'[g] = wait
      /\ \A h \in G : h # g => pc'[h] = pc[h] /\ ticket'[h] = ticket[h]
  BY <1>1, <1>2
<1>4. ~InLine(g) BY <1>2, InLineIs
<1>5. size < Half
  <2>1. \A h \in G : InLine(h) => h \in G \ {g} BY <1>4
  <2>2. size <= Cardinality(G \ {g}) BY <1>1, <2>1, SizeBound
  <2>3. /\ Cardinality(G \ {g}) = Cardinality(G) - 1
        /\ Cardinality(G) \in Nat
    BY NotifyAssumption, FS_RemoveElement, FS_CardinalityType
  <2>. QED BY <1>1, <2>2, <2>3, NotifyAssumption
<1>6. size' = size + 1
  <2>1. Minus(Plus1(wait), notify) =
          IF Minus(wait, notify) = 2 * Half - 1 THEN 0 ELSE Minus(wait, notify) + 1
    BY <1>1, Clock
  <2>. QED BY <1>1, <1>2, <1>5, <2>1 DEF size
<1>7. InLine(g)' /\ Minus(ticket'[g], notify') = size
  BY <1>1, <1>2, <1>3, <1>5, InLineIs DEF Less, size
<1>8. \A h \in G : h # g => (InLine(h)' <=> InLine(h))
  BY <1>2, <1>3, InLineIs
<1>9. \A h \in G, k \in Nat : At(h, k)' <=> At(h, k) \/ (h = g /\ k = size)
  BY <1>2, <1>3, <1>4, <1>7, <1>8 DEF At
<1>10. Fresh'
  <2>1. ASSUME NEW h \in G, pc'[h] = "added", h # g
        PROVE  Minus(wait', ticket'[h]) \in 1..Half
    <3>1. /\ ticket'[h] = ticket[h] /\ ticket[h] \in Tickets
          /\ Minus(wait, ticket[h]) \in 1..Half
          /\ Minus(wait, ticket[h]) < Half - 1
      BY <1>1, <1>2, <1>3, <2>1 DEF LineInv, Fresh, InWindow
    <3>2. Minus(Plus1(wait), ticket[h]) =
            IF Minus(wait, ticket[h]) = 2 * Half - 1 THEN 0
            ELSE Minus(wait, ticket[h]) + 1
      <4>1. wait \in Tickets /\ ticket[h] \in Tickets BY <1>1
      <4>. QED BY <4>1, Clock
    <3>. QED BY <1>1, <1>2, <3>1, <3>2
  <2>2. Minus(wait', ticket'[g]) = 1
    <3>1. Minus(wait, wait) = 0 BY <1>1, Clock
    <3>2. Minus(Plus1(wait), wait) =
            IF Minus(wait, wait) = 2 * Half - 1 THEN 0 ELSE Minus(wait, wait) + 1
      BY <1>1, Clock
    <3>. QED BY <1>1, <1>2, <1>3, <3>1, <3>2
  <2>. QED BY <1>1, <2>1, <2>2 DEF Fresh
<1>11. LineInv' /\ line' = Append(line, g)
  BY <1>1, <1>4, <1>6, <1>9, <1>10, LineJoined
<1>14. called[g] = "none" /\ UNCHANGED <<called, ahead>>
  <2>1. called[g] = "none" BY <1>2, CalledIs
  <2>2. called' = called BY <1>1, <1>2, CalledMoves DEF PCs
  <2>. QED BY <2>1, <2>2 DEF Add
<1>15. AheadInv'
  <2>1. UNCHANGED <<notify, old, ahead>> BY DEF Add
  <2>2. \A h \in G : InLine(h) => InLine(h)' /\ ticket'[h] = ticket[h]
    BY <1>3, <1>4, <1>8
  <2>3. \A h \in G : /\ pc'[h] \in {"all", "one"} => pc'[h] = pc[h]
                     /\ pc[h] \in {"all", "one", "allLock", "oneLock"} =>
                           pc'[h] \in {"all", "one", "allLock", "oneLock"}
    BY <1>2, <1>3
  <2>. QED BY <2>1, <2>2, <2>3, AheadKept
<1>12. g \notin inside /\ inside' = inside \cup {g}
  <2>1. g \notin inside BY <1>2, InLineIs
  <2>2. \A h \in G : h \in inside' <=> h \in inside \/ h = g
    BY <1>3, InLineIs
  <2>. QED BY <2>1, <2>2, InLineIs
<1>13. Abs!Enter(g) BY <1>11, <1>12, <1>14 DEF Abs!Enter
<1>. QED BY <1>11, <1>13, <1>15 DEF AbsStep, Abs!AbsNext

\* Somebody who is not in line any more goes away.
LEMMA LeaveRefines ==
    ASSUME IndInv, LineInv, AheadInv, NEW g \in G, pc[g] \in {"added", "parked"},
           ~InLine(g), pc' = [pc EXCEPT ![g] = "idle"], ticket' = Forget(ticket, g),
           UNCHANGED <<wait, notify, list, old, ahead>>
    PROVE  LineInv' /\ AheadInv' /\ AbsStep
<1>1. TypeOK /\ pc \in [G -> PCs] /\ ticket \in [G -> Tickets]
  BY DEF IndInv, TypeOK
<1>2. /\ pc'[g] = "idle"
      /\ \A h \in G : h # g => pc'[h] = pc[h] /\ ticket'[h] = ticket[h]
  BY <1>1 DEF Forget
<1>3. \A h \in G : InLine(h)' <=> InLine(h) BY <1>2, InLineIs
<1>4. \A h \in G, k \in Nat : At(h, k)' <=> At(h, k)
  <2>1. \A h \in G : InLine(h) => ticket'[h] = ticket[h] BY <1>2
  <2>. QED BY <1>1, <1>3, <2>1, PlaceKept
<1>5. Fresh' /\ size' = size BY <1>2 DEF LineInv, Fresh, size
<1>6. LineInv' /\ line' = line BY <1>1, <1>4, <1>5, LineKept
<1>7. g \in inside /\ inside' = inside \ {g}
  <2>1. g \in inside BY InLineIs
  <2>2. \A h \in G : h \in inside' <=> h \in inside /\ h # g BY <1>2, InLineIs
  <2>. QED BY <2>1, <2>2, InLineIs
<1>8. g \notin Abs!Standing(line) BY <1>1, Stands DEF Stood
<1>11. called' = called BY <1>1, CalledMoves DEF PCs
<1>9. Abs!Leave(g) BY <1>6, <1>7, <1>8, <1>11 DEF Abs!Leave
<1>10. AheadInv'
  <2>1. \A h \in G : InLine(h) => InLine(h)' /\ ticket'[h] = ticket[h]
    BY <1>2, <1>3
  <2>2. \A h \in G : /\ pc'[h] \in {"all", "one"} => pc'[h] = pc[h]
                     /\ pc[h] \in {"all", "one", "allLock", "oneLock"} =>
                           pc'[h] \in {"all", "one", "allLock", "oneLock"}
    BY <1>2
  <2>. QED BY <2>1, <2>2, AheadKept
<1>. QED BY <1>6, <1>9, <1>10 DEF AbsStep, Abs!AbsNext

LEMMA WaitRefines ==
    ASSUME IndInv, LineInv, AheadInv, NEW g \in G, Wait(g) PROVE LineInv' /\ AheadInv' /\ AbsStep
<1>1. TypeOK /\ pc \in [G -> PCs] /\ list \in Seq(G) /\ pc[g] = "added"
  BY DEF IndInv, TypeOK, Wait
<1>2. ~Has(list, g) BY <1>1, InLineIs
<1>3. CASE Less(ticket[g], notify)
  <2>1. ~InLine(g) BY <1>2, <1>3, InLineIs
  <2>. QED BY <1>1, <1>3, <2>1, LeaveRefines DEF Wait, Goto
<1>4. CASE ~Less(ticket[g], notify)
  <2>1. /\ pc' = [pc EXCEPT ![g] = "parked"] /\ list' = Append(list, g)
        /\ UNCHANGED <<wait, notify, ticket, old, ahead>>
    BY <1>4 DEF Wait, Goto
  <2>2. pc'[g] = "parked" /\ \A h \in G : h # g => pc'[h] = pc[h]
    BY <1>1, <2>1
  <2>3. \A h : Has(list', h) <=> Has(list, h) \/ h = g
    BY <1>1, <1>2, <2>1, LineAppended DEF IndInv, Lines
  <2>4. \A h \in G : InLine(h)' <=> InLine(h)
    BY <1>1, <1>4, <2>1, <2>2, <2>3, InLineIs
  <2>5. \A h \in G, k \in Nat : At(h, k)' <=> At(h, k)
    BY <1>1, <2>1, <2>4, PlaceKept
  <2>6. Fresh' /\ size' = size BY <2>1, <2>2 DEF LineInv, Fresh, size
  <2>7. LineInv' /\ line' = line BY <1>1, <2>5, <2>6, LineKept
  <2>8. \A h \in G : h \in inside' <=> h \in inside BY <1>1, <2>2, InLineIs
  <2>9. inside' = inside BY <2>8, InLineIs
  <2>10. called' = called BY <1>1, <2>1, CalledMoves DEF PCs
  <2>11. \A h \in G : /\ pc'[h] \in {"all", "one"} => pc'[h] = pc[h]
                      /\ pc[h] \in {"all", "one", "allLock", "oneLock"} =>
                            pc'[h] \in {"all", "one", "allLock", "oneLock"}
    BY <1>1, <2>2
  <2>12. AheadInv' BY <2>1, <2>4, <2>11, AheadKept
  <2>. QED BY <2>1, <2>7, <2>9, <2>10, <2>12 DEF AbsStep, Abs!absVars
<1>. QED BY <1>3, <1>4

LEMMA NotifyAllRefines ==
    ASSUME IndInv, LineInv, AheadInv, NEW g \in G, NotifyAll(g) PROVE LineInv' /\ AheadInv' /\ AbsStep
<1>1. /\ TypeOK /\ pc \in [G -> PCs] /\ wait \in Tickets /\ Half \in Nat \ {0}
      /\ Tickets = 0..(2 * Half - 1) /\ \A h \in G : ticket[h] \in Tickets
  BY LineTypes DEF IndInv, TypeOK
<1>2. /\ pc[g] = "allLock" /\ pc' = [pc EXCEPT ![g] = "walk"]
      /\ list' = <<>> /\ notify' = wait /\ UNCHANGED <<wait, ticket>>
  BY DEF NotifyAll, Goto
<1>3. pc'[g] = "walk" /\ \A h \in G : h # g => pc'[h] = pc[h] BY <1>1, <1>2
<1>4. \A h : ~Has(list', h) BY <1>2 DEF Has
<1>5. ASSUME NEW h \in G PROVE ~InLine(h)'
  <2>1. CASE pc'[h] = "added"
    <3>1. pc[h] = "added" /\ ticket'[h] = ticket[h] BY <1>2, <1>3, <2>1
    <3>2. Minus(wait, ticket[h]) \in 1..Half BY <3>1 DEF LineInv, Fresh
    <3>3. /\ Minus(wait, wait) = 0
          /\ Minus(ticket[h], wait) \in Tickets
          /\ Minus(wait, ticket[h]) =
               IF Minus(wait, wait) >= Minus(ticket[h], wait)
               THEN Minus(wait, wait) - Minus(ticket[h], wait)
               ELSE Minus(wait, wait) - Minus(ticket[h], wait) + 2 * Half
      <4>1. wait \in Tickets /\ ticket[h] \in Tickets BY <1>1
      <4>. QED BY <4>1, Clock, ClockSum
    <3>4. Minus(ticket[h], wait) >= Half BY <1>1, <3>2, <3>3
    <3>5. Less(ticket'[h], notify') BY <1>2, <3>1, <3>4 DEF Less
    <3>. QED BY <1>4, <3>5, InLineIs
  <2>. QED BY <1>4, <2>1, InLineIs
<1>6. size' = 0
  <2>1. Minus(wait, wait) = 0 BY <1>1, Clock
  <2>. QED BY <1>2, <2>1 DEF size
<1>7. Fresh' BY <1>2, <1>3 DEF LineInv, Fresh
<1>8. LineInv' /\ line' = <<>> BY <1>5, <1>6, <1>7, LineEmptied
<1>9. \A h \in G : h \in inside' <=> h \in inside BY <1>2, <1>3, InLineIs
<1>10. inside' = inside BY <1>9, InLineIs
<1>12. /\ AheadInv'
       /\ ahead' = [h \in G |-> IF h = g THEN {} ELSE {k \in ahead[h] : InLine(k)'}]
  <2>1. Ends(g) /\ UNCHANGED <<ticket, old>> BY DEF NotifyAll
  <2>. QED BY <1>2, <1>3, <1>5, <2>1, AheadEnds
<1>13. called' = [called EXCEPT ![g] = "none"]
  BY <1>1, <1>2, CalledMoves DEF PCs
<1>14. Abs!End(g)
  BY <1>8, <1>10, <1>12, <1>13, NotifyAllStep, EndIs DEF IndInv
<1>15. called[g] = "broadcast" BY <1>2, CalledIs
<1>11. Abs!Broadcast(g) BY <1>8, <1>14, <1>15 DEF Abs!Broadcast
<1>. QED BY <1>8, <1>11, <1>12 DEF AbsStep, Abs!AbsNext

\* The first of the line goes, asleep or not; whoever was let go before cannot
\* come back into it, for a ticket that was passed is not half the range old.
LEMMA NotifyOneRefines ==
    ASSUME IndInv, LineInv, AheadInv, NEW g \in G, NotifyOne(g) PROVE LineInv' /\ AheadInv' /\ AbsStep
<1>1. /\ TypeOK /\ pc \in [G -> PCs] /\ list \in Seq(G)
      /\ pc[g] = "oneLock" /\ UNCHANGED <<wait, ticket>>
  BY DEF IndInv, TypeOK, NotifyOne
<1>2. CASE notify = wait
  <2>1. /\ Goto(g, "idle") /\ UNCHANGED <<wait, notify, list, ticket, old>>
        /\ Ends(g)
    BY <1>2 DEF NotifyOne
  <2>2. \A h \in G : ~InLine(h)
    <3>1. size = 0 BY <1>1, <1>2, LineTypes, Clock DEF size
    <3>2. \A h \in G : InLine(h) => At(h, Minus(ticket[h], notify))
      BY <1>1, LineTypes
    <3>. QED BY <1>1, <3>1, <3>2, LineTypes DEF LineInv, Within
  <2>3. ahead[g] = {} BY <1>1, <2>2 DEF AheadInv, TypeOK
  <2>. QED BY <1>1, <2>1, <2>3, NotifyOneStep, PassRefines DEF IndInv
<1>3. CASE notify # wait
  <2>1. /\ wait \in Tickets /\ notify \in Tickets /\ size \in Tickets
        /\ Half \in Nat \ {0} /\ Tickets = 0..(2 * Half - 1)
        /\ \A h \in G : /\ ticket[h] \in Tickets
                        /\ Minus(ticket[h], notify) \in Tickets
                        /\ InLine(h) => At(h, Minus(ticket[h], notify))
    BY <1>1, LineTypes
  <2>2. notify' = Plus1(notify) BY <1>3 DEF NotifyOne
  <2>3. size # 0 /\ size' = size - 1
    <3>1. /\ size = 0 <=> wait = notify
          /\ Minus(wait, Plus1(notify)) = IF size = 0 THEN 2 * Half - 1 ELSE size - 1
      <4>1. wait \in Tickets /\ notify \in Tickets BY <2>1
      <4>. QED BY <4>1, Clock DEF size
    <3>. QED BY <1>1, <1>3, <2>2, <3>1 DEF size
  <2>4. size <= Half BY <1>1, SizeLimit
  <2>5. ASSUME NEW h \in G
        PROVE  Minus(ticket[h], notify') = IF Minus(ticket[h], notify) = 0
                                           THEN 2 * Half - 1
                                           ELSE Minus(ticket[h], notify) - 1
    <3>1. ticket[h] \in Tickets /\ notify \in Tickets BY <2>1
    <3>. QED BY <2>2, <3>1, Clock
  \* What the step does to the list: whoever leaves it was the first.
  <2>6. /\ \A h \in G : Has(list', h) <=> Has(list, h) /\ Minus(ticket[h], notify) # 0
        /\ \A h \in G : /\ pc'[h] = "added" <=> pc[h] = "added"
                        /\ pc'[h] = "parked" <=> pc[h] = "parked"
    <3>1. \A h \in G : Minus(ticket[h], notify) = 0 <=> ticket[h] = notify
      <4>1. ASSUME NEW h \in G
            PROVE  Minus(ticket[h], notify) = 0 <=> ticket[h] = notify
        <5>1. ticket[h] \in Tickets /\ notify \in Tickets BY <2>1
        <5>. QED BY <5>1, Clock
      <4>. QED BY <4>1
    <3>2. \A i \in DOMAIN list : list[i] \in G
      BY <1>1, ElementOfSeq, LenProperties
    <3>3. CASE Holder(notify) = {}
      <4>1. list' = list /\ Goto(g, "idle") BY <1>3, <3>3 DEF NotifyOne
      <4>2. \A h \in G : Has(list, h) => ticket[h] # notify
        BY <3>3 DEF Has, Holder
      <4>. QED BY <1>1, <3>1, <4>1, <4>2 DEF Goto
    <3>4. CASE Holder(notify) # {}
      <4>1. PICK i \in Holder(notify) : list' = RemoveAt(list, i) /\ Goto(g, "walk")
        BY <1>3, <3>4 DEF NotifyOne
      <4>2. i \in DOMAIN list /\ ticket[list[i]] = notify BY <4>1 DEF Holder
      <4>3. list[i] \in G /\ \A h : Has(list', h) <=> Has(list, h) /\ h # list[i]
        BY <1>1, <4>1, <4>2, LineRemoved DEF IndInv, Lines
      <4>4. InLine(list[i]) BY <4>2 DEF InLine
      <4>5. ASSUME NEW h \in G, Has(list, h), ticket[h] = notify PROVE h = list[i]
        <5>1. InLine(h) BY <4>5, InLineIs
        <5>2. At(h, 0) /\ At(list[i], 0)
          BY <3>1, <4>2, <4>3, <4>4, <4>5, <5>1 DEF At
        <5>. QED BY <4>3, <5>2 DEF LineInv, Single
      <4>. QED BY <1>1, <3>1, <4>1, <4>2, <4>3, <4>5 DEF Goto
    <3>. QED BY <3>3, <3>4
  \* Those not let go: their places move up.
  <2>7. ASSUME NEW h \in G
        PROVE  InLine(h)' <=> InLine(h) /\ Minus(ticket[h], notify) # 0
    <3>1. CASE Has(list, h)
      <4>1. pc[h] = "parked" /\ InLine(h) BY <3>1, InLineIs
      <4>. QED BY <2>6, <3>1, <4>1, InLineIs
    <3>2. CASE ~Has(list, h) /\ pc[h] = "added"
      <4>1. /\ InLine(h) <=> ~(Minus(ticket[h], notify) >= Half)
            /\ InLine(h)' <=> ~(Minus(ticket[h], notify') >= Half)
        BY <1>1, <2>6, <3>2, InLineIs DEF Less
      <4>2. Minus(wait, ticket[h]) \in 1..Half BY <3>2 DEF LineInv, Fresh
      <4>3. Minus(wait, ticket[h]) =
              IF size >= Minus(ticket[h], notify)
              THEN size - Minus(ticket[h], notify)
              ELSE size - Minus(ticket[h], notify) + 2 * Half
        <5>1. wait \in Tickets /\ notify \in Tickets /\ ticket[h] \in Tickets
          BY <2>1
        <5>. QED BY <5>1, ClockSum DEF size
      <4>4. Minus(ticket[h], notify) # Half BY <2>1, <2>3, <2>4, <4>2, <4>3
      <4>. QED BY <2>1, <2>5, <4>1, <4>4
    <3>3. CASE ~Has(list, h) /\ pc[h] # "added"
      BY <2>6, <3>3, InLineIs
    <3>. QED BY <3>1, <3>2, <3>3
  <2>8. ASSUME NEW h \in G, NEW k \in Nat PROVE At(h, k)' <=> At(h, k + 1)
    <3>1. PICK n \in Nat : n = Minus(ticket[h], notify) BY <2>1
    <3>2. Minus(ticket[h], notify') = IF n = 0 THEN 2 * Half - 1 ELSE n - 1
      BY <2>5, <3>1
    <3>3. n # 0 => (Minus(ticket[h], notify') = k <=> n = k + 1)
      BY <3>1, <3>2
    <3>4. At(h, k)' <=> InLine(h)' /\ Minus(ticket[h], notify') = k
      BY <1>1 DEF At
    <3>5. At(h, k + 1) <=> InLine(h) /\ n = k + 1 BY <3>1 DEF At
    <3>6. InLine(h)' <=> InLine(h) /\ n # 0 BY <2>7, <3>1
    <3>7. n = k + 1 => n # 0 BY <3>1
    <3>. QED BY <3>3, <3>4, <3>5, <3>6, <3>7
  <2>9. Fresh' BY <1>1, <2>6 DEF LineInv, Fresh
  <2>10. LineInv' /\ line # <<>> /\ line' = Tail(line)
    BY <1>1, <2>3, <2>8, <2>9, LineLeft
  <2>11. \A h \in G : h \in inside' <=> h \in inside BY <2>6, InLineIs
  <2>12. inside' = inside BY <2>11, InLineIs
  <2>14. PICK q \in {"idle", "walk"} : pc' = [pc EXCEPT ![g] = q]
    BY <1>3 DEF NotifyOne, Goto
  <2>15. /\ AheadInv'
         /\ ahead' = [h \in G |-> IF h = g THEN {} ELSE {k \in ahead[h] : InLine(k)'}]
    <3>1. Ends(g) /\ UNCHANGED <<ticket, old>> BY DEF NotifyOne
    <3>2. pc'[g] = q /\ \A h \in G : h # g => pc'[h] = pc[h] BY <1>1, <2>14
    <3>3. ASSUME NEW h \in G, NEW k \in G, InLine(k)', k \in ahead[h],
                 pc[h] \in {"all", "one"}
          PROVE  Minus(ticket[k], notify') < Minus(old[h], notify')
      <4>1. Minus(ticket[k], notify) < Minus(old[h], notify)
        BY <3>3 DEF AheadInv
      <4>2. Minus(ticket[k], notify') = Minus(ticket[k], notify) - 1
        BY <2>5, <2>7, <3>3
      <4>3. old[h] \in Tickets /\ notify \in Tickets /\ ticket[k] \in Tickets
        BY <1>1, <2>1 DEF TypeOK
      <4>4. /\ Minus(old[h], notify) \in Tickets /\ Minus(ticket[k], notify) \in Tickets
            /\ Minus(old[h], notify') = IF Minus(old[h], notify) = 0
                                        THEN 2 * Half - 1
                                        ELSE Minus(old[h], notify) - 1
        BY <2>2, <4>3, Clock
      <4>. QED BY <2>1, <4>1, <4>2, <4>4
    <3>. QED BY <1>1, <2>14, <3>1, <3>2, <3>3, AheadEnds
  <2>16. called' = [called EXCEPT ![g] = "none"]
    BY <1>1, <2>14, CalledMoves DEF PCs
  <2>17. Abs!End(g)
    BY <2>10, <2>12, <2>15, <2>16, NotifyOneStep, EndIs DEF IndInv
  <2>18. called[g] = "signal" BY <1>1, CalledIs
  <2>13. Abs!Signal(g) BY <2>10, <2>17, <2>18 DEF Abs!Signal
  <2>. QED BY <2>10, <2>13, <2>15 DEF AbsStep, Abs!AbsNext
<1>. QED BY <1>2, <1>3

LEMMA WalkRefines ==
    ASSUME IndInv, LineInv, AheadInv, NEW g \in G, Walk(g) PROVE LineInv' /\ AheadInv' /\ AbsStep
<1>1. /\ pc \in [G -> PCs] /\ chain \in [G -> Seq(G)] /\ pc[g] = "walk"
      /\ UNCHANGED <<wait, notify, list, old, ahead>> /\ TypeOK
  BY DEF IndInv, TypeOK, Walk
<1>2. CASE chain[g] = <<>>
  <2>1. Goto(g, "idle") /\ UNCHANGED ticket BY <1>2 DEF Walk
  <2>2. called' = called BY <1>1, <2>1, CalledMoves DEF PCs, Goto
  <2>. QED BY <1>1, <2>1, <2>2, SilentRefines DEF PCs
<1>3. CASE chain[g] # <<>>
  <2>1. Goto(Head(chain[g]), "idle") /\ ticket' = Forget(ticket, Head(chain[g]))
    BY <1>3 DEF Walk
  <2>2. chain[g] \in Seq(G) BY <1>1
  <2>3. Head(chain[g]) \in G /\ Has(chain[g], Head(chain[g]))
    BY <1>3, <2>2, HeadTailProperties, LenProperties DEF Has
  <2>4. PICK h \in G : h = Head(chain[g]) BY <2>3
  <2>5. pc[h] = "parked" /\ ~Has(list, h)
    BY <2>3, <2>4 DEF IndInv, Lines, AllParked, Apart, Has
  <2>6. ~InLine(h) BY <2>5, InLineIs
  <2>. QED BY <1>1, <2>1, <2>4, <2>5, <2>6, LeaveRefines DEF Goto
<1>. QED BY <1>2, <1>3

LEMMA NotifyRefines ==
    IndInv /\ LineInv /\ AheadInv /\ [Next]_vars => LineInv' /\ AheadInv' /\ AbsStep
<1>. SUFFICES ASSUME IndInv, LineInv, AheadInv, [Next]_vars
              PROVE  LineInv' /\ AheadInv' /\ AbsStep
  OBVIOUS
<1>1. CASE UNCHANGED vars
  <2>1. UNCHANGED <<wait, notify, list, pc, ticket, old, ahead>> BY <1>1 DEF vars
  <2>2. LineInv'
    BY <2>1 DEF LineInv, Filled, Single, Within, Fresh, At, InLine, size
  <2>3. AheadInv' BY <2>1 DEF AheadInv, InLine
  <2>4. line' = line /\ inside' = inside /\ called' = called
    BY <2>1 DEF line, inside, InLine, called
  <2>. QED BY <2>1, <2>2, <2>3, <2>4 DEF AbsStep, Abs!absVars
<1>2. CASE Next
  <2>1. PICK g \in G : Call(g) \/ Step(g) BY <1>2 DEF Next
  <2>2. IndInv' BY <1>2, NextInv
  <2>. QED BY <2>1, <2>2, AddRefines, WaitRefines, NotifyAllRefines, NotifyOneRefines,
              WalkRefines, LoadWaitRefines, LoadNotifyRefines
           DEF Call, Step
<1>. QED BY <1>1, <1>2

LEMMA LineInit == Init => LineInv /\ AheadInv /\ Abs!AbsInit
<1>. SUFFICES ASSUME Init PROVE LineInv /\ AheadInv /\ Abs!AbsInit OBVIOUS
<1>1. size = 0
  <2>1. 0 \in Tickets /\ Minus(0, 0) = 0
    <3>1. 0 \in Tickets BY TicketsKept
    <3>. QED BY <3>1, Clock
  <2>. QED BY <2>1 DEF Init, size
<1>2. \A g \in G : pc[g] = "idle" /\ ~Has(list, g) BY DEF Init, Has
<1>3. \A g \in G : ~InLine(g) BY <1>2, InLineIs
<1>4. inside = {} BY <1>2, InLineIs
<1>5. line = <<>> BY <1>1 DEF line, size
<1>6. LineInv BY <1>1, <1>2, <1>3 DEF LineInv, Filled, Single, Within, Fresh, At
<1>7. ahead = [g \in G |-> {}] /\ AheadInv BY DEF Init, AheadInv
<1>8. called = [g \in G |-> "none"] BY <1>2 DEF called
<1>. QED BY <1>4, <1>5, <1>6, <1>7, <1>8 DEF Abs!AbsInit

\* Who is in line, asleep, about to sleep or just past the counter, is so by its
\* ticket: those from notify up to wait are held there, each by one goroutine, and
\* none besides, however the counters wrap around.
THEOREM TicketsInLine == Spec => []LineInv
<1>1. IndInv /\ LineInv /\ AheadInv /\ [Next]_vars => LineInv' /\ AheadInv'
  BY NotifyRefines
<1>. QED BY <1>1, LineInit, NotifyInvariant, PTL DEF Spec

\* runtime_notifyListNotifyOne lets the one go who has waited longest, asleep or
\* not, runtime_notifyListNotifyAll everybody, and runtime_notifyListWait
\* returns to those who were let go and to nobody else.  Either of the first two
\* does nothing only if all who were in line at its call have been let go since.
THEOREM ListImplementsLine == Spec => Abs!AbsSpec
<1>1. Init => Abs!AbsInit BY LineInit
<1>2. IndInv /\ LineInv /\ AheadInv /\ [Next]_vars =>
        LineInv' /\ AheadInv' /\ [Abs!AbsNext]_(Abs!absVars)
  BY NotifyRefines DEF AbsStep
<1>. QED BY <1>1, <1>2, LineInit, NotifyInvariant, PTL DEF Spec, Abs!AbsSpec

-----------------------------------------------------------------------------
(***************************************************************************)
(* The timer                                                               *)
(***************************************************************************)
\* Only tickers have a period, the one that is about to be armed included.
PeriodInv ==
    /\ period = 0 <=> kind # "ticker"
    /\ \A u \in U : at[u] = "arm" => (arg[u].period = 0 <=> kind # "ticker")

StopInv == quiet => ~active

Arg == [when : Times, period : Nat, generation : 0 .. MaxGen]

TimerInv == TimerTypeOK /\ PeriodInv /\ StopInv /\ Accounted /\ DrainReady

-----------------------------------------------------------------------------
\* What a call is given becomes a deadline and a period.
LEMMA WhenPeriod ==
    ASSUME TimerTypeOK, NEW d \in Delays[kind]
    PROVE  /\ When(d) \in Times
           /\ Period(d) \in Nat
           /\ Period(d) = 0 <=> kind # "ticker"
<1>1. kind \in DOMAIN Delays /\ now \in 0 .. MaxNow BY DEF TimerTypeOK
<1>2. d \in IF kind = "ticker" THEN Nat \ {0} ELSE Int
  BY <1>1, TimerAssumption
<1>3. MaxInt \in Nat /\ MaxNow \in Nat /\ MaxNow < MaxInt BY TimerAssumption
<1>4. When(d) \in Times BY <1>1, <1>2, <1>3 DEF When, Clamp, Times
<1>. QED BY <1>2, <1>4 DEF Period

\* The next tick is a deadline.
LEMMA NextTickTime ==
    ASSUME TimerTypeOK, period > 0
    PROVE  NextTick \in Times
<1>1. now \in Int /\ when \in Int /\ period \in Int /\ now >= 0
  BY TimerAssumption DEF TimerTypeOK, Times
<1>2. (now - when) % period \in 0 .. (period - 1) BY <1>1
<1>. DEFINE x == now + (period - ((now - when) % period))
<1>3. x \in Int /\ x >= 0 BY <1>1, <1>2
<1>4. NextTick = Clamp(x) BY DEF NextTick
<1>. HIDE DEF x
<1>. QED BY <1>3, <1>4, TimerAssumption DEF Clamp, Times

-----------------------------------------------------------------------------
LEMMA TimerInitInv == TimerInit => TimerInv
<1>. SUFFICES ASSUME TimerInit PROVE TimerInv OBVIOUS
<1>1. PICK d \in Delays[kind] :
        /\ when = When(d) /\ period = Period(d)
        /\ arg = [u \in U |-> IF u = First THEN Given(d) ELSE NoArg]
  BY DEF TimerInit
<1>2. now = 0 /\ kind \in DOMAIN Delays BY DEF TimerInit
<1>3. d \in IF kind = "ticker" THEN Nat \ {0} ELSE Int BY <1>2, TimerAssumption
<1>4. MaxInt \in Nat /\ MaxNow \in Nat /\ MaxNow < MaxInt /\ MaxGen \in Nat \ {0}
  BY TimerAssumption
<1>5. When(d) \in Times /\ Period(d) \in Nat /\ (Period(d) = 0 <=> kind # "ticker")
  BY <1>2, <1>3, <1>4 DEF When, Clamp, Times, Period
<1>6. arg \in [U -> Arg]
  <2>2. Given(d) \in Arg BY <1>4, <1>5 DEF Arg, Given
  <2>3. NoArg \in Arg BY <1>4 DEF NoArg, Arg, Times
  <2>. QED BY <1>1, <2>2, <2>3
<1>7. arg[First].period = Period(d) BY <1>1, TimerAssumption DEF Given
<1>8. TimerTypeOK
  <2>1. now \in 0 .. MaxNow /\ kind \in DOMAIN Delays BY <1>2, <1>4
  <2>2. when \in Times /\ period \in Nat BY <1>1, <1>5
  <2>3. at \in [U -> {"idle", "arm", "go"}] BY DEF TimerInit
  <2>4. /\ runner \in [Generations -> {"none", "check", "sleep", "done"}]
        /\ deadline \in [Generations -> Times]
    BY <1>4 DEF TimerInit, Times
  <2>5. /\ active \in BOOLEAN /\ generation \in 0 .. MaxGen /\ channel \in 0 .. 1
        /\ quiet \in BOOLEAN /\ taken \in BOOLEAN
    <3>1. active = FALSE /\ generation = 0 /\ channel = 0 BY DEF TimerInit
    <3>2. quiet = TRUE /\ taken = FALSE BY DEF TimerInit
    <3>3. generation \in 0 .. MaxGen /\ channel \in 0 .. 1 BY <1>4, <3>1
    <3>4. active \in BOOLEAN /\ quiet \in BOOLEAN /\ taken \in BOOLEAN
      BY <3>1, <3>2
    <3>. QED BY <3>3, <3>4
  <2>7. arms \in Nat /\ fired \in Nat /\ cancelled \in Nat BY DEF TimerInit
  <2>6. start \in [when : Times, fired : Nat] BY <1>4 DEF TimerInit, Times
  <2>. QED BY <1>6, <2>1, <2>2, <2>3, <2>4, <2>5, <2>6, <2>7 DEF TimerTypeOK, Arg
<1>9. \A u \in U : at[u] = "arm" => u = First BY DEF TimerInit
<1>10. PeriodInv BY <1>1, <1>5, <1>7, <1>9 DEF PeriodInv
<1>11. StopInv /\ Accounted /\ DrainReady BY DEF TimerInit, StopInv, Accounted, DrainReady
<1>. QED BY <1>8, <1>10, <1>11 DEF TimerInv

LEMMA ResetInv == ASSUME TimerInv, NEW u \in U, Reset(u) PROVE TimerInv'
<1>0. TimerTypeOK /\ PeriodInv BY DEF TimerInv
<1>1. PICK d \in Delays[kind] :
        arg' = [arg EXCEPT ![u] = Given(d)]
  BY DEF Reset
<1>2. When(d) \in Times /\ Period(d) \in Nat /\ (Period(d) = 0 <=> kind # "ticker")
  BY <1>0, WhenPeriod
<1>3. /\ at' = [at EXCEPT ![u] = "arm"]
      /\ UNCHANGED <<now, kind, timer, channel, runners, history>>
  BY DEF Reset
<1>4. TimerTypeOK'
  <2>1. arg \in [U -> Arg] BY <1>0 DEF TimerTypeOK, Arg
  <2>2. Given(d) \in Arg BY <1>2, TimerAssumption DEF Arg, Given
  <2>5. arg' \in [U -> Arg] BY <2>1, <2>2, <1>1
  <2>. QED BY <1>0, <1>3, <2>5 DEF TimerTypeOK, Arg, timer, runners, history
<1>5. \A v \in U : at'[v] = "arm" => (arg'[v].period = 0 <=> kind # "ticker")
  BY <1>0, <1>1, <1>2, <1>3 DEF TimerTypeOK, PeriodInv, Given
<1>6. PeriodInv' BY <1>0, <1>3, <1>5 DEF PeriodInv, timer
<1>7. (StopInv /\ Accounted /\ DrainReady)'
  BY <1>3 DEF TimerInv, StopInv, Accounted, DrainReady, timer, history
<1>. QED BY <1>4, <1>6, <1>7 DEF TimerInv

LEMMA ArmInv == ASSUME TimerInv, NEW u \in U, Arm(u) PROVE TimerInv'
<1>0. TimerTypeOK /\ PeriodInv /\ Accounted BY DEF TimerInv
<1>1. generation + 1 \in 0 .. MaxGen BY <1>0, TimerAssumption DEF Arm, TimerTypeOK
<1>2. TimerTypeOK'
  <2>1. arg \in [U -> Arg] BY <1>0 DEF TimerTypeOK, Arg
  <2>2. arg[u] \in Arg BY <2>1
  <2>3. \A v \in U : arg'[v] = IF v = u
           THEN [when |-> arg[u].when, period |-> arg[u].period,
                 generation |-> generation + 1]
           ELSE arg[v]
    BY <2>1 DEF Arg, Arm
  <2>4. \A v \in U : arg'[v] \in Arg BY <2>1, <2>2, <2>3, <1>1 DEF Arg
  <2>5. arg' \in [U -> Arg] BY <2>1, <2>4 DEF Arm
  <2>6. when' \in Times /\ period' \in Nat BY <2>2 DEF Arm, Arg
  <2>7. arms' \in Nat /\ cancelled' \in Nat /\ fired' \in Nat
    BY <1>0 DEF TimerTypeOK, Arm
  <2>8. start' \in [when : Times, fired : Nat] BY <1>0, <2>2 DEF TimerTypeOK, Arm, Arg
  <2>9. at' \in [U -> {"idle", "arm", "go"}] BY <1>0 DEF TimerTypeOK, Arm
  <2>10. /\ UNCHANGED <<now, kind, channel, runner, deadline>>
         /\ active' = TRUE /\ quiet' = FALSE /\ taken' = FALSE
         /\ generation' = generation + 1
    BY DEF Arm, runners
  <2>. QED BY <1>0, <1>1, <2>5, <2>6, <2>7, <2>8, <2>9, <2>10 DEF TimerTypeOK, Arg
<1>3. period' = 0 <=> kind # "ticker" BY <1>0 DEF PeriodInv, Arm
<1>4. \A v \in U : at'[v] = "arm" => at[v] = "arm" /\ arg'[v].period = arg[v].period
  BY <1>0 DEF Arm, TimerTypeOK
<1>5. PeriodInv' BY <1>0, <1>3, <1>4 DEF PeriodInv, Arm
<1>6. StopInv' BY DEF StopInv, Arm
<1>7. Accounted'
  <2>1. period' = 0 => period = 0 BY <1>0, <1>3 DEF PeriodInv
  <2>2. arms \in Nat /\ fired \in Nat /\ cancelled \in Nat BY <1>0 DEF TimerTypeOK
  <2>. QED BY <1>0, <2>1, <2>2 DEF Accounted, Arm
<1>8. DrainReady' BY DEF DrainReady, Arm
<1>. QED BY <1>2, <1>5, <1>6, <1>7, <1>8 DEF TimerInv

LEMMA GoInv == ASSUME TimerInv, NEW u \in U, Go(u) PROVE TimerInv'
<1>0. TimerTypeOK /\ PeriodInv BY DEF TimerInv
<1>1. TimerTypeOK'
  <2>1. arg \in [U -> Arg] BY <1>0 DEF TimerTypeOK, Arg
  <2>2. NoArg \in Arg BY TimerAssumption DEF NoArg, Arg, Times
  <2>3. arg' \in [U -> Arg] BY <2>1, <2>2 DEF Go
  <2>4. at' \in [U -> {"idle", "arm", "go"}] BY <1>0 DEF TimerTypeOK, Go
  <2>5. runner' \in [Generations -> {"none", "check", "sleep", "done"}]
    BY <1>0 DEF TimerTypeOK, Go
  <2>6. UNCHANGED <<now, kind, timer, channel, deadline, history>> BY DEF Go
  <2>. QED BY <1>0, <2>3, <2>4, <2>5, <2>6 DEF TimerTypeOK, Arg, timer, history
<1>2. \A v \in U : at'[v] = "arm" => at[v] = "arm" /\ arg'[v] = arg[v]
  BY <1>0 DEF Go, TimerTypeOK
<1>3. PeriodInv' BY <1>0, <1>2 DEF PeriodInv, Go, timer
<1>4. (StopInv /\ Accounted /\ DrainReady)'
  BY DEF TimerInv, StopInv, Accounted, DrainReady, Go, timer, history
<1>. QED BY <1>1, <1>3, <1>4 DEF TimerInv

LEMMA StopKeeps == ASSUME TimerInv, NEW u \in U, Stop(u) PROVE TimerInv'
<1>0. TimerTypeOK /\ PeriodInv /\ Accounted BY DEF TimerInv
<1>1. TimerTypeOK'
  <2>1. generation' \in 0 .. MaxGen BY <1>0, TimerAssumption DEF TimerTypeOK, Stop
  <2>2. cancelled' \in Nat BY <1>0 DEF TimerTypeOK, Stop
  <2>3. active' = FALSE /\ quiet' = TRUE
        /\ UNCHANGED <<now, kind, when, period, channel, users, runners,
                       arms, fired, taken, start>>
    BY DEF Stop
  <2>. QED BY <1>0, <2>1, <2>2, <2>3 DEF TimerTypeOK, users, runners
<1>2. PeriodInv' BY <1>0 DEF PeriodInv, Stop, users
<1>3. Accounted'
  <2>1. arms \in Nat /\ fired \in Nat /\ cancelled \in Nat BY <1>0 DEF TimerTypeOK
  <2>. QED BY <1>0, <2>1 DEF Accounted, Stop
<1>4. (StopInv /\ DrainReady)' BY DEF StopInv, DrainReady, Stop
<1>. QED BY <1>1, <1>2, <1>3, <1>4 DEF TimerInv

LEMMA ReceiveInv == ASSUME TimerInv, NEW u \in U, Receive(u) PROVE TimerInv'
<1>0. TimerTypeOK BY DEF TimerInv
<1>1. TimerTypeOK' BY <1>0 DEF TimerTypeOK, Receive, timer, users, runners
<1>2. PeriodInv' BY DEF TimerInv, PeriodInv, Receive, timer, users
<1>3. (StopInv /\ Accounted /\ DrainReady)'
  BY DEF TimerInv, StopInv, Accounted, DrainReady, Receive, timer
<1>. QED BY <1>1, <1>2, <1>3 DEF TimerInv

LEMMA QuietRunInv ==
    ASSUME TimerInv, NEW g \in Generations, Check(g) \/ Late(g)
    PROVE  TimerInv'
<1>0. TimerTypeOK BY DEF TimerInv
<1>1. UNCHANGED <<now, kind, timer, channel, users, history>>
  BY DEF Check, Late
<1>2. runner' \in [Generations -> {"none", "check", "sleep", "done"}]
  BY <1>0 DEF TimerTypeOK, Check, Late, GotoRun
<1>3. deadline' \in [Generations -> Times]
  BY <1>0, TimerAssumption DEF TimerTypeOK, Check, Late, Times
<1>4. TimerTypeOK' BY <1>0, <1>1, <1>2, <1>3 DEF TimerTypeOK, timer, users, history
<1>5. PeriodInv' BY <1>1 DEF TimerInv, PeriodInv, timer, users
<1>6. (StopInv /\ Accounted /\ DrainReady)'
  BY <1>1 DEF TimerInv, StopInv, Accounted, DrainReady, timer, history
<1>. QED BY <1>4, <1>5, <1>6 DEF TimerInv

LEMMA FireInv == ASSUME TimerInv, NEW g \in Generations, Fire(g) PROVE TimerInv'
<1>0. TimerTypeOK /\ PeriodInv /\ StopInv /\ Accounted BY DEF TimerInv
<1>1. active BY DEF Fire, Due, Current
<1>2. /\ UNCHANGED <<now, kind, period, generation, users,
                     arms, cancelled, quiet, taken, start>>
      /\ fired' = fired + 1 /\ deadline' = [deadline EXCEPT ![g] = 0]
      /\ MoveOn(g) /\ Send
  BY DEF Fire
<1>3. CASE period > 0
  <2>1. when' = NextTick /\ active' = active /\ runner' = [runner EXCEPT ![g] = "check"]
    BY <1>2, <1>3 DEF MoveOn, GotoRun
  <2>2. when' \in Times BY <1>0, <1>3, <2>1, NextTickTime
  <2>3. TimerTypeOK'
    BY <1>0, <1>2, <2>1, <2>2, TimerAssumption DEF TimerTypeOK, Send, users, Times
  <2>4. PeriodInv' BY <1>0, <1>2 DEF PeriodInv, users
  <2>5. (StopInv /\ Accounted /\ DrainReady)'
    BY <1>0, <1>1, <1>2, <1>3, <2>1 DEF StopInv, Accounted, DrainReady
  <2>. QED BY <2>3, <2>4, <2>5 DEF TimerInv
<1>4. CASE ~(period > 0)
  <2>1. when' = when /\ active' = FALSE /\ runner' = [runner EXCEPT ![g] = "done"]
    BY <1>2, <1>4 DEF MoveOn, GotoRun
  <2>2. TimerTypeOK'
    <3>1. channel' \in 0 .. 1 BY <1>0, <1>2 DEF TimerTypeOK, Send
    <3>2. deadline' \in [Generations -> Times]
      BY <1>0, <1>2, TimerAssumption DEF TimerTypeOK, Times
    <3>3. runner' \in [Generations -> {"none", "check", "sleep", "done"}]
      BY <1>0, <2>1 DEF TimerTypeOK
    <3>4. fired' \in Nat BY <1>0, <1>2 DEF TimerTypeOK
    <3>. QED BY <1>0, <1>2, <2>1, <3>1, <3>2, <3>3, <3>4 DEF TimerTypeOK, users
  <2>3. PeriodInv' BY <1>0, <1>2 DEF PeriodInv, users
  <2>4. Accounted'
    <3>1. arms \in Nat /\ fired \in Nat /\ cancelled \in Nat BY <1>0 DEF TimerTypeOK
    <3>. QED BY <1>0, <1>1, <1>2, <2>1, <3>1 DEF Accounted
  <2>5. (StopInv /\ DrainReady)'
    BY <1>0, <1>2, <2>1 DEF StopInv, DrainReady, Send
  <2>. QED BY <2>2, <2>3, <2>4, <2>5 DEF TimerInv
<1>. QED BY <1>3, <1>4

LEMMA TickInv == ASSUME TimerInv, Tick PROVE TimerInv'
<1>0. TimerTypeOK BY DEF TimerInv
<1>1. TimerTypeOK' BY <1>0, TimerAssumption DEF TimerTypeOK, Tick, timer, users, runners, history
<1>2. PeriodInv' BY DEF TimerInv, PeriodInv, Tick, timer, users
<1>3. (StopInv /\ Accounted /\ DrainReady)'
  BY DEF TimerInv, StopInv, Accounted, DrainReady, Tick, timer, history
<1>. QED BY <1>1, <1>2, <1>3 DEF TimerInv

LEMMA TimerNextInv == TimerInv /\ [TimerNext]_timerVars => TimerInv'
<1>. SUFFICES ASSUME TimerInv, [TimerNext]_timerVars PROVE TimerInv' OBVIOUS
<1>1. CASE UNCHANGED timerVars
  BY <1>1 DEF TimerInv, TimerTypeOK, PeriodInv, StopInv, Accounted, DrainReady,
              timerVars, timer, users, runners, history
<1>2. CASE TimerNext
  BY <1>2, ResetInv, ArmInv, GoInv, StopKeeps, ReceiveInv, QuietRunInv, FireInv,
     TickInv DEF TimerNext
<1>. QED BY <1>1, <1>2

-----------------------------------------------------------------------------
\* The inductive invariant of a timer.
THEOREM TimerInvariant == TimerSpec => []TimerInv
<1>. QED BY TimerInitInv, TimerNextInv, PTL DEF TimerSpec

\* Type correctness.
THEOREM TimerTypes == TimerSpec => []TimerTypeOK
<1>1. TimerInv => TimerTypeOK BY DEF TimerInv
<1>. QED BY <1>1, TimerInvariant, PTL

\* What Stop and Reset return adds up, over any sequence of them.
THEOREM TimerAccounts == TimerSpec => []Accounted
<1>1. TimerInv => Accounted BY DEF TimerInv
<1>. QED BY <1>1, TimerInvariant, PTL

\* The value that a drain waits for is in the channel.
THEOREM TimerDrains == TimerSpec => []DrainReady
<1>1. TimerInv => DrainReady BY DEF TimerInv
<1>. QED BY <1>1, TimerInvariant, PTL

\* Nothing comes from a timer that was stopped.
THEOREM StoppedIsSilent == TimerSpec => StopHolds
<1>1. TimerInv /\ [TimerNext]_timerVars => [quiet => fired' = fired /\ channel' <= channel]_timerVars
  <2>. SUFFICES ASSUME TimerInv, TimerNext, quiet
                PROVE  fired' = fired /\ channel' <= channel
    BY DEF timerVars, history
  <2>1. ~active /\ channel \in 0 .. 1 BY DEF TimerInv, StopInv, TimerTypeOK
  <2>2. \A g \in Generations : ~Fire(g) BY <2>1 DEF Fire, Due, Current
  <2>3. CASE Tick BY <2>1, <2>3 DEF Tick, history
  <2>4. ASSUME NEW u \in U, Reset(u) \/ Arm(u) \/ Go(u) \/ Stop(u) \/ Receive(u)
        PROVE  fired' = fired /\ channel' <= channel
    <3>1. CASE Reset(u) BY <2>1, <3>1 DEF Reset, history
    <3>2. CASE Arm(u)
      <4>1. fired' = fired /\ channel' = channel BY <3>2 DEF Arm
      <4>. QED BY <2>1, <4>1
    <3>3. CASE Go(u) BY <2>1, <3>3 DEF Go, history
    <3>4. CASE Stop(u)
      <4>1. fired' = fired /\ channel' = channel BY <3>4 DEF Stop
      <4>. QED BY <2>1, <4>1
    <3>5. CASE Receive(u)
      <4>1. fired' = fired /\ channel' = 0 BY <3>5 DEF Receive
      <4>. QED BY <2>1, <4>1
    <3>. QED BY <2>4, <3>1, <3>2, <3>3, <3>4, <3>5
  <2>5. ASSUME NEW g \in Generations, Check(g) \/ Late(g)
        PROVE  fired' = fired /\ channel' <= channel
    <3>1. UNCHANGED <<channel, history>> BY <2>5 DEF Check, Late
    <3>. QED BY <2>1, <3>1 DEF history
  <2>. QED BY <2>2, <2>3, <2>4, <2>5 DEF TimerNext
<1>. QED BY <1>1, TimerInvariant, PTL DEF TimerSpec, StopHolds

-----------------------------------------------------------------------------
(***************************************************************************)
(* The phase of a ticker.  With n ticks since it was armed, the n-th was   *)
(* not before the n-th deadline in the first one's phase, and the next     *)
(* deadline, unless it is too late for the clock to reach, is at least n   *)
(* whole periods after the first.                                          *)
(***************************************************************************)
Ticks == fired - start.fired

PhaseInv ==
    active /\ period > 0 =>
        /\ start.fired <= fired
        /\ Ticks > 0 => start.when + (Ticks - 1) * period <= now
        /\ when # MaxInt =>
             \E k \in Nat : when = start.when + k * period /\ Ticks <= k

\* Division by a period.
LEMMA DivMod ==
    ASSUME NEW a \in Nat, NEW p \in Nat \ {0}
    PROVE  /\ a \div p \in Nat /\ a % p \in 0 .. (p - 1)
           /\ a = p * (a \div p) + (a % p)
OBVIOUS

LEMMA WholePeriods ==
    ASSUME NEW k \in Nat, NEW p \in Nat \ {0}
    PROVE  (k * p) % p = 0
OBVIOUS

LEMMA PeriodsBegun ==
    ASSUME NEW a \in Nat, NEW p \in Nat \ {0}, NEW m \in Nat, m * p <= a
    PROVE  m <= a \div p
OBVIOUS

LEMMA LongerSpan ==
    ASSUME NEW a \in Nat, NEW b \in Nat, a <= b, NEW p \in Nat
    PROVE  a * p <= b * p
OBVIOUS

\* The next tick is a whole number of periods, one at least, after the last.
LEMMA NextTickPhase ==
    ASSUME TimerTypeOK, period > 0, now >= when, NextTick # MaxInt
    PROVE  \E q \in Nat : NextTick = when + (q + 1) * period
<1>1. /\ now \in Nat /\ when \in Nat /\ period \in Nat \ {0}
      /\ now - when \in Nat
  BY TimerAssumption DEF TimerTypeOK, Times
<1>. DEFINE q == (now - when) \div period
            r == (now - when) % period
<1>2. q \in Nat /\ r \in Int /\ now - when = period * q + r BY <1>1, DivMod
<1>3. NextTick = Clamp(now + (period - r)) BY DEF NextTick
<1>. HIDE DEF q, r
<1>4. now + (period - r) = when + (q + 1) * period BY <1>1, <1>2
<1>5. now + (period - r) \in Int BY <1>1, <1>2
<1>6. NextTick = now + (period - r) BY <1>3, <1>5, TimerAssumption DEF Clamp
<1>. QED BY <1>2, <1>4, <1>6

LEMMA ArmPhase == ASSUME TimerInv, NEW u \in U, Arm(u) PROVE PhaseInv'
<1>1. fired \in Nat BY DEF TimerInv, TimerTypeOK
<1>2. arg[u] \in Arg BY DEF TimerInv, TimerTypeOK, Arg
<1>3. /\ when' = arg[u].when /\ period' = arg[u].period /\ fired' = fired
      /\ start' = [when |-> arg[u].when, fired |-> fired]
  BY DEF Arm
<1>4. start'.fired = fired /\ start'.when = when' BY <1>3
<1>5. when' \in Nat /\ period' \in Nat BY <1>2, <1>3, TimerAssumption DEF Arg, Times
<1>6. when' = start'.when + 0 * period'
  <2>1. ASSUME NEW p \in Nat, NEW w \in Nat PROVE w = w + 0 * p OBVIOUS
  <2>. QED BY <1>4, <1>5, <2>1
<1>7. Ticks' = 0 BY <1>1, <1>3, <1>4 DEF Ticks
<1>. QED BY <1>1, <1>3, <1>4, <1>6, <1>7 DEF PhaseInv

LEMMA FirePhase ==
    ASSUME TimerInv, PhaseInv, NEW g \in Generations, Fire(g)
    PROVE  PhaseInv'
<1>. SUFFICES ASSUME active', period' > 0
              PROVE  /\ start'.fired <= fired'
                     /\ Ticks' > 0 => start'.when + (Ticks' - 1) * period' <= now'
                     /\ when' # MaxInt =>
                          \E k \in Nat : /\ when' = start'.when + k * period'
                                         /\ Ticks' <= k
  BY DEF PhaseInv
<1>0. TimerTypeOK BY DEF TimerInv
<1>1. /\ now \in Nat /\ when \in Nat /\ period \in Nat /\ fired \in Nat
      /\ start.when \in Nat /\ start.fired \in Nat
  BY <1>0, TimerAssumption DEF TimerTypeOK, Times
<1>2. /\ UNCHANGED <<now, period, start>> /\ fired' = fired + 1
      /\ active /\ now >= when /\ MoveOn(g) /\ period > 0
  BY DEF Fire, Due, Current
<1>3. when' = NextTick BY <1>2 DEF MoveOn
<1>4. when # MaxInt BY <1>0, <1>1, <1>2, TimerAssumption DEF TimerTypeOK
<1>5. PICK k \in Nat : when = start.when + k * period /\ Ticks <= k
  BY <1>2, <1>4 DEF PhaseInv
<1>6. start.fired <= fired BY <1>2 DEF PhaseInv
<1>7. Ticks \in Nat /\ Ticks' = Ticks + 1 BY <1>1, <1>2, <1>6 DEF Ticks
<1>. HIDE DEF Ticks
<1>8. start.when + Ticks * period <= now
  <2>1. Ticks * period <= k * period BY <1>1, <1>5, <1>7, LongerSpan
  <2>2. Ticks * period \in Int /\ k * period \in Int BY <1>1, <1>5, <1>7
  <2>. QED BY <1>1, <1>2, <1>5, <2>1, <2>2
<1>9. ASSUME when' # MaxInt
      PROVE  \E j \in Nat : when' = start.when + j * period /\ Ticks' <= j
  <2>1. PICK q \in Nat : NextTick = when + (q + 1) * period
    BY <1>0, <1>2, <1>3, <1>9, NextTickPhase
  <2>2. when' = start.when + (k + (q + 1)) * period
    BY <1>1, <1>3, <1>5, <2>1
  <2>3. Ticks' <= k + (q + 1) BY <1>5, <1>7, <2>1
  <2>. QED BY <2>1, <2>2, <2>3
<1>10. Ticks' - 1 = Ticks BY <1>7
<1>. QED BY <1>1, <1>2, <1>6, <1>8, <1>9, <1>10

\* Nothing else touches the deadline, the period or the count.
LEMMA QuietPhase ==
    ASSUME TimerInv, PhaseInv, active' => active, now' \in Int, now <= now',
           UNCHANGED <<when, period, fired, start>>
    PROVE  PhaseInv'
<1>1. Ticks' = Ticks BY DEF Ticks
<1>2. now \in Int /\ period \in Int /\ start.when \in Int /\ fired \in Int
      /\ start.fired \in Int
  BY TimerAssumption DEF TimerInv, TimerTypeOK, Times
<1>. SUFFICES ASSUME active, period > 0
              PROVE  /\ start.fired <= fired
                     /\ Ticks > 0 => start.when + (Ticks - 1) * period <= now'
                     /\ when # MaxInt =>
                          \E k \in Nat : when = start.when + k * period /\ Ticks <= k
  BY <1>1 DEF PhaseInv
<1>3. Ticks \in Int /\ (Ticks - 1) * period \in Int BY <1>2 DEF Ticks
<1>. HIDE DEF Ticks
<1>. QED BY <1>2, <1>3 DEF PhaseInv

LEMMA PhaseNext ==
    TimerInv /\ PhaseInv /\ [TimerNext]_timerVars => PhaseInv'
<1>. SUFFICES ASSUME TimerInv, PhaseInv, [TimerNext]_timerVars PROVE PhaseInv' OBVIOUS
<1>1. now \in Int BY DEF TimerInv, TimerTypeOK
<1>2. CASE UNCHANGED timerVars
  BY <1>1, <1>2, QuietPhase DEF timerVars, timer, history
<1>3. CASE Tick
  BY <1>1, <1>3, QuietPhase DEF Tick, timer, history
<1>4. ASSUME NEW u \in U, Reset(u) \/ Go(u) \/ Stop(u) \/ Receive(u)
      PROVE  PhaseInv'
  <2>1. UNCHANGED <<now, when, period, fired, start>> /\ (active' => active)
    BY <1>4 DEF Reset, Go, Stop, Receive, timer, history
  <2>. QED BY <1>1, <2>1, QuietPhase
<1>5. ASSUME NEW g \in Generations, Check(g) \/ Late(g)
      PROVE  PhaseInv'
  <2>1. UNCHANGED <<now, timer, history>> BY <1>5 DEF Check, Late
  <2>. QED BY <1>1, <2>1, QuietPhase DEF timer, history
<1>. QED BY <1>2, <1>3, <1>4, <1>5, ArmPhase, FirePhase DEF TimerNext

LEMMA PhaseImplies == TimerInv /\ PhaseInv => InPhase
<1>. SUFFICES ASSUME TimerInv, PhaseInv, active, period > 0
              PROVE  /\ when = MaxInt \/ (when - start.when) % period = 0
                     /\ fired - start.fired <=
                          IF now < start.when THEN 0
                          ELSE ((now - start.when) \div period) + 1
  BY DEF InPhase
<1>1. /\ now \in Nat /\ when \in Nat /\ period \in Nat \ {0} /\ fired \in Nat
      /\ start.when \in Nat /\ start.fired \in Nat
  BY TimerAssumption DEF TimerInv, TimerTypeOK, Times
<1>2. when = MaxInt \/ (when - start.when) % period = 0
  <2>. SUFFICES ASSUME when # MaxInt PROVE (when - start.when) % period = 0
    OBVIOUS
  <2>1. PICK k \in Nat : when = start.when + k * period BY DEF PhaseInv
  <2>2. when - start.when = k * period BY <1>1, <2>1
  <2>. QED BY <1>1, <2>2, WholePeriods
<1>3. Ticks \in Nat BY <1>1 DEF PhaseInv, Ticks
<1>. HIDE DEF Ticks
<1>4. CASE Ticks = 0
  <2>1. now >= start.when => (now - start.when) \div period \in Nat BY <1>1, DivMod
  <2>. QED BY <1>1, <1>2, <1>4, <2>1 DEF Ticks
<1>5. CASE Ticks # 0
  <2>1. start.when + (Ticks - 1) * period <= now /\ Ticks - 1 \in Nat
    BY <1>3, <1>5 DEF PhaseInv
  <2>2. (Ticks - 1) * period \in Nat BY <1>1, <2>1
  <2>3. now - start.when \in Nat /\ (Ticks - 1) * period <= now - start.when
    BY <1>1, <2>1, <2>2
  <2>4. Ticks - 1 <= (now - start.when) \div period
    BY <1>1, <2>1, <2>3, PeriodsBegun
  <2>5. (now - start.when) \div period \in Nat BY <1>1, <2>3, DivMod
  <2>. QED BY <1>1, <1>2, <1>3, <2>3, <2>4, <2>5 DEF Ticks
<1>. QED BY <1>4, <1>5

\* A ticker keeps its phase and never ticks in a burst.
THEOREM TickerInPhase == TimerSpec => []InPhase
<1>1. TimerInit => PhaseInv BY DEF TimerInit, PhaseInv
<1>. QED BY <1>1, PhaseNext, PhaseImplies, TimerInvariant, PTL DEF TimerSpec
=============================================================================
