----------------------------- MODULE QueueLemmas ------------------------------
(***************************************************************************)
(* What the queues of goroutines and of wait records gain and lose.        *)
(***************************************************************************)
EXTENDS SequencesExt, SequenceTheorems, FiniteSetTheorems, TLAPS

\* RemoveAt of the community modules, element by element.
LEMMA RemoveAtShape ==
    ASSUME NEW S, NEW q \in Seq(S), NEW i \in DOMAIN q
    PROVE  /\ RemoveAt(q, i) \in Seq(S)
           /\ DOMAIN RemoveAt(q, i) = 1 .. (Len(q) - 1)
           /\ \A j \in 1 .. (Len(q) - 1) :
                RemoveAt(q, i)[j] = IF j < i THEN q[j] ELSE q[j + 1]
<1> DEFINE a == SubSeq(q, 1, i - 1)
           b == SubSeq(q, i + 1, Len(q))
<1>1. /\ Len(q) \in Nat /\ i \in 1 .. Len(q)
      /\ \A j \in 1 .. Len(q) : q[j] \in S
  BY LenProperties
<1>2. /\ a \in Seq(S) /\ Len(a) = i - 1
      /\ \A j \in 1 .. i - 1 : a[j] = q[j]
  <2>1. /\ a \in Seq(S)
        /\ Len(a) = IF 1 <= i - 1 THEN i - 1 - 1 + 1 ELSE 0
        /\ \A j \in 1 .. (i - 1) - 1 + 1 : a[j] = q[1 + j - 1]
    <3>1. \A j \in 1 .. i - 1 : q[j] \in S
      BY <1>1
    <3> QED
      BY <1>1, <3>1, SubSeqProperties
  <2> QED
    BY <1>1, <2>1
<1>3. /\ b \in Seq(S) /\ Len(b) = Len(q) - i
      /\ \A j \in 1 .. Len(q) - i : b[j] = q[i + j]
  <2>1. /\ b \in Seq(S)
        /\ Len(b) = IF i + 1 <= Len(q) THEN Len(q) - (i + 1) + 1 ELSE 0
        /\ \A j \in 1 .. Len(q) - (i + 1) + 1 : b[j] = q[i + 1 + j - 1]
    <3>1. \A j \in i + 1 .. Len(q) : q[j] \in S
      BY <1>1
    <3> QED
      BY <1>1, <3>1, SubSeqProperties
  <2> QED
    BY <1>1, <2>1
<1> HIDE DEF a, b
<1>4. /\ a \o b \in Seq(S)
      /\ Len(a \o b) = Len(a) + Len(b)
      /\ \A j \in 1 .. Len(a) + Len(b) :
           (a \o b)[j] = IF j <= Len(a) THEN a[j] ELSE b[j - Len(a)]
  BY <1>2, <1>3, ConcatProperties
<1>5. DOMAIN (a \o b) = 1 .. (Len(q) - 1)
  BY <1>1, <1>2, <1>3, <1>4, LenProperties, SMTT(30)
<1>6. ASSUME NEW j \in 1 .. (Len(q) - 1)
      PROVE  (a \o b)[j] = IF j < i THEN q[j] ELSE q[j + 1]
  <2>1. CASE j < i
    BY <1>1, <1>2, <1>3, <1>4, <2>1, SMTT(30)
  <2>2. CASE ~(j < i)
    <3>1. j - (i - 1) \in 1 .. Len(q) - i /\ i + (j - (i - 1)) = j + 1
      BY <1>1, <2>2
    <3>2. b[j - (i - 1)] = q[j + 1]
      BY <1>3, <3>1
    <3>3. j \in 1 .. Len(a) + Len(b) /\ ~(j <= Len(a)) /\ Len(a) = i - 1
      <4>1. Len(a) = i - 1 /\ Len(b) = Len(q) - i
        BY <1>2, <1>3
      <4> QED
        BY <1>1, <2>2, <4>1
    <3>4. (a \o b)[j] = b[j - Len(a)]
      BY <1>4, <3>3
    <3> QED
      BY <2>2, <3>2, <3>3, <3>4
  <2> QED
    BY <2>1, <2>2
<1>7. RemoveAt(q, i) = a \o b
  BY DEF RemoveAt, a, b
<1> QED
  BY <1>4, <1>5, <1>6, <1>7

\* A sequence without duplicates loses the element at one place.
LEMMA RemovedQueue ==
    ASSUME NEW S, NEW q \in Seq(S), NEW i \in DOMAIN q,
           \A j, k \in DOMAIN q : q[j] = q[k] => j = k
    PROVE  /\ RemoveAt(q, i) \in Seq(S) /\ q[i] \in S
           /\ \A j, k \in DOMAIN RemoveAt(q, i) :
                RemoveAt(q, i)[j] = RemoveAt(q, i)[k] => j = k
           /\ \A g : (\E j \in DOMAIN RemoveAt(q, i) : RemoveAt(q, i)[j] = g)
                    <=> (\E j \in DOMAIN q : q[j] = g) /\ g # q[i]
<1> DEFINE r == RemoveAt(q, i)
<1>1. /\ r \in Seq(S) /\ DOMAIN r = 1 .. (Len(q) - 1)
      /\ \A j \in 1 .. (Len(q) - 1) :
           r[j] = IF j < i THEN q[j] ELSE q[j + 1]
  BY RemoveAtShape
<1>2. /\ Len(q) \in Nat /\ DOMAIN q = 1 .. Len(q) /\ q[i] \in S
      /\ i \in 1 .. Len(q)
  BY LenProperties
<1> HIDE DEF r
<1>3. ASSUME NEW j \in DOMAIN r, NEW k \in DOMAIN r, r[j] = r[k]
      PROVE  j = k
  <2> DEFINE at(n) == IF n < i THEN n ELSE n + 1
  <2>1. /\ at(j) \in DOMAIN q /\ r[j] = q[at(j)]
        /\ at(k) \in DOMAIN q /\ r[k] = q[at(k)]
    BY <1>1, <1>2
  <2>2. at(j) = at(k)
    BY <1>3, <2>1
  <2> QED
    BY <1>1, <1>2, <2>2
<1>4. ASSUME NEW g, NEW j \in DOMAIN r, r[j] = g
      PROVE  (\E k \in DOMAIN q : q[k] = g) /\ g # q[i]
  <2>1. CASE j < i
    BY <1>1, <1>2, <1>4, <2>1
  <2>2. CASE ~(j < i)
    BY <1>1, <1>2, <1>4, <2>2, SMTT(30)
  <2> QED
    BY <2>1, <2>2
<1>5. ASSUME NEW g, NEW k \in DOMAIN q, q[k] = g, g # q[i]
      PROVE  \E j \in DOMAIN r : r[j] = g
  <2>1. CASE k < i
    BY <1>1, <1>2, <1>5, <2>1
  <2>2. CASE ~(k < i)
    <3>1. k - 1 \in DOMAIN r /\ r[k - 1] = q[k - 1 + 1]
      BY <1>1, <1>2, <1>5, <2>2
    <3> QED
      BY <1>2, <1>5, <3>1
  <2> QED
    BY <2>1, <2>2
<1> QED
  BY <1>1, <1>2, <1>3, <1>4, <1>5 DEF r

\* It gains one at its end ...
LEMMA AppendedQueue ==
    ASSUME NEW S, NEW q \in Seq(S), NEW h \in S,
           \A j, k \in DOMAIN q : q[j] = q[k] => j = k,
           \A j \in DOMAIN q : q[j] # h
    PROVE  /\ Append(q, h) \in Seq(S)
           /\ \A j, k \in DOMAIN Append(q, h) :
                Append(q, h)[j] = Append(q, h)[k] => j = k
           /\ \A g : (\E j \in DOMAIN Append(q, h) : Append(q, h)[j] = g)
                    <=> (\E j \in DOMAIN q : q[j] = g) \/ g = h
<1> DEFINE r == Append(q, h)
<1>1. /\ r \in Seq(S) /\ Len(r) = Len(q) + 1
      /\ \A j \in 1 .. Len(q) : r[j] = q[j]
      /\ r[Len(q) + 1] = h
  BY AppendProperties
<1> HIDE DEF r
<1>2. /\ Len(q) \in Nat /\ DOMAIN q = 1 .. Len(q)
      /\ DOMAIN r = 1 .. Len(q) + 1
  BY <1>1, LenProperties
<1>3. \A j, k \in DOMAIN r : r[j] = r[k] => j = k
  BY <1>1, <1>2
<1>4. \A g : (\E j \in DOMAIN r : r[j] = g)
               <=> (\E j \in DOMAIN q : q[j] = g) \/ g = h
  BY <1>1, <1>2
<1> QED
  BY <1>1, <1>3, <1>4 DEF r

\* ... or at its beginning.
LEMMA PrependedQueue ==
    ASSUME NEW S, NEW q \in Seq(S), NEW h \in S,
           \A j, k \in DOMAIN q : q[j] = q[k] => j = k,
           \A j \in DOMAIN q : q[j] # h
    PROVE  /\ <<h>> \o q \in Seq(S)
           /\ \A j, k \in DOMAIN (<<h>> \o q) :
                (<<h>> \o q)[j] = (<<h>> \o q)[k] => j = k
           /\ \A g : (\E j \in DOMAIN (<<h>> \o q) : (<<h>> \o q)[j] = g)
                    <=> (\E j \in DOMAIN q : q[j] = g) \/ g = h
<1> DEFINE r == <<h>> \o q
<1>1. /\ <<h>> \in Seq(S) /\ Len(<<h>>) = 1 /\ <<h>>[1] = h
  OBVIOUS
<1>2. /\ Len(q) \in Nat /\ DOMAIN q = 1 .. Len(q)
  BY LenProperties
<1>3. /\ r \in Seq(S) /\ Len(r) = Len(<<h>>) + Len(q)
      /\ \A j \in 1 .. Len(<<h>>) + Len(q) :
           r[j] = IF j <= Len(<<h>>) THEN <<h>>[j] ELSE q[j - Len(<<h>>)]
  BY <1>1, ConcatProperties
<1> HIDE DEF r
<1>4. /\ DOMAIN r = 1 .. Len(q) + 1 /\ r[1] = h
      /\ \A j \in 1 .. Len(q) + 1 : j # 1 => r[j] = q[j - 1]
  BY <1>1, <1>2, <1>3, LenProperties
<1>5. \A j \in DOMAIN q : j + 1 \in DOMAIN r /\ r[j + 1] = q[j]
  BY <1>2, <1>4
<1>6. \A j \in DOMAIN r : j # 1 => j - 1 \in DOMAIN q
  BY <1>2, <1>4
<1>7. ASSUME NEW j \in DOMAIN r, NEW k \in DOMAIN r, r[j] = r[k]
      PROVE  j = k
  <2>1. CASE j = 1 /\ k = 1
    BY <2>1
  <2>2. CASE j = 1 /\ k # 1
    BY <1>4, <1>6, <1>7, <2>2
  <2>3. CASE j # 1 /\ k = 1
    BY <1>4, <1>6, <1>7, <2>3
  <2>4. CASE j # 1 /\ k # 1
    BY <1>2, <1>4, <1>6, <1>7, <2>4
  <2> QED
    BY <2>1, <2>2, <2>3, <2>4
<1>8. \A g : (\E j \in DOMAIN r : r[j] = g)
               <=> (\E j \in DOMAIN q : q[j] = g) \/ g = h
  BY <1>2, <1>4, <1>5, <1>6
<1> QED
  BY <1>3, <1>7, <1>8 DEF r

\* It loses everything up to one place.
LEMMA SuffixQueue ==
    ASSUME NEW S, NEW q \in Seq(S), NEW i \in DOMAIN q,
           \A j, k \in DOMAIN q : q[j] = q[k] => j = k
    PROVE  /\ SubSeq(q, i + 1, Len(q)) \in Seq(S) /\ q[i] \in S
           /\ \A j, k \in DOMAIN SubSeq(q, i + 1, Len(q)) :
                SubSeq(q, i + 1, Len(q))[j] = SubSeq(q, i + 1, Len(q))[k] => j = k
           /\ Range(SubSeq(q, i + 1, Len(q))) \subseteq Range(q)
           /\ q[i] \notin Range(SubSeq(q, i + 1, Len(q)))
<1> DEFINE r == SubSeq(q, i + 1, Len(q))
<1>1. /\ Len(q) \in Nat /\ DOMAIN q = 1 .. Len(q) /\ i \in 1 .. Len(q)
      /\ \A j \in 1 .. Len(q) : q[j] \in S
  BY LenProperties
<1>2. /\ r \in Seq(S) /\ Len(r) = Len(q) - i
      /\ \A j \in 1 .. Len(q) - i : r[j] = q[i + j]
  <2>1. /\ r \in Seq(S)
        /\ Len(r) = IF i + 1 <= Len(q) THEN Len(q) - (i + 1) + 1 ELSE 0
        /\ \A j \in 1 .. Len(q) - (i + 1) + 1 : r[j] = q[i + 1 + j - 1]
    <3>1. \A j \in i + 1 .. Len(q) : q[j] \in S
      BY <1>1
    <3> QED
      BY <1>1, <3>1, SubSeqProperties
  <2> QED
    BY <1>1, <2>1
<1> HIDE DEF r
<1>3. DOMAIN r = 1 .. (Len(q) - i)
  BY <1>1, <1>2, LenProperties
<1>4. \A j \in DOMAIN r : i + j \in DOMAIN q /\ i + j # i /\ r[j] = q[i + j]
  BY <1>1, <1>2, <1>3
<1>5. ASSUME NEW j \in DOMAIN r, NEW k \in DOMAIN r, r[j] = r[k]
      PROVE  j = k
  <2>1. i + j = i + k
    BY <1>4, <1>5
  <2> QED
    BY <1>1, <1>3, <2>1
<1> QED
  BY <1>1, <1>2, <1>4, <1>5 DEF r, Range

-----------------------------------------------------------------------------
\* A set of naturals that is not empty has a least element.
LEMMA LeastNatural ==
    ASSUME NEW T \in SUBSET Nat, T # {}
    PROVE  \E n \in T : \A m \in T : n <= m
<1>. PICK b \in T : TRUE OBVIOUS
<1>. DEFINE S == 0 .. b
            R == StrictSubsetOrdering(S)
            F == FiniteSubsetsOf(S)
            X == {0 .. (i - 1) : i \in {m \in T : m <= b}}
<1>1. IsFiniteSet(S) BY FS_Interval
<1>2. IsWellFoundedOn(R, F) BY <1>1, FS_StrictSubsetOrderingWellFounded
<1>3. X \subseteq F
  <2>1. ASSUME NEW x \in X PROVE x \in SUBSET S /\ IsFiniteSet(x)
    <3>1. x \subseteq S OBVIOUS
    <3>. QED BY <1>1, <3>1, FS_Subset
  <2>. QED BY <2>1 DEF FiniteSubsetsOf
<1>4. X # {} OBVIOUS
<1>. HIDE DEF R, F, X
<1>5. \E x \in X : \A y \in X : ~ (<<y, x>> \in R)
  BY <1>2, <1>3, <1>4, WFMin
<1>. USE DEF X
<1>6. PICK i \in {m \in T : m <= b} : \A y \in X : ~ (<<y, 0 .. (i - 1)>> \in R)
  BY <1>5
<1>7. ASSUME NEW m \in T, m < i PROVE FALSE
  <2>1. 0 .. (m - 1) \in X BY <1>7
  <2>2. 0 .. (m - 1) \subseteq 0 .. (i - 1) /\ i - 1 \in 0 .. (i - 1) /\ ~(i - 1 \in 0 .. (m - 1))
    BY <1>7
  <2>3. 0 .. (m - 1) \in SUBSET S /\ 0 .. (i - 1) \in SUBSET S BY <1>7
  <2>4. <<0 .. (m - 1), 0 .. (i - 1)>> \in R BY <2>2, <2>3 DEF R, StrictSubsetOrdering
  <2>. QED BY <1>6, <2>1, <2>4
<1>. QED BY <1>7
===============================================================================
