---------------------------- MODULE MutexProofs ----------------------------
(***************************************************************************)
(* Proofs about CoreMutex, for any threads, mutexes, disciplines, ceilings *)
(* and priorities.                                                         *)
(***************************************************************************)
EXTENDS CoreMutex, SequenceTheorems, FiniteSetTheorems,
        WellFoundedInduction, NaturalsInduction, TLAPS

\* Zenon is tried on every leaf that names no other prover.
USE Zenon

-----------------------------------------------------------------------------
\* Wait queues.

\* The elements of r come in the order they have in s.
InOrder(r, s) ==
  \A i, j \in 1 .. Len(r) : i < j =>
    \E a, b \in 1 .. Len(s) : a < b /\ r[i] = s[a] /\ r[j] = s[b]

LEMMA RemovePresent ==
  ASSUME NEW s \in Seq(Threads), IsInjective(s), NEW t \in ToSet(s)
  PROVE  /\ RemoveFirst(s, t) \in Seq(Threads) /\ IsInjective(RemoveFirst(s, t))
         /\ ToSet(RemoveFirst(s, t)) = ToSet(s) \ {t}
         /\ InOrder(RemoveFirst(s, t), s)
<1>1. PICK k \in 1 .. Len(s) : s[k] = t
  BY SMT DEF ToSet
<1>2. {i \in 1 .. Len(s) : s[i] = t} = {k}
  BY <1>1, SMT DEF IsInjective
<1>3. Min({k}) = k
  BY SMT DEF Min
<1>4. SelectInSeq(s, LAMBDA v : v = t) = k
  BY <1>2, <1>3 DEF SelectInSeq
<1> DEFINE r == SubSeq(s, 1, k - 1) \o SubSeq(s, k + 1, Len(s))
<1>5. RemoveFirst(s, t) = r
  BY <1>1, <1>4 DEF RemoveFirst, RemoveAt
<1>6. /\ r \in Seq(Threads) /\ Len(r) = Len(s) - 1
      /\ \A i \in 1 .. Len(s) - 1 : r[i] = IF i < k THEN s[i] ELSE s[i + 1]
  <2> DEFINE a == SubSeq(s, 1, k - 1)
             b == SubSeq(s, k + 1, Len(s))
  <2>1. a \in Seq(Threads) /\ Len(a) = k - 1 /\ \A i \in 1 .. k - 1 : a[i] = s[i]
    BY SMT
  <2>2. /\ b \in Seq(Threads) /\ Len(b) = Len(s) - k
        /\ \A i \in 1 .. Len(s) - k : b[i] = s[i + k]
    BY SMT
  <2> HIDE DEF a, b
  <2>3. /\ a \o b \in Seq(Threads) /\ Len(a \o b) = Len(a) + Len(b)
        /\ \A i \in 1 .. Len(a) + Len(b) :
             (a \o b)[i] = IF i <= Len(a) THEN a[i] ELSE b[i - Len(a)]
    BY <2>1, <2>2, ConcatProperties
  <2>4. ASSUME NEW i \in 1 .. Len(s) - 1
        PROVE  (a \o b)[i] = IF i < k THEN s[i] ELSE s[i + 1]
    <3>1. CASE i < k
      BY <2>1, <2>2, <2>3, <3>1, SMT
    <3>2. CASE i >= k
      <4>1. /\ i - (k - 1) \in 1 .. Len(s) - k
            /\ b[i - (k - 1)] = s[(i - (k - 1)) + k] /\ (i - (k - 1)) + k = i + 1
        BY <2>2, <3>2, SMT
      <4> QED
        BY <2>1, <2>2, <2>3, <3>2, <4>1, SMTT(30)
    <3>3. i < k \/ i >= k
      BY <1>1, SMT
    <3> QED
      BY <3>1, <3>2, <3>3
  <2>5. Len(a) + Len(b) = Len(s) - 1 /\ r = a \o b
    <3>1. Len(a) + Len(b) = Len(s) - 1
      BY <1>1, <2>1, <2>2, SMT
    <3> QED
      BY <3>1 DEF a, b
  <2> QED
    BY <2>3, <2>4, <2>5
<1> HIDE DEF r
<1>7. IsInjective(r)
  <2> SUFFICES ASSUME NEW i \in 1 .. Len(s) - 1, NEW j \in 1 .. Len(s) - 1, r[i] = r[j]
               PROVE  i = j
    BY <1>6, SMTT(30) DEF IsInjective
  <2> DEFINE up(n) == IF n < k THEN n ELSE n + 1
  <2>1. up(i) \in 1 .. Len(s) /\ up(j) \in 1 .. Len(s) /\ s[up(i)] = s[up(j)]
    BY <1>6, SMTT(30)
  <2>2. up(i) = up(j)
    BY <2>1, SMT DEF IsInjective
  <2> QED
    BY <2>2, SMT
<1>8. ToSet(r) \subseteq ToSet(s) \ {t}
  BY <1>1, <1>6, SMTT(30) DEF ToSet, IsInjective
<1>9. ToSet(s) \ {t} \subseteq ToSet(r)
  <2> SUFFICES ASSUME NEW i \in 1 .. Len(s), s[i] # t PROVE s[i] \in ToSet(r)
    BY SMT DEF ToSet
  <2>1. CASE i < k
    BY <1>6, <2>1, SMT DEF ToSet
  <2>2. CASE i > k
    <3>1. i - 1 \in 1 .. Len(s) - 1 /\ r[i - 1] = s[i]
      BY <1>6, <2>2, SMT
    <3> QED
      BY <1>6, <3>1, SMT DEF ToSet
  <2> QED
    BY <1>1, <2>1, <2>2, SMT
<1>10. InOrder(r, s)
  <2> DEFINE up(n) == IF n < k THEN n ELSE n + 1
  <2>1. ASSUME NEW i \in 1 .. Len(r), NEW j \in 1 .. Len(r), i < j
        PROVE  /\ up(i) \in 1 .. Len(s) /\ up(j) \in 1 .. Len(s) /\ up(i) < up(j)
               /\ r[i] = s[up(i)] /\ r[j] = s[up(j)]
    BY <1>6, <2>1, SMT
  <2> HIDE DEF up
  <2> QED
    BY <2>1 DEF InOrder
<1> QED
  BY <1>5, <1>6, <1>7, <1>8, <1>9, <1>10

LEMMA QueueRemove ==
  ASSUME NEW s \in Seq(Threads), IsInjective(s), NEW t
  PROVE  /\ RemoveFirst(s, t) \in Seq(Threads) /\ IsInjective(RemoveFirst(s, t))
         /\ ToSet(RemoveFirst(s, t)) = ToSet(s) \ {t}
         /\ InOrder(RemoveFirst(s, t), s)
<1>1. CASE t \in ToSet(s)
  BY <1>1, RemovePresent
<1>2. CASE t \notin ToSet(s)
  <2>1. RemoveFirst(s, t) = s
    BY <1>2, SMT DEF RemoveFirst, ToSet
  <2>2. InOrder(s, s)
    BY DEF InOrder
  <2> QED
    BY <1>2, <2>1, <2>2
<1> QED
  BY <1>1, <1>2

LEMMA QueueTail ==
  ASSUME NEW s \in Seq(Threads), IsInjective(s), s # << >>
  PROVE  /\ Head(s) \in ToSet(s) /\ Head(s) = s[1] /\ Len(s) >= 1
         /\ Tail(s) \in Seq(Threads) /\ IsInjective(Tail(s))
         /\ ToSet(Tail(s)) = ToSet(s) \ {Head(s)}
         /\ InOrder(Tail(s), s)
         /\ \A x \in ToSet(Tail(s)) : \E b \in 2 .. Len(s) : x = s[b]
<1> DEFINE r == Tail(s)
<1>1. /\ Len(s) \in Nat /\ Len(s) >= 1 /\ Head(s) = s[1] /\ Head(s) \in ToSet(s)
      /\ r \in Seq(Threads) /\ Len(r) = Len(s) - 1
      /\ \A i \in 1 .. Len(s) - 1 : r[i] = s[i + 1]
  BY SMT DEF ToSet
<1> HIDE DEF r
<1>2. IsInjective(r)
  <2> SUFFICES ASSUME NEW i \in 1 .. Len(s) - 1, NEW j \in 1 .. Len(s) - 1, r[i] = r[j]
               PROVE  i = j
    BY <1>1, SMT DEF IsInjective
  <2>1. i + 1 \in DOMAIN s /\ j + 1 \in DOMAIN s /\ s[i + 1] = s[j + 1]
    BY <1>1, SMT
  <2>2. i + 1 = j + 1
    BY <2>1 DEF IsInjective
  <2> QED
    BY <2>2, SMT
<1>3. InOrder(r, s)
  <2> SUFFICES ASSUME NEW i \in 1 .. Len(s) - 1, NEW j \in 1 .. Len(s) - 1, i < j
               PROVE  \E a, b \in 1 .. Len(s) : a < b /\ r[i] = s[a] /\ r[j] = s[b]
    BY <1>1, SMT DEF InOrder
  <2>1. /\ i + 1 \in 1 .. Len(s) /\ j + 1 \in 1 .. Len(s) /\ i + 1 < j + 1
        /\ r[i] = s[i + 1] /\ r[j] = s[j + 1]
    BY <1>1, SMT
  <2> QED
    BY <2>1
<1>4. ASSUME NEW x \in ToSet(r) PROVE \E b \in 2 .. Len(s) : x = s[b] /\ x \in ToSet(s) \ {s[1]}
  <2>1. PICK i \in 1 .. Len(s) - 1 : x = r[i]
    BY <1>1, SMT DEF ToSet
  <2>2. i + 1 \in 2 .. Len(s) /\ x = s[i + 1]
    BY <1>1, <2>1, SMT
  <2>3. s[i + 1] # s[1]
    BY <1>1, <2>2, SMTT(30) DEF IsInjective
  <2>4. s[i + 1] \in ToSet(s)
    BY <2>2, SMT DEF ToSet
  <2> QED
    BY <2>2, <2>3, <2>4
<1>5. ASSUME NEW x \in ToSet(s), x # s[1] PROVE x \in ToSet(r)
  <2>1. PICK i \in 1 .. Len(s) : x = s[i]
    BY SMT DEF ToSet
  <2>2. i - 1 \in 1 .. Len(s) - 1 /\ r[i - 1] = x
    BY <1>1, <1>5, <2>1, SMT
  <2> QED
    BY <1>1, <2>2, SMT DEF ToSet
<1>6. ToSet(r) = ToSet(s) \ {s[1]}
  BY <1>4, <1>5
<1> QED
  BY <1>1, <1>2, <1>3, <1>4, <1>6 DEF r

LEMMA QueueInsert ==
  ASSUME NEW s \in Seq(Threads), IsInjective(s), NEW t \in Threads, t \notin ToSet(s),
         NEW k \in 1 .. Len(s) + 1
  PROVE  /\ InsertAt(s, k, t) \in Seq(Threads) /\ Len(InsertAt(s, k, t)) = Len(s) + 1
         /\ \A i \in 1 .. Len(s) + 1 : InsertAt(s, k, t)[i] =
              IF i < k THEN s[i] ELSE IF i = k THEN t ELSE s[i - 1]
         /\ IsInjective(InsertAt(s, k, t))
         /\ ToSet(InsertAt(s, k, t)) = ToSet(s) \cup {t}
<1> DEFINE a == SubSeq(s, 1, k - 1)
           b == <<t>>
           c == SubSeq(s, k, Len(s))
           r == InsertAt(s, k, t)
<1>1. a \in Seq(Threads) /\ Len(a) = k - 1 /\ \A i \in 1 .. k - 1 : a[i] = s[i]
  BY SMT
<1>2. b \in Seq(Threads) /\ Len(b) = 1 /\ b[1] = t
  BY SMT
<1>3. /\ c \in Seq(Threads) /\ Len(c) = (Len(s) - k) + 1
      /\ \A i \in 1 .. (Len(s) - k) + 1 : c[i] = s[(i + k) - 1]
  BY SMT
<1>4. r = (a \o b) \o c
  BY DEF InsertAt
<1> HIDE DEF a, b, c, r
<1>5. /\ a \o b \in Seq(Threads) /\ Len(a \o b) = k
      /\ \A i \in 1 .. k : (a \o b)[i] = IF i < k THEN s[i] ELSE t
  <2>1. /\ a \o b \in Seq(Threads) /\ Len(a \o b) = Len(a) + Len(b)
        /\ \A i \in 1 .. Len(a) + Len(b) :
             (a \o b)[i] = IF i <= Len(a) THEN a[i] ELSE b[i - Len(a)]
    BY <1>1, <1>2, ConcatProperties
  <2> QED
    BY <1>1, <1>2, <2>1, SMT
<1> DEFINE d == a \o b
<1> HIDE DEF d
<1>6. /\ d \o c \in Seq(Threads) /\ Len(d \o c) = Len(d) + Len(c)
      /\ \A i \in 1 .. Len(d) + Len(c) :
           (d \o c)[i] = IF i <= Len(d) THEN d[i] ELSE c[i - Len(d)]
  <2>1. d \in Seq(Threads)
    BY <1>5 DEF d
  <2> QED
    BY <1>3, <2>1, ConcatProperties, ZenonT(30)
<1>7. /\ r \in Seq(Threads) /\ Len(r) = Len(s) + 1
      /\ \A i \in 1 .. Len(s) + 1 : r[i] = IF i < k THEN s[i] ELSE IF i = k THEN t ELSE s[i - 1]
  <2>1. Len(d) = k /\ Len(d) + Len(c) = Len(s) + 1 /\ r = d \o c
    BY <1>3, <1>4, <1>5, SMT DEF d
  <2>2. ASSUME NEW i \in 1 .. Len(s) + 1
        PROVE  r[i] = IF i < k THEN s[i] ELSE IF i = k THEN t ELSE s[i - 1]
    <3>1. CASE i <= k
      BY <1>5, <1>6, <2>1, <3>1, SMT DEF d
    <3>2. CASE i > k
      <4>1. /\ i - k \in 1 .. (Len(s) - k) + 1 /\ c[i - k] = s[((i - k) + k) - 1]
            /\ ((i - k) + k) - 1 = i - 1
        BY <1>3, <3>2, SMT
      <4> QED
        BY <1>6, <2>1, <3>2, <4>1, SMT
    <3> QED
      BY <3>1, <3>2, SMT
  <2> QED
    BY <1>6, <2>1, <2>2
<1>8. IsInjective(r)
  <2> SUFFICES ASSUME NEW i \in 1 .. Len(s) + 1, NEW j \in 1 .. Len(s) + 1, r[i] = r[j]
               PROVE  i = j
    BY <1>7, SMT DEF IsInjective
  <2>1. \A n \in 1 .. Len(s) : s[n] # t
    BY SMT DEF ToSet
  <2> DEFINE down(n) == IF n < k THEN n ELSE n - 1
  <2>2. ASSUME NEW n \in 1 .. Len(s) + 1, n # k
        PROVE  down(n) \in 1 .. Len(s) /\ r[n] = s[down(n)] /\ r[n] # t
    BY <1>7, <2>1, <2>2, SMT
  <2>3. CASE i = k \/ j = k
    BY <1>7, <2>2, <2>3, SMT
  <2>4. CASE i # k /\ j # k
    <3>1. down(i) \in 1 .. Len(s) /\ down(j) \in 1 .. Len(s) /\ s[down(i)] = s[down(j)]
      BY <2>2, <2>4
    <3>2. down(i) = down(j)
      BY <3>1, SMT DEF IsInjective
    <3> QED
      BY <2>4, <3>2, SMT
  <2> QED
    BY <2>3, <2>4
<1>9. ToSet(r) \subseteq ToSet(s) \cup {t}
  BY <1>7, SMTT(30) DEF ToSet
<1>10. t \in ToSet(r)
  BY <1>7, SMT DEF ToSet
<1>11. ToSet(s) \subseteq ToSet(r)
  <2> SUFFICES ASSUME NEW i \in 1 .. Len(s) PROVE s[i] \in ToSet(r)
    BY SMT DEF ToSet
  <2>1. CASE i < k
    BY <1>7, <2>1, SMT DEF ToSet
  <2>2. CASE i >= k
    <3>1. i + 1 \in 1 .. Len(s) + 1 /\ r[i + 1] = s[i]
      BY <1>7, <2>2, SMT
    <3> QED
      BY <1>7, <3>1, SMT DEF ToSet
  <2> QED
    BY <2>1, <2>2, SMT
<1> QED
  BY <1>7, <1>8, <1>9, <1>10, <1>11 DEF r

LEMMA LeastExists ==
  ASSUME NEW S \in SUBSET Nat, S # {}
  PROVE  \E x \in S : \A y \in S : x <= y
<1> DEFINE R == {ss \in Nat \X Nat : ss[1] < ss[2]}
<1>1. IsWellFoundedOn(R, Nat)
  BY NatLessThanWellFounded DEF OpToRel
<1>2. PICK x \in S : \A y \in S : ~(<<y, x>> \in R)
  <2> HIDE DEF R
  <2> QED
    BY <1>1, WFMin
<1>3. ASSUME NEW y \in S PROVE x <= y
  <2>1. x \in Nat /\ y \in Nat
    OBVIOUS
  <2>2. ASSUME y < x PROVE <<y, x>> \in R
    BY <2>1, <2>2
  <2> QED
    BY <1>2, <2>1, <2>2, SMT
<1> QED
  BY <1>3

\* Where Enqueued puts t: before it, in a queue by priority, only threads that
\* stay ahead, and t itself before one that does not.
LEMMA EnqueuedAt ==
  ASSUME TypeOK, NEW m \in Mutexes, NEW t \in Threads
  PROVE  \E k \in 1 .. Len(queue[m]) + 1 :
           /\ Enqueued(m, t) = InsertAt(queue[m], k, t)
           /\ discipline[m] # "FIFO" =>
                /\ \A i \in 1 .. k - 1 : StaysAhead(queue[m][i], t)
                /\ k <= Len(queue[m]) => ~StaysAhead(queue[m][k], t)
<1> DEFINE s == queue[m]
           behind == {i \in DOMAIN s : ~StaysAhead(s[i], t)}
           first(i) == \A j \in behind : i <= j
           at == IF discipline[m] = "FIFO" \/ behind = {} THEN Len(s) + 1
                 ELSE CHOOSE i \in behind : first(i)
<1>1. Enqueued(m, t) = InsertAt(s, at, t)
  BY DEF Enqueued
<1>2. s \in Seq(Threads) /\ Len(s) \in Nat /\ DOMAIN s = 1 .. Len(s)
  BY SMT DEF TypeOK
<1>3. CASE discipline[m] = "FIFO" \/ behind = {}
  <2>1. at = Len(s) + 1 /\ at \in 1 .. Len(s) + 1
    BY <1>2, <1>3, SMT
  <2>2. discipline[m] # "FIFO" => \A i \in 1 .. at - 1 : StaysAhead(s[i], t)
    BY <1>2, <1>3, <2>1, SMT
  <2>3. ~(at <= Len(s))
    BY <1>2, <2>1, SMT
  <2> HIDE DEF at
  <2> QED
    BY <1>1, <2>1, <2>2, <2>3
<1>4. CASE discipline[m] # "FIFO" /\ behind # {}
  <2>1. behind \in SUBSET Nat
    BY <1>2, SMT
  <2>2. \E x \in behind : first(x)
    <3> HIDE DEF behind
    <3> QED
      BY <1>4, <2>1, LeastExists
  <2>3. at = CHOOSE i \in behind : first(i)
    BY <1>4
  <2>4. at \in behind /\ first(at)
    <3> HIDE DEF at, behind, first
    <3> QED
      BY <2>2, <2>3
  <2> HIDE DEF at
  <2>5. at \in 1 .. Len(s) /\ ~StaysAhead(s[at], t)
    BY <1>2, <2>4
  <2>6. ASSUME NEW i \in 1 .. at - 1 PROVE StaysAhead(s[i], t)
    BY <1>2, <2>4, <2>5, SMTT(30)
  <2>7. at \in 1 .. Len(s) + 1
    BY <1>2, <2>5, SMT
  <2> QED
    BY <1>1, <2>5, <2>6, <2>7
<1> QED
  BY <1>3, <1>4

-----------------------------------------------------------------------------
\* Types.

LEMMA RaisedTypes ==
  ASSUME NEW p \in Priorities, NEW q \in Priorities
  PROVE  Raised(p, q) \in Priorities /\ Raised(p, q) <= p /\ Raised(p, q) <= q
BY CoreMutexAssumption, SMT DEF Raised

LEMMA CeilingTypes ==
  ASSUME NEW m \in Mutexes, NEW p \in Priorities
  PROVE  /\ AtCeiling(p, m) \in Priorities /\ AtCeiling(p, m) <= p
         /\ discipline[m] = "CEILING" => AtCeiling(p, m) <= Ceiling[m]
<1>1. Ceiling[m] \in Priorities /\ p <= p
  BY CoreMutexAssumption, SMT
<1> QED
  BY <1>1, RaisedTypes DEF AtCeiling

LEMMA InheritedTypes ==
  ASSUME TypeOK, NEW m \in Mutexes, NEW t \in Threads, holder[m] # NULL
  PROVE  /\ Inherited(m, t) \in Priorities /\ Inherited(m, t) <= current[holder[m]]
         /\ discipline[m] = "INHERIT" => Inherited(m, t) <= current[t]
<1>1. holder[m] \in Threads
  BY DEF TypeOK
<1>2. current[t] \in Priorities /\ current[holder[m]] \in Priorities
  BY <1>1 DEF TypeOK
<1>3. ASSUME NEW p \in Priorities PROVE p <= p
  BY CoreMutexAssumption, SMT
<1> QED
  BY <1>2, <1>3, RaisedTypes DEF Inherited

LEMMA CountTypes ==
  ASSUME NEW n \in 0 .. Modulus - 1
  PROVE  Succ(n) \in 0 .. Modulus - 1 /\ Pred(n) \in 0 .. Modulus - 1
BY CoreMutexAssumption, SMT DEF Succ, Pred

LEMMA TypeStep ==
  ASSUME TypeOK, NoIdleMutex, [Next]_vars
  PROVE  TypeOK'
<1>1. ASSUME NEW t \in Threads, NEW m \in Mutexes, Lock(t, m)
      PROVE  TypeOK'
  <2>1. current[t] \in Priorities /\ AtCeiling(current[t], m) \in Priorities
    BY CeilingTypes DEF TypeOK
  <2>2. resource_count[t] \in 0 .. Modulus - 1
    BY DEF TypeOK
  <2>3. Succ(resource_count[t]) \in 0 .. Modulus - 1 /\ 1 \in 0 .. Modulus - 1
    BY <2>2, CountTypes, CoreMutexAssumption, SMT
  <2> QED
    BY <1>1, <2>1, <2>3 DEF TypeOK, Lock
<1>2. ASSUME NEW t \in Threads, NEW m \in Mutexes, Nest(t, m)
      PROVE  TypeOK'
  <2>1. nest_count[m] + 1 \in 0 .. Modulus - 1
    BY <1>2, CoreMutexAssumption, SMT DEF TypeOK, Nest
  <2> QED
    BY <1>2, <2>1 DEF TypeOK, Nest
<1>3. ASSUME NEW t \in Threads, NEW m \in Mutexes, Runs(t), Wait(t, m)
      PROVE  TypeOK'
  <2>1. PICK k \in 1 .. Len(queue[m]) + 1 : Enqueued(m, t) = InsertAt(queue[m], k, t)
    BY EnqueuedAt
  <2>2. queue[m] \in Seq(Threads) /\ IsInjective(queue[m]) /\ t \notin ToSet(queue[m])
    BY <1>3, CoreMutexAssumption, SMT DEF TypeOK, NoIdleMutex, Runs
  <2>3. Enqueued(m, t) \in Seq(Threads)
    BY <2>1, <2>2, QueueInsert, SMT
  <2>4. holder[m] \in Threads /\ holder[m] # NULL /\ holder[m] # t
    BY <1>3 DEF TypeOK, Wait
  <2>5. Inherited(m, t) \in Priorities
    BY <2>4, InheritedTypes
  <2>6. current[t] \in Priorities /\ AtCeiling(current[t], m) \in Priorities
    BY CeilingTypes DEF TypeOK
  <2>7. current' \in [Threads -> Priorities]
    BY <1>3, <2>4, <2>5, <2>6 DEF TypeOK, Wait
  <2> QED
    BY <1>3, <2>3, <2>7 DEF TypeOK, Wait
<1>4. ASSUME NEW t \in Threads, Timeout(t)
      PROVE  TypeOK'
  <2>1. waiting[t] \in Mutexes
    BY <1>4 DEF TypeOK, Timeout
  <2>2. Extracted(queue[waiting[t]], t) \in Seq(Threads)
    BY <2>1, QueueRemove DEF TypeOK, NoIdleMutex, Extracted
  <2> QED
    BY <1>4, <2>1, <2>2 DEF TypeOK, Timeout
<1>5. ASSUME NEW t \in Threads, NEW m \in Mutexes, SurrenderNested(t, m)
      PROVE  TypeOK'
  <2>1. nest_count[m] \in 0 .. Modulus - 1
    BY DEF TypeOK
  <2>2. Pred(nest_count[m]) \in 0 .. Modulus - 1
    BY <2>1, CountTypes
  <2> QED
    BY <1>5, <2>2 DEF TypeOK, SurrenderNested
<1>6. ASSUME NEW t \in Threads, NEW m \in Mutexes, SurrenderLast(t, m)
      PROVE  TypeOK'
  <2>1. current' \in [Threads -> Priorities]
    <3>1. (IF Lowered(t, m) THEN real[t] ELSE current[t]) \in Priorities
      BY DEF TypeOK
    <3> QED
      BY <1>6, <3>1 DEF TypeOK, SurrenderLast
  <2>2. Released(t) \in [Threads -> 0 .. Modulus - 1]
    <3>1. resource_count[t] \in 0 .. Modulus - 1
      BY DEF TypeOK
    <3>2. Pred(resource_count[t]) \in 0 .. Modulus - 1
      BY <3>1, CountTypes
    <3> QED
      BY <3>2 DEF TypeOK, Released
  <2>3. 0 \in 0 .. Modulus - 1 /\ 1 \in 0 .. Modulus - 1
    BY CoreMutexAssumption, SMT
  <2>4. CASE Unlock(t, m)
    BY <1>6, <2>1, <2>2, <2>3, <2>4 DEF TypeOK, SurrenderLast, Unlock
  <2>5. CASE HandOn(t, m)
    <3> DEFINE h == Head(queue[m])
    <3>1. queue[m] \in Seq(Threads) /\ queue[m] # << >>
      BY <2>5 DEF TypeOK, HandOn
    <3>2. h \in Threads /\ Tail(queue[m]) \in Seq(Threads)
      BY <3>1, SMT
    <3>3. Released(t)[h] \in 0 .. Modulus - 1
      BY <2>2, <3>2
    <3>4. Succ(Released(t)[h]) \in 0 .. Modulus - 1
      BY <3>3, CountTypes
    <3>5. resource_count' \in [Threads -> 0 .. Modulus - 1]
      <4> HIDE DEF h
      <4>1. Counted(Released(t), h) \in [Threads -> 0 .. Modulus - 1]
        BY <2>2, <3>2, <3>4 DEF Counted
      <4> QED
        BY <2>5, <4>1 DEF HandOn, h
    <3>6. /\ queue' = [queue EXCEPT ![m] = Tail(@)] /\ waiting' = [waiting EXCEPT ![h] = NULL]
          /\ holder' = [holder EXCEPT ![m] = h] /\ nest_count' = [nest_count EXCEPT ![m] = 1]
          /\ UNCHANGED <<orderly, discipline, real>> /\ created' \subseteq created
      BY <1>6, <2>5 DEF HandOn, SurrenderLast
    <3> HIDE DEF h
    <3> QED
      BY <2>1, <2>3, <3>2, <3>5, <3>6, SMTT(30) DEF TypeOK
  <2> QED
    BY <1>6, <2>4, <2>5 DEF SurrenderLast
<1>7. ASSUME NEW t \in Threads, NEW p \in Priorities, SetPriority(t, p)
      PROVE  TypeOK'
  <2>1. (IF resource_count[t] = 0 \/ current[t] > p THEN p ELSE current[t]) \in Priorities
    BY DEF TypeOK
  <2> QED
    BY <1>7, <2>1 DEF TypeOK, SetPriority
<1>8. ASSUME NEW t \in Threads, Restart(t)
      PROVE  TypeOK'
  <2>1. InitialPriority[t] \in Priorities /\ 0 \in 0 .. Modulus - 1
    BY CoreMutexAssumption, SMT
  <2>2. \A m \in Mutexes : Extracted(queue[m], t) \in Seq(Threads)
    BY QueueRemove DEF TypeOK, NoIdleMutex, Extracted
  <2>3. queue' \in [Mutexes -> Seq(Threads)]
    BY <1>8, <2>2 DEF Restart
  <2>4. (IF current[t] # InitialPriority[t] THEN InitialPriority[t] ELSE real[t]) \in Priorities
    BY <2>1 DEF TypeOK
  <2> QED
    BY <1>8, <2>1, <2>3, <2>4 DEF TypeOK, Restart
<1>9. CASE UNCHANGED vars
  BY <1>9 DEF TypeOK, vars
<1> QED
  BY <1>1, <1>2, <1>3, <1>4, <1>5, <1>6, <1>7, <1>8, <1>9 DEF Next, Seize, Surrender

-----------------------------------------------------------------------------
\* The wait queues.

LEMMA QueueStep ==
  ASSUME TypeOK, NoIdleMutex, [Next]_vars
  PROVE  NoIdleMutex'
<1>1. ASSUME NEW t \in Threads, NEW m \in Mutexes, Lock(t, m)
      PROVE  NoIdleMutex'
  <2>1. queue' = queue /\ waiting' = waiting /\ \A M \in Mutexes : Locked(M) => Locked(M)'
    BY <1>1, CoreMutexAssumption DEF TypeOK, Lock, Locked
  <2> QED
    BY <2>1 DEF NoIdleMutex
<1>2. ASSUME UNCHANGED <<holder, queue, waiting>>
      PROVE  NoIdleMutex'
  BY <1>2 DEF NoIdleMutex, Locked
<1>3. ASSUME NEW t \in Threads, NEW m \in Mutexes, Runs(t), Wait(t, m)
      PROVE  NoIdleMutex'
  <2>1. PICK k \in 1 .. Len(queue[m]) + 1 : Enqueued(m, t) = InsertAt(queue[m], k, t)
    BY EnqueuedAt
  <2>2. queue[m] \in Seq(Threads) /\ IsInjective(queue[m]) /\ t \notin ToSet(queue[m])
    BY <1>3, CoreMutexAssumption, SMT DEF TypeOK, NoIdleMutex, Runs
  <2>3. /\ IsInjective(Enqueued(m, t)) /\ ToSet(Enqueued(m, t)) = ToSet(queue[m]) \cup {t}
    BY <2>1, <2>2, QueueInsert, SMT
  <2>4. /\ holder' = holder /\ Locked(m) /\ waiting' = [waiting EXCEPT ![t] = m]
        /\ queue'[m] = Enqueued(m, t) /\ \A M \in Mutexes \ {m} : queue'[M] = queue[M]
    BY <1>3 DEF TypeOK, Wait, Locked
  <2>5. waiting[t] = NULL /\ \A M \in Mutexes : M # NULL
    BY <1>3, CoreMutexAssumption DEF Runs
  <2>6. ASSUME NEW M \in Mutexes, M # m
        PROVE  {u \in Threads : waiting'[u] = M} = {u \in Threads : waiting[u] = M}
    BY <2>4, <2>5, <2>6 DEF TypeOK
  <2>7. {u \in Threads : waiting'[u] = m} = {u \in Threads : waiting[u] = m} \cup {t}
    BY <2>4, <2>5 DEF TypeOK
  <2>8. ASSUME NEW M \in Mutexes
        PROVE  /\ ~Locked(M)' => queue'[M] = << >>
               /\ ToSet(queue'[M]) = {u \in Threads : waiting'[u] = M}
               /\ IsInjective(queue'[M])
    <3>1. CASE M = m
      BY <2>3, <2>4, <2>7, <3>1 DEF NoIdleMutex, Locked
    <3>2. CASE M # m
      BY <2>4, <2>6, <3>2 DEF NoIdleMutex, Locked
    <3> QED
      BY <3>1, <3>2
  <2> QED
    BY <2>8 DEF NoIdleMutex
<1>4. ASSUME NEW t \in Threads, waiting' = [waiting EXCEPT ![t] = NULL], holder' = holder,
             \A M \in Mutexes : queue'[M] = IF waiting[t] = M THEN Extracted(queue[M], t)
                                                              ELSE queue[M]
      PROVE  NoIdleMutex'
  <2>1. ASSUME NEW M \in Mutexes
        PROVE  {u \in Threads : waiting'[u] = M} = {u \in Threads : waiting[u] = M} \ {t}
    BY <1>4, CoreMutexAssumption DEF TypeOK
  <2>2. ASSUME NEW M \in Mutexes, waiting[t] # M
        PROVE  {u \in Threads : waiting[u] = M} \ {t} = {u \in Threads : waiting[u] = M}
    BY <2>2
  <2>3. ASSUME NEW M \in Mutexes, waiting[t] = M
        PROVE  /\ queue[M] # << >> /\ IsInjective(Extracted(queue[M], t))
               /\ ToSet(Extracted(queue[M], t)) = ToSet(queue[M]) \ {t}
    <3>1. t \in ToSet(queue[M]) /\ queue[M] \in Seq(Threads) /\ IsInjective(queue[M])
      BY <2>3 DEF NoIdleMutex, TypeOK
    <3>2. queue[M] # << >>
      BY <3>1, SMT DEF ToSet
    <3> QED
      BY <3>1, <3>2, QueueRemove DEF Extracted
  <2>4. ASSUME NEW M \in Mutexes
        PROVE  /\ ~Locked(M)' => queue'[M] = << >>
               /\ ToSet(queue'[M]) = {u \in Threads : waiting'[u] = M}
               /\ IsInjective(queue'[M])
    <3>1. CASE waiting[t] = M
      <4>1. queue'[M] = Extracted(queue[M], t)
        BY <1>4, <3>1
      <4> QED
        BY <1>4, <2>1, <2>3, <3>1, <4>1, SMT DEF NoIdleMutex, Locked
    <3>2. CASE waiting[t] # M
      <4>1. queue'[M] = queue[M]
        BY <1>4, <3>2
      <4> QED
        BY <1>4, <2>1, <2>2, <3>2, <4>1, SMT DEF NoIdleMutex, Locked
    <3> QED
      BY <3>1, <3>2
  <2> QED
    BY <2>4 DEF NoIdleMutex
<1>5. ASSUME NEW t \in Threads, Timeout(t)
      PROVE  NoIdleMutex'
  <2>1. /\ waiting' = [waiting EXCEPT ![t] = NULL] /\ holder' = holder
        /\ \A M \in Mutexes : queue'[M] = IF waiting[t] = M THEN Extracted(queue[M], t)
                                                             ELSE queue[M]
    BY <1>5 DEF Timeout, TypeOK
  <2> QED
    BY <1>4, <2>1
<1>6. ASSUME NEW t \in Threads, Restart(t)
      PROVE  NoIdleMutex'
  <2>1. ASSUME NEW M \in Mutexes, waiting[t] # M PROVE Extracted(queue[M], t) = queue[M]
    <3>1. t \notin ToSet(queue[M])
      BY <2>1 DEF NoIdleMutex
    <3> QED
      BY <3>1, SMT DEF Extracted, RemoveFirst, ToSet
  <2>2. /\ waiting' = [waiting EXCEPT ![t] = NULL] /\ holder' = holder
        /\ \A M \in Mutexes : queue'[M] = IF waiting[t] = M THEN Extracted(queue[M], t)
                                                             ELSE queue[M]
    BY <1>6, <2>1 DEF Restart
  <2> QED
    BY <1>4, <2>2
<1>7. ASSUME NEW t \in Threads, NEW m \in Mutexes, Unlock(t, m)
      PROVE  NoIdleMutex'
  <2>1. /\ queue' = queue /\ waiting' = waiting /\ queue[m] = << >>
        /\ \A M \in Mutexes \ {m} : Locked(M)' = Locked(M)
    BY <1>7 DEF Unlock, TypeOK, Locked
  <2> QED
    BY <2>1 DEF NoIdleMutex
<1>8. ASSUME NEW t \in Threads, NEW m \in Mutexes, HandOn(t, m)
      PROVE  NoIdleMutex'
  <2> DEFINE h == Head(queue[m])
  <2>1. queue[m] \in Seq(Threads) /\ IsInjective(queue[m]) /\ queue[m] # << >>
    BY <1>8 DEF TypeOK, NoIdleMutex, HandOn
  <2>2. /\ h \in ToSet(queue[m]) /\ IsInjective(Tail(queue[m]))
        /\ ToSet(Tail(queue[m])) = ToSet(queue[m]) \ {h}
    BY <2>1, QueueTail
  <2>3. h \in Threads /\ waiting[h] = m
    BY <2>2 DEF NoIdleMutex
  <2>4. /\ holder' = [holder EXCEPT ![m] = h] /\ waiting' = [waiting EXCEPT ![h] = NULL]
        /\ queue'[m] = Tail(queue[m]) /\ \A M \in Mutexes \ {m} : queue'[M] = queue[M]
    BY <1>8 DEF HandOn, TypeOK
  <2> HIDE DEF h
  <2>5. /\ {u \in Threads : waiting'[u] = m} = {u \in Threads : waiting[u] = m} \ {h}
        /\ \A M \in Mutexes \ {m} :
             {u \in Threads : waiting'[u] = M} = {u \in Threads : waiting[u] = M}
    BY <2>3, <2>4, CoreMutexAssumption DEF TypeOK
  <2>6. Locked(m)' /\ \A M \in Mutexes \ {m} : Locked(M)' = Locked(M)
    BY <2>3, <2>4, CoreMutexAssumption DEF TypeOK, Locked
  <2> QED
    BY <2>2, <2>4, <2>5, <2>6, SMT DEF NoIdleMutex
<1> QED
  BY <1>1, <1>2, <1>3, <1>5, <1>6, <1>7, <1>8
  DEF Next, Seize, Surrender, Nest, SurrenderNested, SurrenderLast, SetPriority, vars

LEMMA InitTypes ==
  ASSUME Init PROVE TypeOK /\ NoIdleMutex
<1>1. ASSUME NEW t \in Threads PROVE Cardinality(Held(t)) \in 0 .. Modulus - 1
  <2>1. Held(t) \subseteq Mutexes /\ IsFiniteSet(Mutexes)
    BY CoreMutexAssumption DEF Held
  <2>2. /\ Cardinality(Held(t)) \in Nat /\ Cardinality(Mutexes) \in Nat
        /\ Cardinality(Held(t)) <= Cardinality(Mutexes)
    BY <2>1, FS_Subset, FS_CardinalityType
  <2> QED
    BY <2>2, CoreMutexAssumption, SMT
<1>2. 0 \in 0 .. Modulus - 1 /\ 1 \in 0 .. Modulus - 1
  BY CoreMutexAssumption, SMT
<1>3. TypeOK
  BY <1>1, <1>2, CoreMutexAssumption, SMT DEF Init, TypeOK
<1>4. ASSUME NEW m \in Mutexes PROVE {t \in Threads : waiting[t] = m} = {}
  BY CoreMutexAssumption DEF Init
<1>5. ToSet(<< >>) = {} /\ IsInjective(<< >>)
  BY SMT DEF ToSet, IsInjective
<1> QED
  BY <1>3, <1>4, <1>5 DEF Init, NoIdleMutex

\* For any threads, mutexes and disciplines, and also where anybody releases and
\* threads are restarted: no thread waits for a mutex nobody holds, and each is
\* on the queue of the mutex it waits for, once (_CORE_mutex_Seize,
\* _CORE_mutex_Surrender, _Thread_queue_Timeout, _Thread_Restart).
THEOREM NobodyStranded == Spec => []NoIdleMutex
<1>1. Init => TypeOK /\ NoIdleMutex
  BY InitTypes
<1>2. TypeOK /\ NoIdleMutex /\ [Next]_vars => (TypeOK /\ NoIdleMutex)'
  BY TypeStep, QueueStep
<1> QED
  BY <1>1, <1>2, PTL DEF Spec

-----------------------------------------------------------------------------
\* Orderly threads: only holders release, nobody is restarted, a thread that
\* waits holds nothing, and the priority of a waiting thread is not set.

SortedBy(f, s) == \A i, j \in 1 .. Len(s) : i < j => f[s[i]] <= f[s[j]]

CountsHeld == \A t \in Threads : resource_count[t] = Cardinality(Held(t))
WaitersHoldNothing == \A t \in Threads : waiting[t] # NULL => Held(t) = {}
QueuesSorted == \A m \in Mutexes : discipline[m] = "INHERIT" => SortedBy(current, queue[m])
WaitersAtCeiling ==
  \A m \in Mutexes, t \in Threads :
    discipline[m] = "CEILING" /\ waiting[t] = m => current[t] <= Ceiling[m]
OwnPriority ==
  (\A m \in Mutexes : discipline[m] = "INHERIT") =>
    \A t \in Threads : Held(t) = {} => current[t] = real[t]

OrderlyInv ==
  /\ CountsHeld /\ WaitersHoldNothing /\ QueuesSorted /\ WaitersAtCeiling
  /\ HolderInherits /\ HolderAtCeiling /\ OwnPriority
IInv == TypeOK /\ NoIdleMutex /\ (orderly => OrderlyInv)

LEMMA SortedAgree ==
  ASSUME NEW f, NEW g, NEW s \in Seq(Threads), SortedBy(f, s),
         \A x \in ToSet(s) : g[x] = f[x]
  PROVE  SortedBy(g, s)
<1>1. \A i \in 1 .. Len(s) : g[s[i]] = f[s[i]]
  BY SMT DEF ToSet
<1> QED
  BY <1>1 DEF SortedBy

LEMMA SortedInOrder ==
  ASSUME NEW f, NEW s \in Seq(Threads), NEW r \in Seq(Threads), SortedBy(f, s), InOrder(r, s)
  PROVE  SortedBy(f, r)
<1> SUFFICES ASSUME NEW i \in 1 .. Len(r), NEW j \in 1 .. Len(r), i < j
             PROVE  f[r[i]] <= f[r[j]]
  BY DEF SortedBy
<1>1. PICK a \in 1 .. Len(s), b \in 1 .. Len(s) : a < b /\ r[i] = s[a] /\ r[j] = s[b]
  BY DEF InOrder
<1> QED
  BY <1>1 DEF SortedBy

LEMMA EnqueuedSorted ==
  ASSUME TypeOK, NoIdleMutex, NEW m \in Mutexes, NEW t \in Threads, Runs(t),
         discipline[m] = "INHERIT", SortedBy(current, queue[m])
  PROVE  SortedBy(current, Enqueued(m, t))
<1> DEFINE s == queue[m]
<1>1. s \in Seq(Threads) /\ IsInjective(s) /\ t \notin ToSet(s) /\ discipline[m] # "FIFO"
  BY CoreMutexAssumption, SMT DEF TypeOK, NoIdleMutex, Runs
<1>2. PICK k \in 1 .. Len(s) + 1 :
        /\ Enqueued(m, t) = InsertAt(s, k, t)
        /\ \A i \in 1 .. k - 1 : StaysAhead(s[i], t)
        /\ k <= Len(s) => ~StaysAhead(s[k], t)
  BY <1>1, EnqueuedAt
<1> DEFINE r == Enqueued(m, t)
<1>3. /\ Len(r) = Len(s) + 1
      /\ \A i \in 1 .. Len(s) + 1 : r[i] = IF i < k THEN s[i] ELSE IF i = k THEN t ELSE s[i - 1]
  <2>1. r = InsertAt(s, k, t)
    BY <1>2
  <2> HIDE DEF r, s
  <2> QED
    BY <1>1, <2>1, QueueInsert, SMT
<1>4. ASSUME NEW i \in 1 .. Len(s) PROVE current[s[i]] \in Nat
  <2>1. s[i] \in Threads
    BY <1>1, SMT
  <2> QED
    BY <2>1, CoreMutexAssumption DEF TypeOK
<1>5. current[t] \in Nat
  BY CoreMutexAssumption DEF TypeOK
<1>6. ASSUME NEW i \in 1 .. k - 1 PROVE current[s[i]] <= current[t]
  BY <1>2 DEF StaysAhead
<1>7. ASSUME NEW j \in k .. Len(s) PROVE current[t] <= current[s[j]]
  <2>1. k <= Len(s) /\ k \in 1 .. Len(s) /\ j \in 1 .. Len(s)
    BY <1>1, SMT
  <2>2. current[t] < current[s[k]]
    BY <1>2, <1>4, <1>5, <2>1, SMT DEF StaysAhead
  <2>3. current[s[k]] <= current[s[j]]
    BY <1>4, <2>1, SMT DEF SortedBy
  <2> QED
    BY <1>4, <1>5, <2>1, <2>2, <2>3, SMT
<1>8. \A i, j \in 1 .. Len(s) : i < j => current[s[i]] <= current[s[j]]
  BY DEF SortedBy
<1> HIDE DEF r, s
<1>9. ASSUME NEW i \in 1 .. Len(s) + 1, NEW j \in 1 .. Len(s) + 1, i < j
      PROVE  current[r[i]] <= current[r[j]]
  <2>0. Len(s) \in Nat
    BY <1>1, SMT
  <2>1. CASE j < k
    BY <1>3, <1>8, <1>9, <2>0, <2>1, SMT
  <2>2. CASE j = k
    BY <1>3, <1>6, <1>9, <2>0, <2>2, SMT
  <2>3. CASE j > k
    <3>1. r[j] = s[j - 1] /\ j - 1 \in k .. Len(s) /\ j - 1 \in 1 .. Len(s)
      BY <1>3, <2>0, <2>3, SMT
    <3>2. CASE i < k
      BY <1>3, <1>8, <2>0, <3>1, <3>2, SMT
    <3>3. CASE i = k
      BY <1>3, <1>7, <2>0, <3>1, <3>3, SMT
    <3>4. CASE i > k
      <4>1. r[i] = s[i - 1] /\ i - 1 \in 1 .. Len(s) /\ i - 1 < j - 1
        BY <1>3, <1>9, <2>0, <3>4, SMT
      <4> QED
        BY <1>8, <3>1, <4>1
    <3> QED
      BY <3>2, <3>3, <3>4, SMT
  <2> QED
    BY <2>1, <2>2, <2>3, SMT
<1>10. Len(r) = Len(s) + 1
  BY <1>3
<1>11. SortedBy(current, r)
  BY <1>9, <1>10 DEF SortedBy
<1> QED
  BY <1>11 DEF r

LEMMA HeldFinite ==
  ASSUME NEW t
  PROVE  /\ IsFiniteSet(Held(t)) /\ Cardinality(Held(t)) \in Nat
         /\ Cardinality(Mutexes) \in Nat /\ Cardinality(Held(t)) <= Cardinality(Mutexes)
<1>1. Held(t) \subseteq Mutexes /\ IsFiniteSet(Mutexes)
  BY CoreMutexAssumption DEF Held
<1> QED
  BY <1>1, FS_Subset, FS_CardinalityType

\* One more mutex is one more resource: the count does not wrap.
LEMMA HeldMore ==
  ASSUME NEW t, NEW m \in Mutexes, m \notin Held(t)
  PROVE  /\ Cardinality(Held(t) \cup {m}) = Cardinality(Held(t)) + 1
         /\ Succ(Cardinality(Held(t))) = Cardinality(Held(t)) + 1
<1> DEFINE S == Held(t) \cup {m}
<1>1. S \subseteq Mutexes /\ IsFiniteSet(Mutexes)
  BY CoreMutexAssumption DEF Held
<1>2. Cardinality(S) \in Nat /\ Cardinality(S) <= Cardinality(Mutexes)
  BY <1>1, FS_Subset, FS_CardinalityType
<1>3. Cardinality(S) = Cardinality(Held(t)) + 1
  BY HeldFinite, FS_AddElement
<1>4. Cardinality(Held(t)) + 1 < Modulus /\ Modulus \in Nat /\ Cardinality(Held(t)) \in Nat
  BY <1>2, <1>3, HeldFinite, CoreMutexAssumption, SMT
<1> HIDE DEF S
<1> QED
  BY <1>3, <1>4, SMT DEF Succ, S

\* One less is one less, and none is left exactly if it was the only one.
LEMMA HeldLess ==
  ASSUME NEW t, NEW m \in Held(t)
  PROVE  /\ Cardinality(Held(t) \ {m}) = Pred(Cardinality(Held(t)))
         /\ Pred(Cardinality(Held(t))) = 0 => Held(t) = {m}
<1> DEFINE S == Held(t) \ {m}
<1>1. IsFiniteSet(S) /\ Cardinality(S) = Cardinality(Held(t)) - 1
  BY HeldFinite, FS_RemoveElement
<1>2. Cardinality(S) \in Nat /\ (Cardinality(S) = 0 => S = {})
  BY <1>1, FS_CardinalityType, FS_EmptySet
<1>3. Cardinality(Held(t)) \in 1 .. Modulus - 1 /\ Modulus \in Nat
  BY <1>1, <1>2, HeldFinite, CoreMutexAssumption, SMT
<1> DEFINE n == Cardinality(Held(t))
<1>4. Pred(n) = n - 1
  <2> HIDE DEF n
  <2>1. n \in 1 .. Modulus - 1
    BY <1>3 DEF n
  <2>2. n + (Modulus - 1) = (n - 1) + Modulus /\ n - 1 \in 0 .. Modulus - 1
    BY <1>3, <2>1, SMT
  <2>3. ((n - 1) + Modulus) % Modulus = n - 1
    BY <1>3, <2>2, SMT
  <2> QED
    BY <2>2, <2>3 DEF Pred
<1> QED
  BY <1>1, <1>2, <1>4

\* What a thread waits for somebody holds.
LEMMA WaitedLocked ==
  ASSUME TypeOK, NoIdleMutex, NEW u \in Threads, NEW m \in Mutexes, waiting[u] = m
  PROVE  holder[m] \in Threads
<1>1. u \in ToSet(queue[m])
  BY DEF NoIdleMutex
<1>2. queue[m] # << >>
  BY <1>1, SMT DEF ToSet
<1>3. Locked(m)
  BY <1>2 DEF NoIdleMutex
<1> QED
  BY <1>3 DEF TypeOK, Locked

LEMMA LockKeeps ==
  ASSUME IInv, orderly, NEW t \in Threads, NEW m \in Mutexes, Runs(t), Lock(t, m)
  PROVE  OrderlyInv'
<1> DEFINE c == AtCeiling(current[t], m)
<1>1. /\ TypeOK /\ NoIdleMutex /\ OrderlyInv /\ waiting[t] = NULL
      /\ t # NULL /\ (\A M \in Mutexes : M # NULL)
  BY CoreMutexAssumption DEF IInv, Runs
<1>2. /\ current[t] \in Priorities /\ c \in Priorities /\ c <= current[t]
      /\ discipline[m] = "CEILING" => c <= Ceiling[m]
  BY <1>1, CeilingTypes DEF TypeOK
<1> HIDE DEF c
<1>3. /\ holder[m] = NULL /\ queue[m] = << >>
      /\ holder' = [holder EXCEPT ![m] = t] /\ current' = [current EXCEPT ![t] = c]
      /\ resource_count' = [resource_count EXCEPT ![t] = Succ(@)]
      /\ orderly' = orderly /\ discipline' = discipline /\ queue' = queue
      /\ waiting' = waiting /\ real' = real /\ created' = created
  BY <1>1 DEF Lock, Locked, NoIdleMutex, c
<1>4. /\ m \notin Held(t) /\ Held(t)' = Held(t) \cup {m}
      /\ \A u \in Threads \ {t} : Held(u)' = Held(u)
  <2>1. ASSUME NEW M \in Mutexes PROVE holder'[M] = IF M = m THEN t ELSE holder[M]
    BY <1>1, <1>3 DEF TypeOK
  <2>2. m \notin Held(t)
    BY <1>1, <1>3 DEF Held
  <2>3. Held(t)' = Held(t) \cup {m}
    BY <2>1 DEF Held
  <2>4. ASSUME NEW u \in Threads \ {t} PROVE Held(u)' = Held(u)
    <3>1. u # NULL
      BY CoreMutexAssumption
    <3> QED
      BY <1>3, <2>1, <3>1 DEF Held
  <2> QED
    BY <2>2, <2>3, <2>4
<1>5. ASSUME NEW u \in Threads PROVE waiting[u] # m
  <2>1. u \notin ToSet(queue[m])
    BY <1>3, SMT DEF ToSet
  <2> QED
    BY <1>1, <2>1 DEF NoIdleMutex
<1>6. ASSUME NEW u \in Threads
      PROVE  /\ current'[u] \in Nat /\ current[u] \in Nat /\ current'[u] <= current[u]
             /\ waiting[u] # NULL => current'[u] = current[u]
  <2>1. current[u] \in Nat /\ c \in Nat
    BY <1>1, <1>2, CoreMutexAssumption DEF TypeOK
  <2>2. current'[u] = IF u = t THEN c ELSE current[u]
    BY <1>1, <1>3 DEF TypeOK
  <2> QED
    BY <1>1, <1>2, <2>1, <2>2, SMT
<1>7. CountsHeld'
  <2>1. ASSUME NEW u \in Threads PROVE resource_count'[u] = Cardinality(Held(u)')
    <3>1. CASE u = t
      BY <1>1, <1>3, <1>4, <3>1, HeldMore, ZenonT(30) DEF TypeOK, OrderlyInv, CountsHeld
    <3>2. CASE u # t
      BY <1>1, <1>3, <1>4, <3>2 DEF TypeOK, OrderlyInv, CountsHeld
    <3> QED
      BY <3>1, <3>2
  <2> QED
    BY <2>1 DEF CountsHeld
<1>8. WaitersHoldNothing'
  BY <1>1, <1>3, <1>4 DEF OrderlyInv, WaitersHoldNothing
<1>9. QueuesSorted'
  <2> SUFFICES ASSUME NEW M \in Mutexes, discipline[M] = "INHERIT"
               PROVE  SortedBy(current', queue[M])
    BY <1>3 DEF QueuesSorted
  <2>1. \A x \in ToSet(queue[M]) : current'[x] = current[x]
    BY <1>1, <1>6 DEF NoIdleMutex
  <2> QED
    BY <1>1, <2>1, SortedAgree DEF OrderlyInv, QueuesSorted, TypeOK
<1>10. WaitersAtCeiling'
  BY <1>1, <1>3, <1>6 DEF OrderlyInv, WaitersAtCeiling
<1>11. HolderInherits'
  <2> SUFFICES ASSUME NEW M \in Mutexes, discipline[M] = "INHERIT",
                      NEW u \in Threads, waiting[u] = M
               PROVE  current'[holder'[M]] <= current'[u]
    BY <1>3 DEF HolderInherits
  <2>1. M # m /\ holder'[M] = holder[M]
    BY <1>1, <1>3, <1>5 DEF TypeOK
  <2>3. holder[M] \in Threads
    BY <1>1, WaitedLocked
  <2>4. current[holder[M]] <= current[u]
    BY <1>1 DEF OrderlyInv, HolderInherits
  <2>5. current'[holder[M]] <= current[holder[M]] /\ current'[u] = current[u]
    BY <1>1, <1>6, <2>3
  <2> QED
    BY <1>6, <2>1, <2>3, <2>4, <2>5, SMT
<1>12. HolderAtCeiling'
  <2> SUFFICES ASSUME NEW M \in Mutexes \ created, discipline[M] = "CEILING", holder'[M] # NULL
               PROVE  current'[holder'[M]] <= Ceiling[M]
    BY <1>3 DEF HolderAtCeiling
  <2>1. CASE M = m
    BY <1>1, <1>2, <1>3, <2>1 DEF TypeOK
  <2>2. CASE M # m
    <3>1. holder'[M] = holder[M] /\ holder[M] \in Threads
      BY <1>1, <1>3, <2>2 DEF TypeOK
    <3>2. current[holder[M]] <= Ceiling[M] /\ Ceiling[M] \in Nat
      BY <1>1, <3>1, CoreMutexAssumption DEF OrderlyInv, HolderAtCeiling
    <3> QED
      BY <1>6, <3>1, <3>2, SMT
  <2> QED
    BY <2>1, <2>2
<1>13. OwnPriority'
  BY <1>1, <1>3, <1>4 DEF OrderlyInv, OwnPriority, TypeOK
<1> QED
  BY <1>7, <1>8, <1>9, <1>10, <1>11, <1>12, <1>13 DEF OrderlyInv

LEMMA WaitKeeps ==
  ASSUME IInv, orderly, HoldAndWait = FALSE,
         NEW t \in Threads, NEW m \in Mutexes, Runs(t), Wait(t, m)
  PROVE  OrderlyInv'
<1> DEFINE c == AtCeiling(current[t], m)
           h == holder[m]
           inh == Inherited(m, t)
<1>1. TypeOK /\ NoIdleMutex /\ OrderlyInv /\ waiting[t] = NULL /\ \A M \in Mutexes : M # NULL
  BY CoreMutexAssumption DEF IInv, Runs
<1>2. /\ current[t] \in Priorities /\ c \in Priorities /\ c <= current[t]
      /\ discipline[m] = "CEILING" => c <= Ceiling[m]
  BY <1>1, CeilingTypes DEF TypeOK
<1>3. discipline[m] = "INHERIT" => c = current[t]
  BY DEF AtCeiling
<1>4. h \in Threads /\ h # NULL /\ h # t /\ Held(t) = {}
  BY <1>1 DEF TypeOK, Wait
<1>5. /\ inh \in Priorities /\ inh <= current[h]
      /\ discipline[m] = "INHERIT" => inh <= current[t]
  BY <1>1, <1>4, InheritedTypes
<1>6. m \in Held(h) /\ waiting[h] = NULL
  BY <1>1, <1>4 DEF Held, OrderlyInv, WaitersHoldNothing
<1>7. current' = [current EXCEPT ![h] = inh, ![t] = AtCeiling(@, m)]
  BY DEF Wait
<1>8. /\ queue' = [queue EXCEPT ![m] = Enqueued(m, t)] /\ waiting' = [waiting EXCEPT ![t] = m]
      /\ orderly' = orderly /\ discipline' = discipline /\ holder' = holder
      /\ resource_count' = resource_count /\ real' = real /\ created' = created
  BY DEF Wait
<1>9. \A u \in Threads : Held(u)' = Held(u)
  BY <1>8 DEF Held
<1> DEFINE cur == [current EXCEPT ![h] = inh]
<1>10. cur[t] = current[t]
  <2> HIDE DEF h, inh
  <2> QED
    BY <1>1, <1>4 DEF TypeOK
<1>11. ASSUME NEW u \in Threads
       PROVE  current'[u] = IF u = t THEN c ELSE IF u = h THEN inh ELSE current[u]
  <2>1. current' = [cur EXCEPT ![t] = c]
    BY <1>7, <1>10
  <2> HIDE DEF c, h, inh
  <2> QED
    BY <1>1, <1>4, <2>1 DEF TypeOK
<1> HIDE DEF c, h, inh, cur
<1>12. ASSUME NEW u \in Threads
       PROVE  /\ current'[u] \in Nat /\ current[u] \in Nat /\ current'[u] <= current[u]
              /\ waiting[u] # NULL => current'[u] = current[u]
  <2>1. current[u] \in Nat /\ c \in Nat /\ inh \in Nat
    BY <1>1, <1>2, <1>5, CoreMutexAssumption DEF TypeOK
  <2>2. CASE u = t
    BY <1>1, <1>2, <1>11, <2>1, <2>2
  <2>3. CASE u = h /\ u # t
    BY <1>5, <1>6, <1>11, <2>1, <2>3
  <2>4. CASE u # h /\ u # t
    BY <1>11, <2>1, <2>4, SMT
  <2> QED
    BY <2>2, <2>3, <2>4
<1>13. ASSUME NEW u \in Threads
       PROVE  waiting'[u] = IF u = t THEN m ELSE waiting[u]
  BY <1>1, <1>8 DEF TypeOK
<1>14. CountsHeld' /\ WaitersHoldNothing'
  BY <1>1, <1>4, <1>8, <1>9, <1>13 DEF OrderlyInv, CountsHeld, WaitersHoldNothing
<1>15. QueuesSorted'
  <2> SUFFICES ASSUME NEW M \in Mutexes, discipline[M] = "INHERIT"
               PROVE  SortedBy(current', queue'[M])
    BY <1>8 DEF QueuesSorted
  <2>1. /\ SortedBy(current, queue[M]) /\ queue[M] \in Seq(Threads)
        /\ \A x \in ToSet(queue[M]) : current'[x] = current[x]
    BY <1>1, <1>12, SMT DEF NoIdleMutex, OrderlyInv, QueuesSorted, TypeOK
  <2>2. CASE M = m
    <3>1. SortedBy(current, Enqueued(m, t))
      BY <1>1, <2>1, <2>2, EnqueuedSorted DEF Runs
    <3>2. PICK k \in 1 .. Len(queue[m]) + 1 : Enqueued(m, t) = InsertAt(queue[m], k, t)
      BY <1>1, EnqueuedAt
    <3>3. IsInjective(queue[m]) /\ t \notin ToSet(queue[m])
      BY <1>1 DEF NoIdleMutex
    <3>4. /\ Enqueued(m, t) \in Seq(Threads)
          /\ ToSet(Enqueued(m, t)) = ToSet(queue[m]) \cup {t}
      BY <2>1, <2>2, <3>2, <3>3, QueueInsert, SMT
    <3>5. current'[t] = current[t]
      BY <1>3, <1>11, <2>2
    <3>6. SortedBy(current', Enqueued(m, t))
      BY <2>1, <2>2, <3>1, <3>4, <3>5, SortedAgree
    <3> QED
      BY <1>1, <1>8, <2>2, <3>6 DEF TypeOK
  <2>3. CASE M # m
    <3>1. queue'[M] = queue[M]
      BY <1>1, <1>8, <2>3 DEF TypeOK
    <3>2. SortedBy(current', queue[M])
      BY <2>1, SortedAgree
    <3> QED
      BY <3>1, <3>2
  <2> QED
    BY <2>2, <2>3
<1>16. WaitersAtCeiling'
  <2> SUFFICES ASSUME NEW M \in Mutexes, NEW u \in Threads, discipline[M] = "CEILING",
                      waiting'[u] = M
               PROVE  current'[u] <= Ceiling[M]
    BY <1>8 DEF WaitersAtCeiling
  <2>1. CASE u = t
    BY <1>2, <1>11, <1>13, <2>1
  <2>2. CASE u # t
    BY <1>1, <1>12, <1>13, <2>2 DEF OrderlyInv, WaitersAtCeiling
  <2> QED
    BY <2>1, <2>2
<1>17. HolderInherits'
  <2> SUFFICES ASSUME NEW M \in Mutexes, discipline[M] = "INHERIT",
                      NEW u \in Threads, waiting'[u] = M
               PROVE  current'[holder[M]] <= current'[u]
    BY <1>8 DEF HolderInherits
  <2>1. CASE u = t
    <3>1. M = m /\ holder[M] = h
      BY <1>13, <2>1 DEF h
    <3>2. current'[h] = inh /\ current'[t] = current[t] /\ inh <= current[t]
      BY <1>3, <1>4, <1>5, <1>11, <3>1
    <3> QED
      BY <2>1, <3>1, <3>2
  <2>2. CASE u # t
    <3>1. waiting[u] = M
      BY <1>13, <2>2
    <3>2. holder[M] \in Threads /\ current[holder[M]] <= current[u] /\ current'[u] = current[u]
      BY <1>1, <1>12, <3>1, WaitedLocked DEF OrderlyInv, HolderInherits
    <3> QED
      BY <1>12, <3>2, SMT
  <2> QED
    BY <2>1, <2>2
<1>18. HolderAtCeiling'
  <2> SUFFICES ASSUME NEW M \in Mutexes \ created, discipline[M] = "CEILING", holder[M] # NULL
               PROVE  current'[holder[M]] <= Ceiling[M]
    BY <1>8 DEF HolderAtCeiling
  <2>1. holder[M] \in Threads /\ current[holder[M]] <= Ceiling[M] /\ Ceiling[M] \in Nat
    BY <1>1, CoreMutexAssumption DEF OrderlyInv, HolderAtCeiling, TypeOK
  <2> QED
    BY <1>12, <2>1, SMT
<1>19. OwnPriority'
  <2> SUFFICES ASSUME \A M \in Mutexes : discipline[M] = "INHERIT",
                      NEW u \in Threads, Held(u) = {}
               PROVE  current'[u] = real[u]
    BY <1>8, <1>9 DEF OwnPriority
  <2>1. u # h
    BY <1>6
  <2>2. current[u] = real[u]
    BY <1>1 DEF OrderlyInv, OwnPriority
  <2> QED
    BY <1>3, <1>11, <2>1, <2>2
<1> QED
  BY <1>14, <1>15, <1>16, <1>17, <1>18, <1>19 DEF OrderlyInv

LEMMA TimeoutKeeps ==
  ASSUME IInv, orderly, NEW t \in Threads, Timeout(t)
  PROVE  OrderlyInv'
<1>1. TypeOK /\ NoIdleMutex /\ OrderlyInv /\ (\A M \in Mutexes : M # NULL)
  BY CoreMutexAssumption DEF IInv
<1>2. /\ waiting[t] \in Mutexes /\ waiting' = [waiting EXCEPT ![t] = NULL]
      /\ queue' = [queue EXCEPT ![waiting[t]] = Extracted(@, t)]
      /\ orderly' = orderly /\ discipline' = discipline /\ holder' = holder
      /\ resource_count' = resource_count /\ real' = real /\ current' = current
      /\ created' = created
  BY <1>1 DEF Timeout, TypeOK
<1>3. \A u \in Threads : Held(u)' = Held(u) /\ (waiting'[u] # NULL => waiting'[u] = waiting[u])
  BY <1>1, <1>2 DEF Held, TypeOK
<1>4. CountsHeld' /\ WaitersHoldNothing'
  BY <1>1, <1>2, <1>3 DEF OrderlyInv, CountsHeld, WaitersHoldNothing
<1>5. QueuesSorted'
  <2> SUFFICES ASSUME NEW M \in Mutexes, discipline[M] = "INHERIT"
               PROVE  SortedBy(current, queue'[M])
    BY <1>2 DEF QueuesSorted
  <2>1. SortedBy(current, queue[M]) /\ queue[M] \in Seq(Threads) /\ IsInjective(queue[M])
    BY <1>1 DEF NoIdleMutex, OrderlyInv, QueuesSorted, TypeOK
  <2>2. SortedBy(current, Extracted(queue[M], t))
    BY <2>1, QueueRemove, SortedInOrder DEF Extracted
  <2>3. queue'[M] = queue[M] \/ queue'[M] = Extracted(queue[M], t)
    BY <1>1, <1>2 DEF TypeOK
  <2> QED
    BY <2>1, <2>2, <2>3
<1>6. WaitersAtCeiling'
  BY <1>1, <1>2, <1>3, SMT DEF OrderlyInv, WaitersAtCeiling
<1>7. HolderInherits'
  BY <1>1, <1>2, <1>3 DEF OrderlyInv, HolderInherits
<1>8. HolderAtCeiling'
  BY <1>1, <1>2 DEF OrderlyInv, HolderAtCeiling
<1>9. OwnPriority'
  BY <1>1, <1>2, <1>3 DEF OrderlyInv, OwnPriority
<1> QED
  BY <1>4, <1>5, <1>6, <1>7, <1>8, <1>9 DEF OrderlyInv

\* What the priority of the thread t that releases m becomes.
LowPriority(t, m) == IF Lowered(t, m) THEN real[t] ELSE current[t]

\* The priority of t changes only if it holds nothing else, and then it becomes
\* its own if m is of the inheritance discipline.
LEMMA ReleaseFacts ==
  ASSUME IInv, orderly, NEW t \in Threads, NEW m \in Mutexes, Runs(t), MayRelease(t, m),
         SurrenderLast(t, m)
  PROVE  /\ holder[m] = t /\ waiting[t] = NULL
         /\ Released(t)[t] = Cardinality(Held(t) \ {m})
         /\ LowPriority(t, m) = current[t] \/ Held(t) = {m}
         /\ discipline[m] = "INHERIT" /\ Held(t) = {m} => LowPriority(t, m) = real[t]
         /\ \A u \in Threads :
              /\ current'[u] = IF u = t THEN LowPriority(t, m) ELSE current[u]
              /\ u # t => Released(t)[u] = resource_count[u]
<1>1. TypeOK /\ OrderlyInv /\ waiting[t] = NULL /\ holder[m] = t /\ m \in Held(t)
  BY DEF IInv, Runs, MayRelease, Held
<1>2. resource_count[t] = Cardinality(Held(t))
  BY <1>1 DEF OrderlyInv, CountsHeld
<1>3. Released(t)[t] = Pred(resource_count[t])
  BY <1>1 DEF Released, TypeOK
<1>4. /\ Cardinality(Held(t) \ {m}) = Pred(Cardinality(Held(t)))
      /\ Pred(Cardinality(Held(t))) = 0 => Held(t) = {m}
  BY <1>1, HeldLess
<1>5. Released(t)[t] = Cardinality(Held(t) \ {m})
  BY <1>2, <1>3, <1>4
<1>6. LowPriority(t, m) = current[t] \/ Held(t) = {m}
  BY <1>2, <1>3, <1>4 DEF LowPriority, Lowered
<1>7. ASSUME discipline[m] = "INHERIT", Held(t) = {m} PROVE LowPriority(t, m) = real[t]
  <2>1. Held(t) \ {m} = {}
    BY <1>7
  <2>2. Released(t)[t] = 0
    BY <1>5, <2>1, FS_EmptySet
  <2> QED
    BY <1>7, <2>2 DEF LowPriority, Lowered
<1>8. ASSUME NEW u \in Threads
      PROVE  /\ current'[u] = IF u = t THEN LowPriority(t, m) ELSE current[u]
             /\ u # t => Released(t)[u] = resource_count[u]
  <2>1. current' = [current EXCEPT ![t] = LowPriority(t, m)]
    BY DEF SurrenderLast, LowPriority
  <2> QED
    BY <1>1, <2>1 DEF Released, TypeOK
<1> QED
  BY <1>1, <1>5, <1>6, <1>7, <1>8

LEMMA UnlockKeeps ==
  ASSUME IInv, orderly, NEW t \in Threads, NEW m \in Mutexes, Runs(t), MayRelease(t, m),
         SurrenderLast(t, m), Unlock(t, m)
  PROVE  OrderlyInv'
<1>1. TypeOK /\ NoIdleMutex /\ OrderlyInv /\ t # NULL /\ (\A M \in Mutexes : M # NULL)
  BY CoreMutexAssumption DEF IInv
<1> DEFINE low == LowPriority(t, m)
<1>2. /\ holder[m] = t /\ waiting[t] = NULL /\ Released(t)[t] = Cardinality(Held(t) \ {m})
      /\ low = current[t] \/ Held(t) = {m}
      /\ discipline[m] = "INHERIT" /\ Held(t) = {m} => low = real[t]
      /\ \A u \in Threads :
           /\ current'[u] = IF u = t THEN low ELSE current[u]
           /\ u # t => Released(t)[u] = resource_count[u]
  BY ReleaseFacts, SMT
<1> HIDE DEF low
<1>3. /\ holder' = [holder EXCEPT ![m] = NULL] /\ resource_count' = Released(t)
      /\ queue' = queue /\ waiting' = waiting
      /\ orderly' = orderly /\ discipline' = discipline /\ real' = real
      /\ created' = created \ {m}
  BY DEF Unlock, SurrenderLast
<1>4. ASSUME NEW M \in Mutexes PROVE holder'[M] = IF M = m THEN NULL ELSE holder[M]
  BY <1>1, <1>3 DEF TypeOK
<1>5. /\ Held(t)' = Held(t) \ {m} /\ \A u \in Threads \ {t} : Held(u)' = Held(u)
  <2>1. Held(t)' = Held(t) \ {m}
    BY <1>1, <1>4 DEF Held
  <2>2. ASSUME NEW u \in Threads \ {t} PROVE Held(u)' = Held(u)
    <3>1. u # NULL
      BY CoreMutexAssumption
    <3> QED
      BY <1>2, <1>4, <3>1, SMT DEF Held
  <2> QED
    BY <2>1, <2>2
<1>6. ASSUME NEW M \in Mutexes, M # m, holder[M] \in Threads
      PROVE  holder'[M] = holder[M] /\ current'[holder[M]] = current[holder[M]]
  <2>1. CASE holder[M] = t
    <3>1. M \in Held(t)
      BY <2>1 DEF Held
    <3> QED
      BY <1>2, <1>4, <1>6, <2>1, <3>1, SMT
  <2>2. CASE holder[M] # t
    BY <1>2, <1>4, <1>6, <2>2
  <2> QED
    BY <2>1, <2>2
<1>7. ASSUME NEW u \in Threads, waiting[u] # NULL PROVE current'[u] = current[u]
  BY <1>2, <1>7
<1>8. ASSUME NEW u \in Threads PROVE waiting[u] # m
  <2>1. u \notin ToSet(queue[m])
    BY SMT DEF ToSet, Unlock
  <2> QED
    BY <1>1, <2>1 DEF NoIdleMutex
<1>9. CountsHeld'
  BY <1>1, <1>2, <1>3, <1>5, SMT DEF OrderlyInv, CountsHeld
<1>10. WaitersHoldNothing'
  BY <1>1, <1>2, <1>3, <1>5 DEF OrderlyInv, WaitersHoldNothing
<1>11. QueuesSorted'
  <2> SUFFICES ASSUME NEW M \in Mutexes, discipline[M] = "INHERIT"
               PROVE  SortedBy(current', queue[M])
    BY <1>3 DEF QueuesSorted
  <2>1. \A x \in ToSet(queue[M]) : current'[x] = current[x]
    BY <1>1, <1>7 DEF NoIdleMutex
  <2> QED
    BY <1>1, <2>1, SortedAgree DEF OrderlyInv, QueuesSorted, TypeOK
<1>12. WaitersAtCeiling'
  BY <1>1, <1>3, <1>7 DEF OrderlyInv, WaitersAtCeiling
<1>13. HolderInherits'
  <2> SUFFICES ASSUME NEW M \in Mutexes, discipline[M] = "INHERIT",
                      NEW u \in Threads, waiting[u] = M
               PROVE  current'[holder'[M]] <= current'[u]
    BY <1>3 DEF HolderInherits
  <2>1. M # m /\ holder[M] \in Threads
    BY <1>1, <1>8, WaitedLocked
  <2>2. current[holder[M]] <= current[u]
    BY <1>1 DEF OrderlyInv, HolderInherits
  <2> QED
    BY <1>1, <1>6, <1>7, <2>1, <2>2
<1>14. HolderAtCeiling'
  <2> SUFFICES ASSUME NEW M \in Mutexes, M = m \/ M \notin created,
                      discipline[M] = "CEILING", holder'[M] # NULL
               PROVE  current'[holder'[M]] <= Ceiling[M]
    BY <1>3 DEF HolderAtCeiling
  <2>1. M # m /\ holder[M] \in Threads /\ holder[M] # NULL
    BY <1>1, <1>4 DEF TypeOK
  <2>2. current[holder[M]] <= Ceiling[M]
    BY <1>1, <2>1 DEF OrderlyInv, HolderAtCeiling
  <2> QED
    BY <1>6, <2>1, <2>2
<1>15. OwnPriority'
  <2> SUFFICES ASSUME \A M \in Mutexes : discipline[M] = "INHERIT",
                      NEW u \in Threads, Held(u)' = {}
               PROVE  current'[u] = real[u]
    BY <1>3 DEF OwnPriority
  <2>1. CASE u = t
    <3>1. Held(t) = {m}
      BY <1>2, <1>5, <2>1, SMT DEF Held
    <3> QED
      BY <1>2, <2>1, <3>1
  <2>2. CASE u # t
    BY <1>1, <1>2, <1>5, <2>2 DEF OrderlyInv, OwnPriority
  <2> QED
    BY <2>1, <2>2
<1> QED
  BY <1>9, <1>10, <1>11, <1>12, <1>13, <1>14, <1>15 DEF OrderlyInv

LEMMA HandOnKeeps ==
  ASSUME IInv, orderly, NEW t \in Threads, NEW m \in Mutexes, Runs(t), MayRelease(t, m),
         SurrenderLast(t, m), HandOn(t, m), NEW x \in Threads, x = Head(queue[m])
  PROVE  OrderlyInv'
<1>1. TypeOK /\ NoIdleMutex /\ OrderlyInv /\ t # NULL /\ (\A M \in Mutexes : M # NULL)
  BY CoreMutexAssumption DEF IInv
<1> DEFINE low == LowPriority(t, m)
<1>2. /\ holder[m] = t /\ waiting[t] = NULL /\ Released(t)[t] = Cardinality(Held(t) \ {m})
      /\ low = current[t] \/ Held(t) = {m}
      /\ discipline[m] = "INHERIT" /\ Held(t) = {m} => low = real[t]
      /\ \A u \in Threads :
           /\ current'[u] = IF u = t THEN low ELSE current[u]
           /\ u # t => Released(t)[u] = resource_count[u]
  BY ReleaseFacts, SMT
<1>3. /\ holder' = [holder EXCEPT ![m] = x] /\ resource_count' = Counted(Released(t), x)
      /\ queue' = [queue EXCEPT ![m] = Tail(@)] /\ waiting' = [waiting EXCEPT ![x] = NULL]
      /\ orderly' = orderly /\ discipline' = discipline /\ real' = real
      /\ created' = created \ {m}
  BY DEF HandOn, SurrenderLast
<1>4. queue[m] \in Seq(Threads) /\ IsInjective(queue[m]) /\ queue[m] # << >>
  BY <1>1 DEF TypeOK, NoIdleMutex, HandOn
<1>5. /\ x \in ToSet(queue[m]) /\ x = queue[m][1] /\ Len(queue[m]) >= 1
      /\ Tail(queue[m]) \in Seq(Threads) /\ InOrder(Tail(queue[m]), queue[m])
      /\ ToSet(Tail(queue[m])) = ToSet(queue[m]) \ {x}
      /\ \A y \in ToSet(Tail(queue[m])) : \E b \in 2 .. Len(queue[m]) : y = queue[m][b]
  BY <1>4, QueueTail
<1> HIDE DEF low
<1>6. x \in Threads /\ waiting[x] = m /\ x # t /\ x # NULL /\ Held(x) = {}
  <2>1. x \in Threads /\ waiting[x] = m
    BY <1>1, <1>5, SMT DEF NoIdleMutex
  <2> QED
    BY <1>1, <1>2, <2>1, CoreMutexAssumption DEF OrderlyInv, WaitersHoldNothing
<1>7. ASSUME NEW M \in Mutexes PROVE holder'[M] = IF M = m THEN x ELSE holder[M]
  BY <1>1, <1>3 DEF TypeOK
<1>8. /\ Held(t)' = Held(t) \ {m} /\ Held(x)' = Held(x) \cup {m}
      /\ \A u \in Threads \ {t, x} : Held(u)' = Held(u)
  <2>1. Held(t)' = Held(t) \ {m}
    BY <1>6, <1>7 DEF Held
  <2>2. Held(x)' = Held(x) \cup {m}
    BY <1>7 DEF Held
  <2>3. ASSUME NEW u \in Threads \ {t, x} PROVE Held(u)' = Held(u)
    BY <1>2, <1>7, SMT DEF Held
  <2> QED
    BY <2>1, <2>2, <2>3
<1>9. ASSUME NEW M \in Mutexes, M # m, holder[M] \in Threads
      PROVE  holder'[M] = holder[M] /\ current'[holder[M]] = current[holder[M]]
  <2>1. CASE holder[M] = t
    <3>1. M \in Held(t)
      BY <2>1 DEF Held
    <3> QED
      BY <1>2, <1>7, <1>9, <2>1, <3>1, SMT
  <2>2. CASE holder[M] # t
    BY <1>2, <1>7, <1>9, <2>2
  <2> QED
    BY <2>1, <2>2
<1>10. ASSUME NEW u \in Threads
       PROVE  /\ waiting[u] # NULL => current'[u] = current[u]
              /\ waiting'[u] = IF u = x THEN NULL ELSE waiting[u]
  BY <1>1, <1>2, <1>3 DEF TypeOK
<1>11. CountsHeld'
  <2>1. Released(t) \in [Threads -> 0 .. Modulus - 1]
    <3>1. resource_count[t] \in 0 .. Modulus - 1
      BY <1>1 DEF TypeOK
    <3>2. Pred(resource_count[t]) \in 0 .. Modulus - 1
      BY <3>1, CountTypes
    <3> QED
      BY <1>1, <3>2 DEF TypeOK, Released
  <2>2. resource_count' = [Released(t) EXCEPT ![x] = Succ(@)]
    BY <1>3 DEF Counted
  <2>3. ASSUME NEW u \in Threads
        PROVE  resource_count'[u] = IF u = x THEN Succ(Released(t)[u]) ELSE Released(t)[u]
    BY <2>1, <2>2
  <2>4. ASSUME NEW u \in Threads PROVE resource_count'[u] = Cardinality(Held(u)')
    <3>1. CASE u = t
      BY <1>2, <1>6, <1>8, <2>3, <3>1, SMTT(30)
    <3>2. CASE u = x
      <4>1. resource_count'[x] = Succ(resource_count[x])
        BY <1>2, <1>6, <2>3
      <4>2. resource_count[x] = Cardinality(Held(x)) /\ m \notin Held(x)
        BY <1>1, <1>6 DEF OrderlyInv, CountsHeld
      <4> QED
        BY <1>8, <3>2, <4>1, <4>2, HeldMore
    <3>3. CASE u # t /\ u # x
      BY <1>1, <1>2, <1>8, <2>3, <3>3, SMT DEF OrderlyInv, CountsHeld
    <3> QED
      BY <3>1, <3>2, <3>3
  <2> QED
    BY <2>4 DEF CountsHeld
<1>12. WaitersHoldNothing'
  <2> SUFFICES ASSUME NEW u \in Threads, waiting'[u] # NULL PROVE Held(u)' = {}
    BY DEF WaitersHoldNothing
  <2>1. u # x /\ waiting[u] # NULL
    BY <1>10
  <2>2. Held(u) = {}
    BY <1>1, <2>1 DEF OrderlyInv, WaitersHoldNothing
  <2>3. u # t
    BY <1>2, <2>1
  <2> QED
    BY <1>8, <2>1, <2>2, <2>3
<1>13. QueuesSorted'
  <2> SUFFICES ASSUME NEW M \in Mutexes, discipline[M] = "INHERIT"
               PROVE  SortedBy(current', queue'[M])
    BY <1>3 DEF QueuesSorted
  <2>0. queue[M] \in Seq(Threads) /\ SortedBy(current, queue[M])
    BY <1>1 DEF OrderlyInv, QueuesSorted, TypeOK
  <2>7. \A y \in ToSet(queue[M]) : y \in Threads /\ waiting[y] # NULL
    BY <1>1 DEF NoIdleMutex
  <2>1. /\ SortedBy(current, queue[M]) /\ queue[M] \in Seq(Threads)
        /\ \A y \in ToSet(queue[M]) : current'[y] = current[y]
    BY <1>10, <2>0, <2>7
  <2>2. SortedBy(current', queue[M])
    BY <2>1, SortedAgree
  <2>3. CASE M = m
    <3>1. SortedBy(current', Tail(queue[m]))
      BY <1>4, <1>5, <2>2, <2>3, SortedInOrder
    <3> QED
      BY <1>1, <1>3, <2>3, <3>1 DEF TypeOK
  <2>4. CASE M # m
    BY <1>1, <1>3, <2>2, <2>4 DEF TypeOK
  <2> QED
    BY <2>3, <2>4
<1>14. WaitersAtCeiling'
  BY <1>1, <1>3, <1>10, SMT DEF OrderlyInv, WaitersAtCeiling
<1>15. HolderInherits'
  <2> SUFFICES ASSUME NEW M \in Mutexes, discipline[M] = "INHERIT",
                      NEW u \in Threads, waiting'[u] = M
               PROVE  current'[holder'[M]] <= current'[u]
    BY <1>3 DEF HolderInherits
  <2>1. u # x /\ waiting[u] = M /\ current'[u] = current[u]
    BY <1>1, <1>10
  <2>2. CASE M = m
    <3>1. u \in ToSet(Tail(queue[m]))
      BY <1>1, <1>5, <2>1, <2>2 DEF NoIdleMutex
    <3>2. PICK b \in 2 .. Len(queue[m]) : u = queue[m][b]
      BY <1>5, <3>1
    <3>3. SortedBy(current, queue[m])
      BY <1>1, <2>2 DEF OrderlyInv, QueuesSorted
    <3>4. 1 \in 1 .. Len(queue[m]) /\ b \in 1 .. Len(queue[m]) /\ 1 < b
      BY <1>4, <1>5, <3>2, SMT
    <3>5. current[x] <= current[u]
      BY <1>5, <3>2, <3>3, <3>4 DEF SortedBy
    <3> QED
      BY <1>2, <1>6, <1>7, <2>1, <2>2, <3>5, SMTT(30)
  <2>3. CASE M # m
    <3>1. holder[M] \in Threads
      BY <1>1, <2>1, WaitedLocked
    <3>2. current[holder[M]] <= current[u]
      BY <1>1, <2>1 DEF OrderlyInv, HolderInherits
    <3> QED
      BY <1>9, <2>1, <2>3, <3>1, <3>2
  <2> QED
    BY <2>2, <2>3
<1>16. HolderAtCeiling'
  <2> SUFFICES ASSUME NEW M \in Mutexes, M = m \/ M \notin created,
                      discipline[M] = "CEILING", holder'[M] # NULL
               PROVE  current'[holder'[M]] <= Ceiling[M]
    BY <1>3 DEF HolderAtCeiling
  <2>1. CASE M = m
    <3>1. current[x] <= Ceiling[m]
      BY <1>1, <1>6, <2>1 DEF OrderlyInv, WaitersAtCeiling
    <3> QED
      BY <1>2, <1>6, <1>7, <2>1, <3>1, SMTT(30)
  <2>2. CASE M # m
    <3>1. holder[M] \in Threads /\ holder[M] # NULL
      BY <1>1, <1>7, <2>2 DEF TypeOK
    <3>2. current[holder[M]] <= Ceiling[M]
      BY <1>1, <2>2, <3>1 DEF OrderlyInv, HolderAtCeiling
    <3> QED
      BY <1>9, <2>2, <3>1, <3>2
  <2> QED
    BY <2>1, <2>2
<1>17. OwnPriority'
  <2> SUFFICES ASSUME \A M \in Mutexes : discipline[M] = "INHERIT",
                      NEW u \in Threads, Held(u)' = {}
               PROVE  current'[u] = real[u]
    BY <1>3 DEF OwnPriority
  <2>1. CASE u = t
    <3>1. Held(t) = {m}
      BY <1>2, <1>8, <2>1, SMT DEF Held
    <3> QED
      BY <1>2, <2>1, <3>1
  <2>2. CASE u # t
    <3>1. u # x /\ Held(u) = {}
      BY <1>8, <2>2
    <3> QED
      BY <1>1, <1>2, <2>2, <3>1 DEF OrderlyInv, OwnPriority
  <2> QED
    BY <2>1, <2>2
<1> QED
  BY <1>11, <1>12, <1>13, <1>14, <1>15, <1>16, <1>17 DEF OrderlyInv

LEMMA SetPriorityKeeps ==
  ASSUME IInv, orderly, SetWaiting = FALSE,
         NEW t \in Threads, NEW p \in Priorities, SetPriority(t, p)
  PROVE  OrderlyInv'
<1>1. /\ TypeOK /\ NoIdleMutex /\ OrderlyInv /\ waiting[t] = NULL
      /\ \A M \in Mutexes : M # NULL
  BY CoreMutexAssumption DEF IInv, SetPriority, Runs
<1> DEFINE c == IF resource_count[t] = 0 \/ current[t] > p THEN p ELSE current[t]
<1>2. /\ current' = [current EXCEPT ![t] = c] /\ real' = [real EXCEPT ![t] = p]
      /\ orderly' = orderly /\ discipline' = discipline /\ holder' = holder
      /\ queue' = queue /\ waiting' = waiting /\ resource_count' = resource_count
      /\ created' = created
  BY DEF SetPriority
<1>3. Held(t) # {} => c \in Nat /\ c <= current[t]
  <2> SUFFICES ASSUME Held(t) # {} PROVE c \in Nat /\ c <= current[t]
    OBVIOUS
  <2>1. resource_count[t] # 0
    BY <1>1, HeldFinite, FS_EmptySet DEF OrderlyInv, CountsHeld
  <2>2. current[t] \in Nat /\ p \in Nat
    BY <1>1, CoreMutexAssumption DEF TypeOK
  <2> QED
    BY <2>1, <2>2, SMT
<1>4. Held(t) = {} => c = p
  BY <1>1, FS_EmptySet DEF OrderlyInv, CountsHeld
<1> HIDE DEF c
<1>5. \A u \in Threads : Held(u)' = Held(u)
  BY <1>2 DEF Held
<1>6. ASSUME NEW u \in Threads
      PROVE  /\ current'[u] = IF u = t THEN c ELSE current[u]
             /\ real'[u] = IF u = t THEN p ELSE real[u]
             /\ waiting[u] # NULL => current'[u] = current[u]
  BY <1>1, <1>2 DEF TypeOK
<1>7. ASSUME NEW M \in Mutexes, holder[M] \in Threads, NEW b \in Nat, current[holder[M]] <= b
      PROVE  current'[holder[M]] <= b
  <2>1. Held(holder[M]) # {}
    BY DEF Held
  <2>2. current[holder[M]] \in Nat
    BY <1>1, <1>7, CoreMutexAssumption DEF TypeOK
  <2>3. CASE holder[M] = t
    <3>1. c \in Nat /\ c <= current[holder[M]]
      BY <1>3, <2>1, <2>3
    <3>2. current'[holder[M]] = c
      BY <1>6, <2>3
    <3> QED
      BY <1>7, <2>2, <3>1, <3>2, SMT
  <2>4. CASE holder[M] # t
    BY <1>6, <1>7, <2>4
  <2> QED
    BY <2>3, <2>4
<1>8. CountsHeld' /\ WaitersHoldNothing'
  BY <1>1, <1>2, <1>5 DEF OrderlyInv, CountsHeld, WaitersHoldNothing
<1>9. QueuesSorted'
  <2> SUFFICES ASSUME NEW M \in Mutexes, discipline[M] = "INHERIT"
               PROVE  SortedBy(current', queue[M])
    BY <1>2 DEF QueuesSorted
  <2>1. \A y \in ToSet(queue[M]) : current'[y] = current[y]
    BY <1>1, <1>6 DEF NoIdleMutex
  <2> QED
    BY <1>1, <2>1, SortedAgree DEF OrderlyInv, QueuesSorted, TypeOK
<1>10. WaitersAtCeiling'
  BY <1>1, <1>2, <1>6 DEF OrderlyInv, WaitersAtCeiling
<1>11. HolderInherits'
  <2> SUFFICES ASSUME NEW M \in Mutexes, discipline[M] = "INHERIT",
                      NEW u \in Threads, waiting[u] = M
               PROVE  current'[holder[M]] <= current'[u]
    BY <1>2 DEF HolderInherits
  <2>1. holder[M] \in Threads /\ current[u] \in Nat
    BY <1>1, WaitedLocked, CoreMutexAssumption DEF TypeOK
  <2>2. current[holder[M]] <= current[u] /\ current'[u] = current[u]
    BY <1>1, <1>6 DEF OrderlyInv, HolderInherits
  <2> QED
    BY <1>7, <2>1, <2>2
<1>12. HolderAtCeiling'
  <2> SUFFICES ASSUME NEW M \in Mutexes \ created, discipline[M] = "CEILING", holder[M] # NULL
               PROVE  current'[holder[M]] <= Ceiling[M]
    BY <1>2 DEF HolderAtCeiling
  <2>1. holder[M] \in Threads /\ Ceiling[M] \in Nat /\ current[holder[M]] <= Ceiling[M]
    BY <1>1, CoreMutexAssumption DEF OrderlyInv, HolderAtCeiling, TypeOK
  <2> QED
    BY <1>7, <2>1
<1>13. OwnPriority'
  BY <1>1, <1>2, <1>4, <1>5, <1>6, SMT DEF OrderlyInv, OwnPriority
<1> QED
  BY <1>8, <1>9, <1>10, <1>11, <1>12, <1>13 DEF OrderlyInv

LEMMA IInvInit ==
  ASSUME Init PROVE IInv
<1>1. TypeOK /\ NoIdleMutex
  BY InitTypes
<1>2. ASSUME orderly PROVE OrderlyInv
  <2>1. /\ created = {m \in Mutexes : holder[m] # NULL}
        /\ \A m \in Mutexes : queue[m] = << >> /\ m # NULL
        /\ \A t \in Threads : waiting[t] = NULL /\ t # NULL /\ current[t] = real[t]
        /\ \A t \in Threads : resource_count[t] = Cardinality(Held(t))
    BY <1>2, CoreMutexAssumption DEF Init
  <2>2. SortedBy(current, << >>)
    BY SMT DEF SortedBy
  <2> QED
    BY <2>1, <2>2 DEF OrderlyInv, CountsHeld, WaitersHoldNothing, QueuesSorted,
      WaitersAtCeiling, HolderInherits, HolderAtCeiling, OwnPriority
<1> QED
  BY <1>1, <1>2 DEF IInv

LEMMA IInvNext ==
  ASSUME HoldAndWait = FALSE, SetWaiting = FALSE, IInv, [Next]_vars
  PROVE  IInv'
<1>1. TypeOK' /\ NoIdleMutex'
  BY TypeStep, QueueStep DEF IInv
<1>2. orderly' = orderly
  BY SMT DEF Next, Seize, Lock, Nest, Wait, Surrender, SurrenderNested, SurrenderLast, Timeout,
    Restart, SetPriority, vars
<1>3. ASSUME orderly PROVE OrderlyInv'
  <2>1. ASSUME UNCHANGED <<discipline, holder, queue, waiting, resource_count, current, real,
                           orderly, created>>
        PROVE  OrderlyInv'
    <3>1. OrderlyInv
      BY <1>3 DEF IInv
    <3>2. /\ discipline' = discipline /\ holder' = holder /\ queue' = queue
          /\ waiting' = waiting /\ resource_count' = resource_count
          /\ current' = current /\ real' = real /\ orderly' = orderly
          /\ created' = created
      BY <2>1
    <3>3. \A t : Held(t)' = Held(t)
      BY <3>2 DEF Held
    <3>4. CountsHeld' /\ OwnPriority'
      BY <3>1, <3>2, <3>3 DEF OrderlyInv, CountsHeld, OwnPriority
    <3>5. WaitersHoldNothing'
      BY <3>1, <3>2, <3>3 DEF OrderlyInv, WaitersHoldNothing
    <3>6. QueuesSorted'
      BY <3>1, <3>2 DEF OrderlyInv, QueuesSorted, SortedBy
    <3>7. WaitersAtCeiling'
      BY <3>1, <3>2 DEF OrderlyInv, WaitersAtCeiling
    <3>8. HolderInherits' /\ HolderAtCeiling'
      BY <3>1, <3>2 DEF OrderlyInv, HolderInherits, HolderAtCeiling
    <3> QED
      BY <3>4, <3>5, <3>6, <3>7, <3>8 DEF OrderlyInv
  <2>2. ASSUME NEW t \in Threads, NEW m \in Mutexes, Seize(t, m) PROVE OrderlyInv'
    <3>1. CASE Lock(t, m)
      BY <1>3, <2>2, <3>1, LockKeeps DEF Seize
    <3>2. CASE Nest(t, m)
      BY <2>1, <3>2 DEF Nest
    <3>3. CASE Wait(t, m)
      BY <1>3, <2>2, <3>3, WaitKeeps DEF Seize
    <3> QED
      BY <2>2, <3>1, <3>2, <3>3 DEF Seize
  <2>3. ASSUME NEW t \in Threads, NEW m \in Mutexes, Surrender(t, m) PROVE OrderlyInv'
    <3>1. CASE SurrenderNested(t, m)
      BY <2>1, <3>1 DEF SurrenderNested
    <3>2. CASE SurrenderLast(t, m) /\ Unlock(t, m)
      BY <1>3, <2>3, <3>2, UnlockKeeps DEF Surrender
    <3>3. CASE SurrenderLast(t, m) /\ HandOn(t, m)
      <4>1. Head(queue[m]) \in Threads
        BY <3>3, SMT DEF HandOn, IInv, TypeOK
      <4>2. PICK x \in Threads : x = Head(queue[m])
        BY <4>1
      <4> QED
        BY <1>3, <2>3, <3>3, <4>2, HandOnKeeps DEF Surrender
    <3> QED
      BY <2>3, <3>1, <3>2, <3>3 DEF Surrender, SurrenderLast
  <2>4. ASSUME NEW t \in Threads, Timeout(t) \/ Restart(t) PROVE OrderlyInv'
    BY <1>3, <2>4, TimeoutKeeps DEF Restart
  <2>5. ASSUME NEW t \in Threads, NEW p \in Priorities, SetPriority(t, p) PROVE OrderlyInv'
    BY <1>3, <2>5, SetPriorityKeeps
  <2>6. CASE UNCHANGED vars
    BY <2>1, <2>6 DEF vars
  <2> QED
    BY <2>2, <2>3, <2>4, <2>5, <2>6 DEF Next
<1> QED
  BY <1>1, <1>2, <1>3 DEF IInv

\* Priority inheritance does what it is for, for any number of threads and
\* mutexes: a holder is never less important than a thread that waits for what
\* it holds (_CORE_mutex_Seize's _Thread_Change_priority of the holder, and the
\* order in which _CORE_mutex_Surrender hands on).  Assumed: nobody holds one
\* mutex and waits for another, and no waiting thread has its priority set.
THEOREM InheritanceWorks ==
  ASSUME HoldAndWait = FALSE, SetWaiting = FALSE
  PROVE  Spec => []HolderInherits
<1>1. Init => IInv
  BY IInvInit
<1>2. IInv /\ [Next]_vars => IInv'
  BY IInvNext
<1>3. IInv => HolderInherits
  BY DEF IInv, OrderlyInv, HolderInherits
<1> QED
  BY <1>1, <1>2, <1>3, PTL DEF Spec

\* The holder of a ceiling mutex runs at the ceiling or above, also when it was
\* handed the mutex while it waited or has its priority set meanwhile.  The one
\* exception is the creator of a mutex initialised CORE_MUTEX_LOCKED, until it
\* lets go: _CORE_mutex_Initialize makes it the holder and does not raise it.
THEOREM CeilingWorks ==
  ASSUME HoldAndWait = FALSE, SetWaiting = FALSE
  PROVE  Spec => []HolderAtCeiling
<1>1. Init => IInv
  BY IInvInit
<1>2. IInv /\ [Next]_vars => IInv'
  BY IInvNext
<1>3. IInv => HolderAtCeiling
  BY DEF IInv, OrderlyInv, HolderAtCeiling
<1> QED
  BY <1>1, <1>2, <1>3, PTL DEF Spec

\* Where all mutexes are of the inheritance discipline, the last release gives
\* a thread its own priority back: resource_count counts what it holds exactly.
THEOREM InheritanceIsReturned ==
  ASSUME HoldAndWait = FALSE, SetWaiting = FALSE
  PROVE  Spec => []InheritanceEnds
<1>1. Init => IInv
  BY IInvInit
<1>2. IInv /\ [Next]_vars => IInv'
  BY IInvNext
<1>3. IInv => InheritanceEnds
  BY DEF IInv, OrderlyInv, OwnPriority, InheritanceEnds
<1> QED
  BY <1>1, <1>2, <1>3, PTL DEF Spec
=============================================================================
