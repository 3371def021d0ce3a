-------------------------- MODULE SchedulerProofs --------------------------
(***************************************************************************)
(* Proofs about Scheduler, for any number of threads and priorities, any   *)
(* size of the groups of the bit map and any nesting of interrupt handlers,*)
(* where handlers do not suspend threads.                                  *)
(***************************************************************************)
EXTENDS Scheduler, SequenceTheorems, WellFoundedInduction, TLAPS

\* Zenon is tried on every leaf that names no other prover.
USE Zenon

\* Each thread is on the chain of its priority when it is ready, and the bit
\* maps say which chains are not empty.
ChainInv ==
  /\ ready \in [Priorities -> Seq(Threads)]
  /\ ChainsExact
  /\ minor = {p \in Priorities : ready[p] # << >>}
  /\ major = {Group(p) : p \in minor}

ThreadInv ==
  /\ current_state \in [Threads -> SUBSET States]
  /\ priority \in [Threads -> Priorities]
  /\ preemptible \in [Threads -> BOOLEAN]
  /\ heir \in Threads /\ executing \in Threads
  /\ switch \in BOOLEAN
  /\ current_state[Idle] = {} /\ priority[Idle] = Lowest

\* Routines that only handlers run on top of others, and routines that take a
\* thread off its chain for a while.
Nested == {"cleared", "rotated"}
Moving == {"transient", "priority_set", "restarting", "reset"}

\* The routine that was called first, by thread code unless it is Nested.
Bottom == stack[Len(stack)]
Calling == stack # << >> /\ Bottom.pc \notin Nested

StackInv ==
  /\ stack \in Seq(Frames)
  /\ \A i \in 1 .. Len(stack) :
       /\ stack[i].pc \in Nested => IsReady(stack[i].thread)
       /\ stack[i].pc \notin Nested => i = Len(stack)
       /\ stack[i].pc \in Moving =>
            stack[i].thread # Idle /\ "TRANSIENT" \in current_state[stack[i].thread]

\* A handler has made t ready and not yet compared it with the heir.
Uncompared(t) ==
  \E i \in 1 .. Len(stack) : stack[i].pc = "cleared" /\ stack[i].thread = t

\* The routine called first calculates the heir again before it ends.
Recalculates ==
  /\ Calling
  /\ \/ Bottom.pc \in {"readied", "requeued", "restarting", "reset"}
     \/ /\ Bottom.pc \in {"transient", "priority_set"}
        /\ current_state[Bottom.thread] = {"TRANSIENT"}

Leaving(t) == Calling /\ Bottom.pc = "set" /\ Bottom.thread = t

\* The heir is the highest of the threads it was compared with, unless it is
\* calculated again.
HeirInv ==
  ~Recalculates =>
    /\ IsReady(heir) \/ Leaving(heir)
    /\ \A t \in Threads : IsReady(t) => priority[heir] <= priority[t] \/ Uncompared(t)

\* The executing thread is ready, or a routine that it called is about to see
\* that it is not, or a switch is due.
ExecutingInv ==
  \/ IsReady(executing) \/ switch \/ Leaving(executing)
  \/ Calling /\ Bottom.pc \in Moving /\ Bottom.thread = executing /\ Recalculates

PreemptInv ==
  ~Recalculates /\ ~Leaving(executing) /\ executing # heir =>
    switch \/ (~preemptible[executing] /\ IsReady(executing))

IInv == ChainInv /\ ThreadInv /\ StackInv /\ HeirInv /\ ExecutingInv /\ PreemptInv

-----------------------------------------------------------------------------
\* Chains.

LEMMA ChainAppend ==
  ASSUME NEW s \in Seq(Threads), IsInjective(s), NEW t \in Threads, t \notin ToSet(s)
  PROVE  /\ Append(s, t) \in Seq(Threads) /\ IsInjective(Append(s, t))
         /\ ToSet(Append(s, t)) = ToSet(s) \cup {t} /\ Append(s, t) # << >>
<1> DEFINE r == Append(s, t)
<1>1. /\ r \in Seq(Threads) /\ Len(r) = Len(s) + 1 /\ DOMAIN r = 1 .. Len(s) + 1
      /\ r[Len(s) + 1] = t /\ \A i \in 1 .. Len(s) : r[i] = s[i]
  BY SMT
<1> HIDE DEF r
<1>2. \A i \in 1 .. Len(s) : s[i] # t
  BY SMT DEF ToSet
<1>3. IsInjective(r)
  BY <1>1, <1>2, SMT DEF IsInjective
<1>4. ToSet(r) = ToSet(s) \cup {t}
  <2>1. \A i \in 1 .. Len(s) + 1 : i \in 1 .. Len(s) \/ i = Len(s) + 1
    BY SMT
  <2> QED
    BY <1>1, <2>1, SMT DEF ToSet
<1>5. r # << >>
  BY <1>1, SMT
<1> QED
  BY <1>1, <1>3, <1>4, <1>5 DEF r

LEMMA ChainPrepend ==
  ASSUME NEW s \in Seq(Threads), IsInjective(s), NEW t \in Threads, t \notin ToSet(s)
  PROVE  /\ <<t>> \o s \in Seq(Threads) /\ IsInjective(<<t>> \o s)
         /\ ToSet(<<t>> \o s) = ToSet(s) \cup {t} /\ <<t>> \o s # << >>
<1> DEFINE r == <<t>> \o s
<1>1. /\ r \in Seq(Threads) /\ Len(r) = Len(s) + 1 /\ DOMAIN r = 1 .. Len(s) + 1
      /\ r[1] = t /\ \A i \in 1 .. Len(s) : r[i + 1] = s[i]
  BY SMT
<1>2. \A i \in 1 .. Len(s) + 1 : i = 1 \/ (i - 1 \in 1 .. Len(s) /\ r[i] = s[i - 1])
  BY SMT
<1> HIDE DEF r
<1>3. IsInjective(r)
  <2>1. \A i \in 1 .. Len(s) : s[i] # t
    BY SMT DEF ToSet
  <2> SUFFICES ASSUME NEW i \in 1 .. Len(s) + 1, NEW j \in 1 .. Len(s) + 1, r[i] = r[j]
               PROVE  i = j
    BY <1>1 DEF IsInjective
  <2>2. CASE i = 1 \/ j = 1
    BY <1>1, <1>2, <2>1, <2>2
  <2>3. CASE i # 1 /\ j # 1
    <3>1. i - 1 \in DOMAIN s /\ j - 1 \in DOMAIN s /\ s[i - 1] = s[j - 1]
      BY <1>2, <2>3, SMT
    <3>2. i - 1 = j - 1
      BY <3>1 DEF IsInjective
    <3> QED
      BY <3>2, SMT
  <2> QED
    BY <2>2, <2>3
<1>4. ToSet(r) = ToSet(s) \cup {t}
  <2>1. ASSUME NEW x \in ToSet(s) PROVE x \in ToSet(r)
    <3>1. PICK i \in 1 .. Len(s) : s[i] = x
      BY SMT DEF ToSet
    <3>2. i + 1 \in DOMAIN r /\ r[i + 1] = x
      BY <1>1, <3>1, SMT
    <3> QED
      BY <3>2 DEF ToSet
  <2>2. ASSUME NEW x \in ToSet(r) PROVE x \in ToSet(s) \/ x = t
    <3>1. PICK i \in 1 .. Len(s) + 1 : r[i] = x
      BY <1>1 DEF ToSet
    <3> QED
      BY <1>1, <1>2, <3>1, SMT DEF ToSet
  <2>3. t \in ToSet(r)
    BY <1>1, SMT DEF ToSet
  <2> QED
    BY <2>1, <2>2, <2>3
<1>5. r # << >>
  BY <1>1, SMT
<1> QED
  BY <1>1, <1>3, <1>4, <1>5 DEF r

LEMMA ChainRemove ==
  ASSUME NEW s \in Seq(Threads), IsInjective(s), NEW t \in ToSet(s)
  PROVE  /\ RemoveFirst(s, t) \in Seq(Threads) /\ IsInjective(RemoveFirst(s, t))
         /\ ToSet(RemoveFirst(s, t)) = ToSet(s) \ {t}
         /\ Len(s) # 1 => RemoveFirst(s, t) # << >>
<1>1. PICK k \in 1 .. Len(s) : s[k] = t
  BY SMT DEF ToSet
<1>2. {i \in 1 .. Len(s) : s[i] = t} = {k}
  BY <1>1, SMT DEF IsInjective
<1>3. Min({k}) = k
  BY SMT DEF Min
<1>4. SelectInSeq(s, LAMBDA v : v = t) = k
  BY <1>2, <1>3 DEF SelectInSeq
<1> DEFINE r == SubSeq(s, 1, k - 1) \o SubSeq(s, k + 1, Len(s))
<1>5. RemoveFirst(s, t) = r
  BY <1>1, <1>4 DEF RemoveFirst, RemoveAt
<1>6. /\ r \in Seq(Threads) /\ Len(r) = Len(s) - 1
      /\ \A i \in 1 .. Len(s) - 1 : r[i] = IF i < k THEN s[i] ELSE s[i + 1]
  <2> DEFINE a == SubSeq(s, 1, k - 1)
             b == SubSeq(s, k + 1, Len(s))
  <2>1. a \in Seq(Threads) /\ Len(a) = k - 1 /\ \A i \in 1 .. k - 1 : a[i] = s[i]
    BY SMT
  <2>2. /\ b \in Seq(Threads) /\ Len(b) = Len(s) - k
        /\ \A i \in 1 .. Len(s) - k : b[i] = s[i + k]
    BY SMT
  <2> HIDE DEF a, b
  <2>3. /\ a \o b \in Seq(Threads) /\ Len(a \o b) = Len(a) + Len(b)
        /\ \A i \in 1 .. Len(a) + Len(b) :
             (a \o b)[i] = IF i <= Len(a) THEN a[i] ELSE b[i - Len(a)]
    BY <2>1, <2>2, ConcatProperties
  <2>4. ASSUME NEW i \in 1 .. Len(s) - 1
        PROVE  (a \o b)[i] = IF i < k THEN s[i] ELSE s[i + 1]
    <3>1. CASE i < k
      BY <2>1, <2>2, <2>3, <3>1, SMT
    <3>2. CASE i >= k
      <4>1. /\ i - (k - 1) \in 1 .. Len(s) - k
            /\ b[i - (k - 1)] = s[(i - (k - 1)) + k] /\ (i - (k - 1)) + k = i + 1
        BY <2>2, <3>2, SMT
      <4> QED
        BY <2>1, <2>2, <2>3, <3>2, <4>1, SMTT(30)
    <3>3. i < k \/ i >= k
      BY <1>1, SMT
    <3> QED
      BY <3>1, <3>2, <3>3
  <2>5. Len(a) + Len(b) = Len(s) - 1 /\ r = a \o b
    <3>1. Len(a) + Len(b) = Len(s) - 1
      BY <1>1, <2>1, <2>2, SMT
    <3> QED
      BY <3>1 DEF a, b
  <2> QED
    BY <2>3, <2>4, <2>5
<1> HIDE DEF r
<1>7. IsInjective(r)
  <2> SUFFICES ASSUME NEW i \in 1 .. Len(s) - 1, NEW j \in 1 .. Len(s) - 1, r[i] = r[j]
               PROVE  i = j
    BY <1>6, SMTT(30) DEF IsInjective
  <2> DEFINE up(n) == IF n < k THEN n ELSE n + 1
  <2>1. up(i) \in 1 .. Len(s) /\ up(j) \in 1 .. Len(s) /\ s[up(i)] = s[up(j)]
    BY <1>6, SMTT(30)
  <2>2. up(i) = up(j)
    BY <2>1, SMT DEF IsInjective
  <2> QED
    BY <2>2, SMT
<1>8. ToSet(r) \subseteq ToSet(s) \ {t}
  BY <1>1, <1>6, SMTT(30) DEF ToSet, IsInjective
<1>9. ToSet(s) \ {t} \subseteq ToSet(r)
  <2> SUFFICES ASSUME NEW i \in 1 .. Len(s), s[i] # t PROVE s[i] \in ToSet(r)
    BY SMT DEF ToSet
  <2>1. CASE i < k
    BY <1>6, <2>1, SMT DEF ToSet
  <2>2. CASE i > k
    <3>1. i - 1 \in 1 .. Len(s) - 1 /\ r[i - 1] = s[i]
      BY <1>6, <2>2, SMT
    <3> QED
      BY <1>6, <3>1, SMT DEF ToSet
  <2> QED
    BY <1>1, <2>1, <2>2, SMT
<1>10. Len(s) # 1 => r # << >>
  <2>1. Len(s) \in Nat /\ Len(s) >= 1
    BY <1>1, SMT
  <2> QED
    BY <1>6, <2>1, SMT
<1> QED
  BY <1>5, <1>6, <1>7, <1>8, <1>9, <1>10

LEMMA ChainHead ==
  ASSUME NEW s \in Seq(Threads), s # << >>
  PROVE  Head(s) \in ToSet(s) /\ Head(s) \in Threads
  BY SMT DEF ToSet

-----------------------------------------------------------------------------
\* The bit maps find the highest priority of a ready thread.

LEMMA LeastExists ==
  ASSUME NEW S \in SUBSET Nat, S # {}
  PROVE  Least(S) \in S /\ \A y \in S : Least(S) <= y
<1> DEFINE R == {ss \in Nat \X Nat : ss[1] < ss[2]}
<1>1. IsWellFoundedOn(R, Nat)
  BY NatLessThanWellFounded DEF OpToRel
<1>2. PICK x \in S : \A y \in S : ~(<<y, x>> \in R)
  <2> HIDE DEF R
  <2> QED
    BY <1>1, WFMin
<1>3. ASSUME NEW y \in S PROVE x <= y
  <2>1. x \in Nat /\ y \in Nat
    OBVIOUS
  <2>2. ASSUME y < x PROVE <<y, x>> \in R
    BY <2>1, <2>2
  <2> QED
    BY <1>2, <2>1, <2>2, SMT
<1>4. \E z \in S : \A y \in S : z <= y
  BY <1>3
<1> QED
  BY <1>4 DEF Least

LEMMA GroupMonotone ==
  ASSUME NEW p \in Nat, NEW q \in Nat, p <= q
  PROVE  Group(p) \in Nat /\ Group(p) <= Group(q)
<1>1. GroupSize \in Nat \ {0}
  BY SchedulerAssumption
<1>2. p \div GroupSize \in Nat
  BY <1>1, SMT
<1>3. p \div GroupSize <= q \div GroupSize
  BY <1>1, SMT
<1> QED
  BY <1>2, <1>3 DEF Group

LEMMA HighestFound ==
  ASSUME ChainInv, ThreadInv
  PROVE  GetHighest \in minor /\ \A q \in minor : GetHighest <= q
<1>1. minor \subseteq Nat /\ Priorities \subseteq Nat
  BY SMT DEF ChainInv, Priorities
<1>2. Lowest \in minor
  <2>1. Lowest \in Priorities
    BY SchedulerAssumption, SMT DEF Priorities
  <2>2. Idle \in ToSet(ready[Lowest])
    BY <2>1, SchedulerAssumption DEF ChainInv, ChainsExact, ThreadInv, IsReady
  <2> QED
    BY <2>1, <2>2, SMT DEF ToSet, ChainInv
<1>3. major \subseteq Nat /\ major # {}
  BY <1>1, <1>2, GroupMonotone, SMTT(30) DEF ChainInv
<1>4. Least(major) \in major /\ \A g \in major : Least(major) <= g
  BY <1>3, LeastExists
<1> DEFINE S == {p \in minor : Group(p) = Least(major)}
<1>5. S \in SUBSET Nat /\ S # {}
  BY <1>1, <1>4 DEF ChainInv
<1>6. Least(S) \in S /\ \A y \in S : Least(S) <= y
  <2> HIDE DEF S
  <2> QED
    BY <1>5, LeastExists
<1>7. GetHighest = Least(S)
  BY DEF GetHighest
<1>8. ASSUME NEW q \in minor PROVE Least(S) <= q
  <2> DEFINE l == Least(S)
  <2>1. l \in Nat /\ q \in Nat /\ Group(l) = Least(major) /\ Group(q) \in major
    BY <1>1, <1>6 DEF ChainInv
  <2>2. CASE Group(q) = Least(major)
    BY <1>6, <2>2
  <2>3. CASE Group(q) # Least(major)
    <3>1. Group(q) \in Nat /\ Group(l) \in Nat
      BY <1>3, <1>4, <2>1
    <3>2. Group(l) < Group(q)
      BY <1>4, <2>1, <2>3, <3>1, SMT
    <3>3. ~(q <= l)
      <4> HIDE DEF l
      <4> QED
        BY <2>1, <3>1, <3>2, GroupMonotone, SMT
    <3> QED
      BY <2>1, <3>3, SMT
  <2> QED
    BY <2>2, <2>3
<1> QED
  BY <1>6, <1>7, <1>8

\* _Thread_Calculate_heir finds a ready thread that no ready thread outranks.
LEMMA HeirCalculated ==
  ASSUME ChainInv, ThreadInv
  PROVE  /\ CalculateHeir \in Threads /\ IsReady(CalculateHeir)
         /\ \A t \in Threads : IsReady(t) => priority[CalculateHeir] <= priority[t]
<1> DEFINE p == GetHighest
<1>1. p \in minor /\ \A q \in minor : p <= q
  BY HighestFound
<1>2. p \in Priorities /\ ready[p] \in Seq(Threads) /\ ready[p] # << >>
  BY <1>1 DEF ChainInv
<1>3. CalculateHeir \in ToSet(ready[p]) /\ CalculateHeir \in Threads
  BY <1>2, ChainHead DEF CalculateHeir
<1>4. IsReady(CalculateHeir) /\ priority[CalculateHeir] = p
  BY <1>2, <1>3 DEF ChainInv, ChainsExact
<1>5. ASSUME NEW t \in Threads, IsReady(t) PROVE priority[t] \in minor
  <2>1. priority[t] \in Priorities
    BY DEF ThreadInv
  <2>2. t \in ToSet(ready[priority[t]])
    BY <1>5, <2>1 DEF ChainInv, ChainsExact
  <2> QED
    BY <2>1, <2>2, SMT DEF ToSet, ChainInv
<1> QED
  BY <1>1, <1>3, <1>4, <1>5

-----------------------------------------------------------------------------
\* A thread joins or leaves its chain, or changes its place on it.

LEMMA NotOnChain ==
  ASSUME ChainInv, ThreadInv, NEW t \in Threads
  PROVE  /\ priority[t] \in Priorities
         /\ t \in ToSet(ready[priority[t]]) <=> IsReady(t)
         /\ ready[priority[t]] \in Seq(Threads) /\ IsInjective(ready[priority[t]])
         /\ minor \subseteq Priorities
  BY DEF ChainInv, ThreadInv, ChainsExact

LEMMA Joins ==
  ASSUME ChainInv, ThreadInv, NEW t \in Threads, ~IsReady(t),
         \A u \in Threads : current_state'[u] = {} <=> IsReady(u) \/ u = t,
         priority' = priority,
         AppendReady(t, priority[t]) \/ PrependReady(t, priority[t])
  PROVE  ChainInv'
<1> DEFINE p == priority[t]
<1>1. PICK c : /\ c \in Seq(Threads) /\ IsInjective(c) /\ c # << >>
               /\ ToSet(c) = ToSet(ready[p]) \cup {t}
               /\ ready' = [ready EXCEPT ![p] = c]
  <2>1. p \in Priorities /\ t \notin ToSet(ready[p]) /\ ready[p] \in Seq(Threads)
        /\ IsInjective(ready[p])
    BY NotOnChain
  <2>2. CASE AppendReady(t, p)
    BY <2>1, <2>2, ChainAppend DEF AppendReady
  <2>3. CASE PrependReady(t, p)
    BY <2>1, <2>3, ChainPrepend DEF PrependReady
  <2> QED
    BY <2>2, <2>3
<1>2. p \in Priorities /\ minor' = minor \cup {p} /\ major' = major \cup {Group(p)}
  BY NotOnChain DEF AppendReady, PrependReady, AddToBitMap
<1>3. /\ ready' \in [Priorities -> Seq(Threads)] /\ ready'[p] = c
      /\ \A q \in Priorities : q # p => ready'[q] = ready[q]
  BY <1>1, <1>2 DEF ChainInv
<1>4. ChainsExact'
  <2> SUFFICES ASSUME NEW q \in Priorities
               PROVE  /\ IsInjective(ready'[q])
                      /\ ToSet(ready'[q]) =
                           {u \in Threads : current_state'[u] = {} /\ priority'[u] = q}
    BY DEF ChainsExact, IsReady, Priorities, IsInjective, ToSet
  <2>1. ToSet(ready[q]) = {u \in Threads : IsReady(u) /\ priority[u] = q}
    BY DEF ChainInv, ChainsExact
  <2>2. CASE q = p
    BY <1>1, <1>3, <2>1, <2>2, SMT
  <2>3. CASE q # p
    BY <1>3, <2>1, <2>3 DEF ChainInv, ChainsExact
  <2> QED
    BY <2>2, <2>3
<1>5. minor' = {q \in Priorities : ready'[q] # << >>}
  BY <1>1, <1>2, <1>3 DEF ChainInv
<1>6. major' = {Group(q) : q \in minor'}
  BY <1>2 DEF ChainInv
<1> QED
  BY <1>3, <1>4, <1>5, <1>6 DEF ChainInv, Priorities, Group

LEMMA Leaves ==
  ASSUME ChainInv, ThreadInv, NEW t \in Threads, IsReady(t),
         \A u \in Threads : current_state'[u] = {} <=> IsReady(u) /\ u # t,
         priority' = priority, Unready(t)
  PROVE  ChainInv'
<1> DEFINE p == priority[t]
           s == ready[p]
<1>1. p \in Priorities /\ t \in ToSet(s) /\ s \in Seq(Threads) /\ IsInjective(s)
      /\ p \in minor
  BY NotOnChain, SMT DEF ChainInv, ToSet
<1>2. PICK c : /\ c \in Seq(Threads) /\ IsInjective(c)
               /\ ToSet(c) = ToSet(s) \ {t}
               /\ ready' = [ready EXCEPT ![p] = c]
               /\ \/ c = << >> /\ minor' = minor \ {p} /\ major' = MajorWithout(p, minor \ {p})
                  \/ c # << >> /\ minor' = minor /\ major' = major
  <2>1. CASE Len(s) = 1
    <3>1. ToSet(s) = {t}
      BY <1>1, <2>1, SMT DEF ToSet
    <3>2. << >> \in Seq(Threads) /\ IsInjective(<< >>) /\ ToSet(<< >>) = {}
      BY SMT DEF IsInjective, ToSet
    <3>3. /\ ready' = [ready EXCEPT ![p] = << >>] /\ minor' = minor \ {p}
          /\ major' = MajorWithout(p, minor \ {p})
      BY <2>1 DEF Unready
    <3> QED
      BY <3>1, <3>2, <3>3
  <2>2. CASE Len(s) # 1
    <3> DEFINE c == RemoveFirst(s, t)
    <3>1. /\ c \in Seq(Threads) /\ IsInjective(c) /\ ToSet(c) = ToSet(s) \ {t}
          /\ Len(s) # 1 => c # << >>
      BY <1>1, ChainRemove
    <3>3. ready' = [ready EXCEPT ![p] = c] /\ UNCHANGED <<minor, major>>
      BY <2>2 DEF Unready
    <3> HIDE DEF c
    <3>4. c # << >>
      BY <2>2, <3>1
    <3> QED
      BY <3>1, <3>3, <3>4
  <2> QED
    BY <2>1, <2>2
<1>3. /\ ready' \in [Priorities -> Seq(Threads)] /\ ready'[p] = c
      /\ \A q \in Priorities : q # p => ready'[q] = ready[q]
  BY <1>1, <1>2 DEF ChainInv
<1>4. ChainsExact'
  <2> SUFFICES ASSUME NEW q \in Priorities
               PROVE  /\ IsInjective(ready'[q])
                      /\ ToSet(ready'[q]) =
                           {u \in Threads : current_state'[u] = {} /\ priority'[u] = q}
    BY DEF ChainsExact, IsReady, Priorities, IsInjective, ToSet
  <2>1. ToSet(ready[q]) = {u \in Threads : IsReady(u) /\ priority[u] = q}
    BY DEF ChainInv, ChainsExact
  <2>2. CASE q = p
    BY <1>2, <1>3, <2>1, <2>2, SMT
  <2>3. CASE q # p
    BY <1>3, <2>1, <2>3, SMTT(30) DEF ChainInv, ChainsExact
  <2> QED
    BY <2>2, <2>3
<1>5. minor' = {q \in Priorities : ready'[q] # << >>}
  BY <1>1, <1>2, <1>3 DEF ChainInv
<1>6. major' = {Group(q) : q \in minor'}
  BY <1>1, <1>2 DEF ChainInv, MajorWithout
<1> QED
  BY <1>3, <1>4, <1>5, <1>6 DEF ChainInv, Priorities, Group

LEMMA Rests ==
  ASSUME ChainInv, UNCHANGED chains,
         \A u \in Threads : current_state'[u] = {} <=> IsReady(u),
         \A u \in Threads : IsReady(u) => priority'[u] = priority[u]
  PROVE  ChainInv'
  BY SMT DEF ChainInv, ChainsExact, IsReady, chains, Priorities, Group, IsInjective, ToSet

LEMMA Rotates ==
  ASSUME ChainInv, ThreadInv, IsReady(executing), Rotate
  PROVE  ChainInv'
<1> DEFINE p == priority[executing]
           s == ready[p]
<1>1. /\ executing \in Threads /\ p \in Priorities /\ executing \in ToSet(s)
      /\ s \in Seq(Threads) /\ IsInjective(s)
  BY NotOnChain DEF ThreadInv
<1> DEFINE r == RemoveFirst(s, executing)
           c == Append(r, executing)
<1>2. r \in Seq(Threads) /\ IsInjective(r) /\ ToSet(r) = ToSet(s) \ {executing}
  BY <1>1, ChainRemove
<1>3. ready' = [ready EXCEPT ![p] = c]
  BY DEF Rotate
<1> HIDE DEF r
<1>4. c \in Seq(Threads) /\ IsInjective(c) /\ ToSet(c) = ToSet(s) /\ c # << >>
  <2>1. executing \notin ToSet(r) /\ ToSet(r) \cup {executing} = ToSet(s)
    BY <1>1, <1>2
  <2> QED
    BY <1>1, <1>2, <2>1, ChainAppend
<1> HIDE DEF c
<1>5. /\ ready' \in [Priorities -> Seq(Threads)] /\ ready'[p] = c
      /\ \A q \in Priorities : q # p => ready'[q] = ready[q]
  BY <1>1, <1>3, <1>4 DEF ChainInv
<1>6. s # << >>
  BY <1>1, SMT DEF ToSet
<1>7. UNCHANGED <<minor, major, current_state, priority>>
  BY DEF Rotate, threads
<1>8. ChainsExact'
  <2> SUFFICES ASSUME NEW q \in Priorities
               PROVE  /\ IsInjective(ready'[q])
                      /\ ToSet(ready'[q]) =
                           {u \in Threads : current_state'[u] = {} /\ priority'[u] = q}
    BY DEF ChainsExact, IsReady, Priorities, IsInjective, ToSet
  <2>1. /\ ToSet(ready[q]) = {u \in Threads : IsReady(u) /\ priority[u] = q}
        /\ IsInjective(ready[q])
    BY DEF ChainInv, ChainsExact
  <2>2. IsInjective(ready'[q]) /\ ToSet(ready'[q]) = ToSet(ready[q])
    BY <1>4, <1>5, <2>1
  <2> QED
    BY <1>7, <2>1, <2>2 DEF IsReady
<1>9. minor' = {q \in Priorities : ready'[q] # << >>}
  BY <1>1, <1>4, <1>5, <1>6, <1>7 DEF ChainInv
<1> QED
  BY <1>5, <1>7, <1>8, <1>9 DEF ChainInv, Priorities, Group

-----------------------------------------------------------------------------
\* The routines in progress.

\* Nothing is in progress.
LEMMA AtRest ==
  ASSUME IInv, stack = << >>
  PROVE  /\ ~Calling /\ ~Recalculates
         /\ IsReady(heir)
         /\ \A t \in Threads : IsReady(t) => priority[heir] <= priority[t]
         /\ IsReady(executing) \/ switch
         /\ executing # heir => switch \/ (~preemptible[executing] /\ IsReady(executing))
<1>1. ~Calling /\ ~Recalculates
  BY DEF Calling, Recalculates
<1>2. \A t : ~Leaving(t) /\ ~Uncompared(t)
  BY <1>1, SMT DEF Leaving, Uncompared
<1> QED
  BY <1>1, <1>2 DEF IInv, HeirInv, ExecutingInv, PreemptInv

\* ... after the step.
LEMMA RestsThen ==
  ASSUME stack' = << >>, ThreadInv', current_state'[heir'] = {},
         \A t \in Threads : current_state'[t] = {} => priority'[heir'] <= priority'[t],
         current_state'[executing'] = {} \/ switch',
         executing' # heir' =>
           switch' \/ (~preemptible'[executing'] /\ current_state'[executing'] = {})
  PROVE  StackInv' /\ HeirInv' /\ ExecutingInv' /\ PreemptInv'
<1>1. StackInv'
  BY SMT DEF StackInv
<1>2. HeirInv' /\ ExecutingInv' /\ PreemptInv'
  BY DEF HeirInv, ExecutingInv, PreemptInv, IsReady
<1> QED
  BY <1>1, <1>2

\* One routine that thread code called is in progress.
LEMMA Alone ==
  ASSUME IInv, stack # << >>, Top.pc \notin Nested
  PROVE  /\ Len(stack) = 1 /\ Tail(stack) = << >>
         /\ Top \in Frames /\ Bottom = Top /\ Calling
         /\ \A t : ~Uncompared(t)
         /\ Top.pc \in Moving =>
              Top.thread # Idle /\ "TRANSIENT" \in current_state[Top.thread]
<1>1. stack \in Seq(Frames) /\ Len(stack) \in Nat \ {0} /\ Top = stack[1]
  BY SMT DEF IInv, StackInv, Top
<1>2. Len(stack) = 1
  <2>1. 1 \in 1 .. Len(stack)
    BY <1>1, SMT
  <2> QED
    BY <1>1, <2>1 DEF IInv, StackInv
<1>3. Tail(stack) = << >>
  <2>1. Tail(stack) \in Seq(Frames) /\ Len(Tail(stack)) = 0
    BY <1>1, <1>2, SMT
  <2> QED
    BY <2>1, EmptySeq
<1>4. Bottom = Top /\ Calling /\ Top \in Frames
  BY <1>1, <1>2, SMT DEF Bottom, Calling
<1>5. \A t : ~Uncompared(t)
  BY <1>1, <1>2, SMT DEF Uncompared, Nested
<1> QED
  BY <1>1, <1>2, <1>3, <1>4, <1>5, SMT DEF IInv, StackInv

LEMMA AloneThen ==
  ASSUME NEW f \in Frames, stack' = <<f>>, f.pc \notin Nested,
         f.pc \in Moving => f.thread # Idle /\ "TRANSIENT" \in current_state'[f.thread]
  PROVE  /\ StackInv' /\ Calling' /\ Bottom' = f
<1>1. stack' \in Seq(Frames) /\ Len(stack') = 1 /\ stack'[1] = f /\ stack' # << >>
  BY SMT
<1>2. Bottom' = f /\ Calling'
  BY <1>1 DEF Bottom, Calling
<1>3. \A i \in 1 .. Len(stack') : i = 1 /\ i = Len(stack') /\ stack'[i] = f
  BY <1>1, SMT
<1> QED
  BY <1>1, <1>2, <1>3 DEF StackInv

\* A handler's routine begins or ends on top of the others.
LEMMA PushThen ==
  ASSUME IInv, NEW f \in Frames, stack' = <<f>> \o stack, f.pc \in Nested,
         current_state'[f.thread] = {},
         \A t \in Threads : IsReady(t) => current_state'[t] = {},
         \A t \in Threads : "TRANSIENT" \in current_state[t] =>
                            "TRANSIENT" \in current_state'[t]
  PROVE  /\ StackInv'
         /\ Calling' <=> Calling
         /\ Calling => Bottom' = Bottom
         /\ \A t : Uncompared(t) => \E i \in 1 .. Len(stack') :
                     stack'[i].pc = "cleared" /\ stack'[i].thread = t
         /\ 1 \in 1 .. Len(stack') /\ stack'[1] = f
<1>1. stack \in Seq(Frames)
  BY DEF IInv, StackInv
<1>2. /\ stack' \in Seq(Frames) /\ Len(stack') = Len(stack) + 1 /\ stack'[1] = f
      /\ \A i \in 1 .. Len(stack) : stack'[i + 1] = stack[i]
  BY <1>1, SMT
<1>3. ASSUME NEW i \in 1 .. Len(stack'), i # 1
      PROVE  i - 1 \in 1 .. Len(stack) /\ stack'[i] = stack[i - 1]
  BY <1>1, <1>2, <1>3, SMT
<1>4. StackInv'
  <2> SUFFICES ASSUME NEW i \in 1 .. Len(stack')
               PROVE  /\ stack'[i].pc \in Nested => current_state'[stack'[i].thread] = {}
                      /\ stack'[i].pc \notin Nested => i = Len(stack')
                      /\ stack'[i].pc \in Moving =>
                           /\ stack'[i].thread # Idle
                           /\ "TRANSIENT" \in current_state'[stack'[i].thread]
    BY <1>2 DEF StackInv, IsReady
  <2>1. CASE i = 1
    BY <1>2, <2>1 DEF Nested, Moving
  <2>2. CASE i # 1
    <3>1. i - 1 \in 1 .. Len(stack) /\ stack'[i] = stack[i - 1]
      BY <1>3, <2>2
    <3>2. stack[i - 1] \in Frames /\ stack[i - 1].thread \in Threads
      <4>1. \A j \in 1 .. Len(stack) : stack[j] \in Frames
        BY <1>1, SMT
      <4>2. \A f2 \in Frames : f2.thread \in Threads
        BY DEF Frames
      <4> QED
        BY <3>1, <4>1, <4>2
    <3>3. i - 1 = Len(stack) => i = Len(stack')
      BY <1>1, <1>2, <3>1, SMT
    <3> QED
      BY <3>1, <3>2, <3>3 DEF IInv, StackInv
  <2> QED
    BY <2>1, <2>2
<1>5. CASE stack = << >>
  BY <1>2, <1>4, <1>5, SMT DEF Calling, Bottom, Uncompared
<1>6. CASE stack # << >>
  <2>1. Len(stack) \in 1 .. Len(stack)
    BY <1>1, <1>6, SMT
  <2>2. Bottom' = Bottom /\ stack' # << >>
    BY <1>1, <1>2, <2>1, SMT DEF Bottom
  <2>3. ASSUME NEW t, Uncompared(t)
        PROVE  \E i \in 1 .. Len(stack') : stack'[i].pc = "cleared" /\ stack'[i].thread = t
    <3>1. PICK i \in 1 .. Len(stack) : stack[i].pc = "cleared" /\ stack[i].thread = t
      BY <2>3 DEF Uncompared
    <3>2. i + 1 \in 1 .. Len(stack') /\ stack'[i + 1] = stack[i]
      BY <1>1, <1>2, SMT
    <3> QED
      BY <3>1, <3>2
  <2> QED
    BY <1>1, <1>2, <1>4, <1>6, <2>2, <2>3, SMT DEF Calling
<1> QED
  BY <1>5, <1>6

LEMMA PopThen ==
  ASSUME IInv, stack # << >>, stack' = Tail(stack), Top.pc \in Nested,
         UNCHANGED current_state
  PROVE  /\ StackInv' /\ Top \in Frames /\ IsReady(Top.thread)
         /\ Calling' <=> Calling
         /\ Calling => Bottom' = Bottom
         /\ \A t : Uncompared(t) => t = Top.thread \/
              \E i \in 1 .. Len(stack') : stack'[i].pc = "cleared" /\ stack'[i].thread = t
<1>1. stack \in Seq(Frames) /\ Len(stack) \in Nat \ {0} /\ Top = stack[1]
  BY SMT DEF IInv, StackInv, Top
<1>2. /\ stack' \in Seq(Frames) /\ Len(stack') = Len(stack) - 1
      /\ \A i \in 1 .. Len(stack) - 1 : stack'[i] = stack[i + 1]
  BY <1>1, SMT
<1>3. Top \in Frames /\ IsReady(Top.thread)
  BY <1>1, SMT DEF IInv, StackInv
<1>4. StackInv'
  <2> SUFFICES ASSUME NEW i \in 1 .. Len(stack')
               PROVE  /\ stack'[i].pc \in Nested => current_state'[stack'[i].thread] = {}
                      /\ stack'[i].pc \notin Nested => i = Len(stack')
                      /\ stack'[i].pc \in Moving =>
                           /\ stack'[i].thread # Idle
                           /\ "TRANSIENT" \in current_state'[stack'[i].thread]
    BY <1>2 DEF StackInv, IsReady
  <2>1. i + 1 \in 1 .. Len(stack) /\ stack'[i] = stack[i + 1]
    BY <1>1, <1>2, SMT
  <2>2. i + 1 = Len(stack) => i = Len(stack')
    <3>1. i \in Int /\ Len(stack) \in Int /\ Len(stack') \in Int
          /\ Len(stack') = Len(stack) - 1
      BY <1>1, <1>2, SMT
    <3>2. \A m, n \in Int : n = m - 1 /\ i + 1 = m => i = n
      BY <3>1, SMT
    <3> QED
      BY <3>1, <3>2
  <2> QED
    BY <2>1, <2>2 DEF IInv, StackInv, IsReady
<1>5. CASE Len(stack) = 1
  <2>1. stack' = << >> /\ Bottom = Top
    BY <1>1, <1>2, <1>5, SMT DEF Bottom
  <2>2. ~Calling /\ ~Calling'
    BY <2>1 DEF Calling
  <2>3. \A t : Uncompared(t) => t = Top.thread
    BY <1>1, <1>5, SMT DEF Uncompared
  <2> QED
    BY <1>3, <1>4, <2>2, <2>3
<1>6. CASE Len(stack) # 1
  <2>1. Len(stack) - 1 \in 1 .. Len(stack) - 1 /\ stack' # << >>
    BY <1>1, <1>2, <1>6, SMT
  <2>2. Bottom' = Bottom
    BY <1>1, <1>2, <2>1, SMT DEF Bottom
  <2>3. ASSUME NEW t, Uncompared(t)
        PROVE  t = Top.thread \/ \E i \in 1 .. Len(stack') :
                 stack'[i].pc = "cleared" /\ stack'[i].thread = t
    <3>1. PICK i \in 1 .. Len(stack) : stack[i].pc = "cleared" /\ stack[i].thread = t
      BY <2>3 DEF Uncompared
    <3>2. CASE i = 1
      BY <1>1, <3>1, <3>2
    <3>3. CASE i # 1
      <4>1. i - 1 \in 1 .. Len(stack') /\ stack'[i - 1] = stack[i]
        BY <1>1, <1>2, <3>3, SMT
      <4> QED
        BY <3>1, <4>1
    <3> QED
      BY <3>2, <3>3
  <2> QED
    BY <1>3, <1>4, <2>1, <2>2, <2>3 DEF Calling
<1> QED
  BY <1>5, <1>6

-----------------------------------------------------------------------------
\* What handlers do.

\* The routine that thread code called goes on calculating the heir, or not.
LEMMA RecalculatesStays ==
  ASSUME IInv, Calling' <=> Calling, Calling => Bottom' = Bottom,
         \A t \in Threads : current_state[t] = {"TRANSIENT"} =>
                            current_state'[t] = {"TRANSIENT"}
  PROVE  Recalculates => Recalculates'
<1> SUFFICES ASSUME Recalculates PROVE Recalculates'
  OBVIOUS
<1>1. Calling /\ Calling' /\ Bottom' = Bottom
  BY DEF Recalculates
<1>2. Bottom \in Frames
  <2>1. stack \in Seq(Frames) /\ stack # << >>
    BY <1>1 DEF IInv, StackInv, Calling
  <2> QED
    BY <2>1, SMT DEF Bottom
<1>3. Bottom.thread \in Threads
  BY <1>2 DEF Frames
<1> QED
  BY <1>1, <1>3 DEF Recalculates

LEMMA ClearStateStep ==
  ASSUME IInv, NEW t \in Threads, NEW x \in {"BLOCKED", "SUSPENDED"}, ClearState(t, x)
  PROVE  IInv'
<1>1. /\ current_state \in [Threads -> SUBSET States] /\ x \in current_state[t]
      /\ current_state' = [current_state EXCEPT ![t] = @ \ {x}]
      /\ UNCHANGED <<priority, preemptible, heir, executing, switch>>
  BY DEF ClearState, IInv, ThreadInv, cpu
<1>2. /\ current_state' \in [Threads -> SUBSET States]
      /\ \A u \in Threads : u # t => current_state'[u] = current_state[u]
      /\ current_state'[t] = current_state[t] \ {x}
  BY <1>1
<1>3. t # Idle /\ ~IsReady(t)
  BY <1>1 DEF IInv, ThreadInv, IsReady
<1>4. /\ \A u \in Threads : IsReady(u) => current_state'[u] = {}
      /\ \A u \in Threads : "TRANSIENT" \in current_state[u] =>
                            "TRANSIENT" \in current_state'[u]
      /\ \A u \in Threads : current_state[u] = {"TRANSIENT"} =>
                            current_state'[u] = {"TRANSIENT"}
  BY <1>1, <1>2, <1>3 DEF IsReady
<1>5. ThreadInv'
  BY <1>1, <1>2, <1>3, SchedulerAssumption DEF IInv, ThreadInv
<1>6. heir \in Threads /\ executing \in Threads
  BY DEF IInv, ThreadInv
<1>7. CASE current_state[t] = {x}
  <2> DEFINE f == [pc |-> "cleared", thread |-> t, priority |-> 0, prepend |-> FALSE]
  <2>1. f \in Frames /\ f.pc = "cleared" /\ f.thread = t /\ f.pc \in Nested
    BY SchedulerAssumption, SMT DEF Frames, Nested, Priorities
  <2>2. stack' = <<f>> \o stack /\ AppendReady(t, priority[t])
    BY <1>7 DEF ClearState, Push
  <2>3. current_state'[t] = {}
    BY <1>2, <1>7
  <2> HIDE DEF f
  <2>4. ChainInv'
    <3>1. \A u \in Threads : current_state'[u] = {} <=> IsReady(u) \/ u = t
      BY <1>2, <1>3, <2>3 DEF IsReady
    <3> QED
      BY <1>1, <1>3, <2>2, <3>1, Joins DEF IInv
  <2>5. /\ StackInv' /\ (Calling' <=> Calling) /\ (Calling => Bottom' = Bottom)
        /\ \A u : Uncompared(u) => \E i \in 1 .. Len(stack') :
                     stack'[i].pc = "cleared" /\ stack'[i].thread = u
        /\ 1 \in 1 .. Len(stack') /\ stack'[1] = f
    BY <1>4, <2>1, <2>2, <2>3, PushThen
  <2>6. Recalculates => Recalculates'
    BY <1>4, <2>5, RecalculatesStays
  <2>7. HeirInv'
    <3> SUFFICES ASSUME ~Recalculates'
                 PROVE  /\ current_state'[heir] = {} \/ Leaving(heir)'
                        /\ \A u \in Threads : current_state'[u] = {} =>
                             priority[heir] <= priority[u] \/ Uncompared(u)'
      BY <1>1 DEF HeirInv, IsReady
    <3>1. /\ IsReady(heir) \/ Leaving(heir)
          /\ \A u \in Threads : IsReady(u) => priority[heir] <= priority[u] \/ Uncompared(u)
      BY <2>6 DEF IInv, HeirInv
    <3>2. current_state'[heir] = {} \/ Leaving(heir)'
      BY <1>1, <1>4, <1>6, <2>5, <3>1 DEF Leaving
    <3>3. ASSUME NEW u \in Threads, current_state'[u] = {}
          PROVE  priority[heir] <= priority[u] \/ Uncompared(u)'
      BY <1>2, <2>1, <2>5, <3>1, <3>3, SMTT(30) DEF Uncompared, IsReady
    <3> QED
      BY <3>2, <3>3
  <2>8. ExecutingInv'
    BY <1>1, <1>4, <1>6, <2>5, <2>6 DEF IInv, ExecutingInv, Leaving, IsReady
  <2>9. PreemptInv'
    BY <1>1, <1>4, <1>6, <2>5, <2>6 DEF IInv, PreemptInv, Leaving, IsReady
  <2> QED
    BY <1>5, <2>4, <2>5, <2>7, <2>8, <2>9 DEF IInv
<1>8. CASE current_state[t] # {x}
  <2>1. UNCHANGED chains /\ stack' = stack
    BY <1>8 DEF ClearState
  <2>2. current_state'[t] # {} /\ \A u \in Threads : current_state'[u] = {} <=> IsReady(u)
    BY <1>1, <1>2, <1>3, <1>8 DEF IsReady
  <2>3. ChainInv'
    BY <1>1, <2>1, <2>2, Rests DEF IInv
  <2>4. (Calling' <=> Calling) /\ Bottom' = Bottom
    BY <2>1 DEF Calling, Bottom
  <2>5. Recalculates => Recalculates'
    BY <1>4, <2>4, RecalculatesStays
  <2>6. StackInv'
    <3>1. \A i \in 1 .. Len(stack) : stack[i].thread \in Threads
      <4>1. \A i \in 1 .. Len(stack) : stack[i] \in Frames
        BY SMT DEF IInv, StackInv
      <4> QED
        BY <4>1 DEF Frames
    <3> QED
      BY <1>4, <2>1, <3>1 DEF IInv, StackInv, IsReady
  <2>7. HeirInv'
    BY <1>1, <1>6, <2>1, <2>2, <2>4, <2>5 DEF IInv, HeirInv, Leaving, Uncompared, IsReady
  <2>8. ExecutingInv'
    BY <1>1, <1>4, <1>6, <2>4, <2>5 DEF IInv, ExecutingInv, Leaving, IsReady
  <2>9. PreemptInv'
    BY <1>1, <1>4, <1>6, <2>4, <2>5 DEF IInv, PreemptInv, Leaving, IsReady
  <2> QED
    BY <1>5, <2>3, <2>6, <2>7, <2>8, <2>9 DEF IInv
<1> QED
  BY <1>7, <1>8

LEMMA RotateStep ==
  ASSUME IInv, IsReady(executing), Rotate
  PROVE  IInv'
<1>1. UNCHANGED <<current_state, priority, preemptible, heir, executing, switch>>
  BY DEF Rotate, threads, cpu
<1>2. heir \in Threads /\ executing \in Threads
  BY DEF IInv, ThreadInv
<1> DEFINE f == [pc |-> "rotated", thread |-> executing, priority |-> 0, prepend |-> FALSE]
<1>3. f \in Frames /\ f.pc \in Nested /\ f.thread = executing
  BY <1>2, SchedulerAssumption, SMT DEF Frames, Nested, Priorities
<1>4. stack' = <<f>> \o stack
  BY DEF Rotate, Push
<1> HIDE DEF f
<1>5. ChainInv' /\ ThreadInv'
  BY <1>1, Rotates DEF IInv, ThreadInv
<1>6. current_state'[f.thread] = {}
  BY <1>1, <1>3 DEF IsReady
<1>7. /\ StackInv' /\ (Calling' <=> Calling) /\ (Calling => Bottom' = Bottom)
      /\ \A u : Uncompared(u) => \E i \in 1 .. Len(stack') :
                   stack'[i].pc = "cleared" /\ stack'[i].thread = u
  BY <1>1, <1>3, <1>4, <1>6, PushThen, SMTT(30) DEF IsReady
<1>8. Recalculates => Recalculates'
  BY <1>1, <1>7, RecalculatesStays
<1>9. HeirInv'
  BY <1>1, <1>7, <1>8 DEF IInv, HeirInv, Leaving, Uncompared, IsReady
<1>10. ExecutingInv' /\ PreemptInv'
  BY <1>1, <1>7, <1>8 DEF IInv, ExecutingInv, PreemptInv, Leaving, IsReady
<1> QED
  BY <1>5, <1>7, <1>9, <1>10 DEF IInv

LEMMA ClearStateEndStep ==
  ASSUME IInv, ClearStateEnd
  PROVE  IInv'
<1> DEFINE t == Top.thread
<1>1. /\ stack # << >> /\ Top.pc = "cleared" /\ Top.pc \in Nested /\ stack' = Tail(stack)
      /\ UNCHANGED <<executing, current_state, priority, preemptible, ready, minor, major>>
  BY DEF ClearStateEnd, At, Pop, Nested, threads, chains
<1>2. /\ StackInv' /\ Top \in Frames /\ IsReady(t)
      /\ (Calling' <=> Calling) /\ (Calling => Bottom' = Bottom)
      /\ \A u : Uncompared(u) => u = t \/ \E i \in 1 .. Len(stack') :
                   stack'[i].pc = "cleared" /\ stack'[i].thread = u
  BY <1>1, PopThen
<1>3. t \in Threads
  BY <1>2 DEF Frames
<1> HIDE DEF t
<1>4. \/ Outranks(t) /\ heir' = t /\ switch' = (switch \/ preemptible[executing] \/ priority[t] = 0)
      \/ ~Outranks(t) /\ heir' = heir /\ switch' = switch
  BY DEF ClearStateEnd, t
<1>5. /\ \A u \in Threads : priority[u] \in Nat
      /\ heir \in Threads /\ executing \in Threads /\ switch \in BOOLEAN
      /\ preemptible[executing] \in BOOLEAN
  BY SMT DEF IInv, ThreadInv, Priorities
<1>6. heir' \in Threads /\ switch' \in BOOLEAN /\ (switch => switch')
  BY <1>3, <1>4, <1>5
<1>7. ChainInv' /\ ThreadInv'
  <2>1. ChainInv'
    BY <1>1, Rests DEF IInv, chains, IsReady
  <2>2. ThreadInv'
    BY <1>1, <1>5, <1>6 DEF IInv, ThreadInv
  <2> QED
    BY <2>1, <2>2
<1>8. Recalculates' <=> Recalculates
  BY <1>1, <1>2 DEF Recalculates
<1>9. HeirInv'
  <2> SUFFICES ASSUME ~Recalculates
               PROVE  /\ current_state[heir'] = {} \/ Leaving(heir)'
                      /\ \A u \in Threads : IsReady(u) =>
                           priority[heir'] <= priority[u] \/ Uncompared(u)'
    BY <1>1, <1>8 DEF HeirInv, IsReady
  <2>1. /\ IsReady(heir) \/ Leaving(heir)
        /\ \A u \in Threads : IsReady(u) => priority[heir] <= priority[u] \/ Uncompared(u)
    BY DEF IInv, HeirInv
  <2>2. CASE Outranks(t)
    <3>1. heir' = t /\ priority[t] < priority[heir]
      BY <1>4, <2>2 DEF Outranks
    <3>2. current_state[heir'] = {}
      BY <1>2, <3>1 DEF IsReady
    <3>3. ASSUME NEW u \in Threads, IsReady(u)
          PROVE  priority[heir'] <= priority[u] \/ Uncompared(u)'
      <4>1. CASE priority[heir] <= priority[u]
        BY <1>3, <1>5, <3>1, <4>1, SMT
      <4>2. CASE u = t
        BY <1>3, <1>5, <3>1, <4>2, SMT
      <4>3. CASE Uncompared(u) /\ u # t
        BY <1>2, <4>3 DEF Uncompared
      <4> QED
        BY <2>1, <3>3, <4>1, <4>2, <4>3
    <3> QED
      BY <3>2, <3>3
  <2>3. CASE ~Outranks(t)
    <3>1. heir' = heir /\ priority[heir] <= priority[t]
      BY <1>3, <1>4, <1>5, <2>3, SMT DEF Outranks
    <3>2. current_state[heir'] = {} \/ Leaving(heir)'
      BY <1>2, <2>1, <3>1 DEF IsReady, Leaving
    <3>3. ASSUME NEW u \in Threads, IsReady(u)
          PROVE  priority[heir'] <= priority[u] \/ Uncompared(u)'
      BY <1>2, <2>1, <3>1, <3>3 DEF Uncompared
    <3> QED
      BY <3>2, <3>3
  <2> QED
    BY <2>2, <2>3
<1>10. ExecutingInv'
  BY <1>1, <1>2, <1>6, <1>8 DEF IInv, ExecutingInv, Leaving, IsReady
<1>11. PreemptInv'
  <2> SUFFICES ASSUME ~Recalculates, ~Leaving(executing)', executing # heir'
               PROVE  switch' \/ (~preemptible[executing] /\ IsReady(executing))
    BY <1>1, <1>8 DEF PreemptInv, IsReady
  <2>1. ~Leaving(executing)
    BY <1>1, <1>2 DEF Leaving
  <2>2. IsReady(executing) \/ switch
    BY <2>1 DEF IInv, ExecutingInv
  <2>3. CASE Outranks(t)
    BY <1>4, <1>5, <2>2, <2>3
  <2>4. CASE ~Outranks(t)
    BY <1>4, <2>1, <2>4 DEF IInv, PreemptInv
  <2> QED
    BY <2>3, <2>4
<1> QED
  BY <1>2, <1>7, <1>9, <1>10, <1>11 DEF IInv

LEMMA RotateEndStep ==
  ASSUME IInv, RotateEnd
  PROVE  IInv'
<1> DEFINE t == Top.thread
<1>1. /\ stack # << >> /\ Top.pc = "rotated" /\ Top.pc \in Nested /\ stack' = Tail(stack)
      /\ UNCHANGED <<executing, current_state, priority, preemptible, ready, minor, major>>
      /\ switch' = TRUE
  BY DEF RotateEnd, At, Pop, Nested, threads, chains
<1>2. /\ StackInv' /\ Top \in Frames /\ IsReady(t)
      /\ (Calling' <=> Calling) /\ (Calling => Bottom' = Bottom)
      /\ \A u : Uncompared(u) => u = t \/ \E i \in 1 .. Len(stack') :
                   stack'[i].pc = "cleared" /\ stack'[i].thread = u
  BY <1>1, PopThen
<1>3. t \in Threads
  BY <1>2 DEF Frames
<1>4. heir' = IF heir = t THEN Head(ready[priority[t]]) ELSE heir
  BY DEF RotateEnd
<1> HIDE DEF t
<1>5. heir \in Threads /\ heir' \in Threads
      /\ (IsReady(heir) => current_state[heir'] = {} /\ priority[heir'] = priority[heir])
      /\ (~IsReady(heir) => heir' = heir)
  <2> DEFINE s == ready[priority[t]]
  <2>1. priority[t] \in Priorities /\ t \in ToSet(s) /\ s \in Seq(Threads)
    BY <1>2, <1>3, NotOnChain DEF IInv
  <2>2. s # << >>
    BY <2>1, SMT DEF ToSet
  <2>3. Head(s) \in ToSet(s) /\ Head(s) \in Threads
    BY <2>1, <2>2, ChainHead
  <2>4. IsReady(Head(s)) /\ priority[Head(s)] = priority[t]
    BY <2>1, <2>3 DEF IInv, ChainInv, ChainsExact
  <2> QED
    BY <1>2, <1>4, <2>3, <2>4 DEF IInv, ThreadInv, IsReady
<1>6. ChainInv' /\ ThreadInv'
  <2>1. ChainInv'
    BY <1>1, Rests DEF IInv, chains, IsReady
  <2>2. ThreadInv'
    BY <1>1, <1>5 DEF IInv, ThreadInv
  <2> QED
    BY <2>1, <2>2
<1>7. Recalculates' <=> Recalculates
  BY <1>1, <1>2 DEF Recalculates
<1>8. \A u : Uncompared(u) => \E i \in 1 .. Len(stack') :
                   stack'[i].pc = "cleared" /\ stack'[i].thread = u
  <2>1. stack \in Seq(Frames) /\ Top = stack[1]
    BY <1>1, SMT DEF IInv, StackInv, Top
  <2> SUFFICES ASSUME NEW u, Uncompared(u)
               PROVE  \E i \in 1 .. Len(stack') :
                        stack'[i].pc = "cleared" /\ stack'[i].thread = u
    OBVIOUS
  <2>2. PICK i \in 1 .. Len(stack) : stack[i].pc = "cleared" /\ stack[i].thread = u
    BY DEF Uncompared
  <2>3. i # 1
    BY <1>1, <2>1, <2>2
  <2>4. i - 1 \in 1 .. Len(stack') /\ stack'[i - 1] = stack[i]
    BY <1>1, <2>1, <2>3, SMT
  <2> QED
    BY <2>2, <2>4
<1>9. HeirInv'
  <2> SUFFICES ASSUME ~Recalculates
               PROVE  /\ current_state[heir'] = {} \/ Leaving(heir)'
                      /\ \A u \in Threads : IsReady(u) =>
                           priority[heir'] <= priority[u] \/ Uncompared(u)'
    BY <1>1, <1>7 DEF HeirInv, IsReady
  <2>1. /\ IsReady(heir) \/ Leaving(heir)
        /\ \A u \in Threads : IsReady(u) => priority[heir] <= priority[u] \/ Uncompared(u)
    BY DEF IInv, HeirInv
  <2>2. current_state[heir'] = {} \/ Leaving(heir)'
    BY <1>2, <1>5, <2>1 DEF IsReady, Leaving
  <2>3. priority[heir'] = priority[heir]
    BY <1>5
  <2>4. ASSUME NEW u \in Threads, IsReady(u)
        PROVE  priority[heir'] <= priority[u] \/ Uncompared(u)'
    BY <1>8, <2>1, <2>3, <2>4 DEF Uncompared
  <2> QED
    BY <2>2, <2>4
<1>10. ExecutingInv' /\ PreemptInv'
  BY <1>1 DEF ExecutingInv, PreemptInv
<1> QED
  BY <1>2, <1>6, <1>9, <1>10 DEF IInv

-----------------------------------------------------------------------------
\* What the routines that thread code called do when no handler runs.

\* ... the routine goes on
LEMMA GotoThen ==
  ASSUME IInv, stack # << >>, Top.pc \notin Nested,
         NEW pc \in {"priority_set", "requeued", "reset", "readied"}, Goto(pc)
  PROVE  /\ [Top EXCEPT !.pc = pc] \in Frames
         /\ stack' = <<[Top EXCEPT !.pc = pc]>>
         /\ [Top EXCEPT !.pc = pc].pc = pc
         /\ [Top EXCEPT !.pc = pc].thread = Top.thread
         /\ pc \notin Nested
<1> DEFINE f == [Top EXCEPT !.pc = pc]
<1>1. Top \in Frames /\ Tail(stack) = << >>
  BY Alone
<1>2. f \in Frames /\ f.pc = pc /\ f.thread = Top.thread
  BY <1>1 DEF Frames
<1>3. stack' = <<f>> \o << >>
  BY <1>1 DEF Goto
<1> HIDE DEF f
<1>4. <<f>> \o << >> = <<f>>
  BY <1>2, SMT
<1>5. pc \notin Nested
  BY DEF Nested
<1> QED
  BY <1>2, <1>3, <1>4, <1>5 DEF f

LEMMA SetStateEndStep ==
  ASSUME IInv, SetStateEnd
  PROVE  IInv'
<1> DEFINE t == Top.thread
<1>1. /\ stack # << >> /\ Top.pc = "set" /\ Top.pc \notin Nested
      /\ UNCHANGED <<executing, current_state, priority, preemptible, ready, minor, major>>
      /\ heir' = (IF heir = t THEN CalculateHeir ELSE heir)
      /\ switch' = (switch \/ executing = t)
  BY DEF SetStateEnd, At, Nested, threads, chains
<1>2. /\ stack' = << >> /\ Calling /\ Bottom = Top /\ \A u : ~Uncompared(u)
  BY <1>1, Alone DEF SetStateEnd, Pop
<1>3. ~Recalculates /\ \A u : Leaving(u) <=> u = t
  BY <1>1, <1>2 DEF Recalculates, Leaving
<1>4. /\ IsReady(heir) \/ heir = t
      /\ \A u \in Threads : IsReady(u) => priority[heir] <= priority[u]
      /\ IsReady(executing) \/ switch \/ executing = t
      /\ executing # t /\ executing # heir =>
           switch \/ (~preemptible[executing] /\ IsReady(executing))
  BY <1>1, <1>2, <1>3 DEF IInv, HeirInv, ExecutingInv, PreemptInv
<1>5. /\ CalculateHeir \in Threads /\ IsReady(CalculateHeir)
      /\ \A u \in Threads : IsReady(u) => priority[CalculateHeir] <= priority[u]
  BY HeirCalculated DEF IInv
<1> HIDE DEF t
<1>6. ChainInv'
  BY <1>1, Rests DEF IInv, chains, IsReady
<1>7. ThreadInv'
  BY <1>1, <1>5 DEF IInv, ThreadInv
<1>8. /\ current_state'[heir'] = {}
      /\ \A u \in Threads : current_state'[u] = {} => priority'[heir'] <= priority'[u]
  BY <1>1, <1>4, <1>5 DEF IsReady
<1>9. current_state'[executing'] = {} \/ switch'
  BY <1>1, <1>4 DEF IsReady
<1>10. executing' # heir' =>
         switch' \/ (~preemptible'[executing'] /\ current_state'[executing'] = {})
  BY <1>1, <1>4 DEF IsReady
<1> QED
  BY <1>2, <1>6, <1>7, <1>8, <1>9, <1>10, RestsThen DEF IInv

LEMMA ReadyEndStep ==
  ASSUME IInv, ReadyEnd
  PROVE  IInv'
<1>1. /\ stack # << >> /\ Top.pc \in {"readied", "requeued"} /\ Top.pc \notin Nested
      /\ UNCHANGED <<executing, current_state, priority, preemptible, ready, minor, major>>
      /\ heir' = CalculateHeir
      /\ switch' = (switch \/ (executing # heir' /\ preemptible[executing]))
  BY DEF ReadyEnd, At, Nested, threads, chains, SwitchIfPreemptible
<1>2. stack' = << >> /\ Calling /\ Bottom = Top
  BY <1>1, Alone DEF ReadyEnd, Pop
<1>3. IsReady(executing) \/ switch
  BY <1>1, <1>2 DEF IInv, ExecutingInv, Leaving, Moving
<1>4. /\ CalculateHeir \in Threads /\ IsReady(CalculateHeir)
      /\ \A u \in Threads : IsReady(u) => priority[CalculateHeir] <= priority[u]
  BY HeirCalculated DEF IInv
<1>5. ChainInv'
  BY <1>1, Rests DEF IInv, chains, IsReady
<1>6. ThreadInv'
  BY <1>1, <1>4 DEF IInv, ThreadInv
<1>7. /\ current_state'[heir'] = {}
      /\ \A u \in Threads : current_state'[u] = {} => priority'[heir'] <= priority'[u]
  BY <1>1, <1>4 DEF IsReady
<1>8. /\ current_state'[executing'] = {} \/ switch'
      /\ executing' # heir' =>
           switch' \/ (~preemptible'[executing'] /\ current_state'[executing'] = {})
  BY <1>1, <1>3 DEF IsReady
<1> QED
  BY <1>2, <1>5, <1>6, <1>7, <1>8, RestsThen DEF IInv

LEMMA SetPriorityStep ==
  ASSUME IInv, SetPriority
  PROVE  IInv'
<1> DEFINE t == Top.thread
           f == [Top EXCEPT !.pc = "priority_set"]
<1>1. /\ stack # << >> /\ Top.pc = "transient" /\ Top.pc \notin Nested /\ Top.pc \in Moving
      /\ UNCHANGED <<current_state, preemptible, chains, heir, executing, switch>>
      /\ priority' = [priority EXCEPT ![t] = Top.priority]
  BY DEF SetPriority, At, Nested, Moving, cpu
<1>2. /\ Top \in Frames /\ Bottom = Top /\ Calling /\ \A u : ~Uncompared(u)
      /\ t # Idle /\ "TRANSIENT" \in current_state[t]
  BY <1>1, Alone
<1>3. f \in Frames /\ stack' = <<f>> /\ f.pc = "priority_set" /\ f.thread = t
      /\ f.pc \notin Nested
  BY <1>1, GotoThen DEF SetPriority
<1>4. t \in Threads /\ Top.priority \in Priorities
  BY <1>2 DEF Frames
<1> HIDE DEF f
<1>5. StackInv' /\ Calling' /\ Bottom' = f
  BY <1>1, <1>2, <1>3, AloneThen
<1>6. Recalculates' <=> Recalculates
  BY <1>1, <1>2, <1>3, <1>5 DEF Recalculates
<1>7. ~IsReady(t) /\ priority' \in [Threads -> Priorities]
      /\ \A u \in Threads : u # t => priority'[u] = priority[u]
  BY <1>1, <1>2, <1>4 DEF IInv, ThreadInv, IsReady
<1>8. ChainInv'
  BY <1>1, <1>7, Rests DEF IInv, IsReady
<1>9. ThreadInv'
  BY <1>1, <1>2, <1>7, SchedulerAssumption DEF IInv, ThreadInv
<1>10. HeirInv'
  <2> SUFFICES ASSUME ~Recalculates
               PROVE  /\ IsReady(heir)
                      /\ \A u \in Threads : IsReady(u) => priority'[heir] <= priority'[u]
    BY <1>1, <1>6 DEF HeirInv, IsReady
  <2>1. IsReady(heir) /\ \A u \in Threads : IsReady(u) => priority[heir] <= priority[u]
    BY <1>1, <1>2 DEF IInv, HeirInv, Leaving
  <2>2. heir \in Threads
    BY DEF IInv, ThreadInv
  <2> QED
    BY <1>7, <2>1, <2>2
<1>11. ExecutingInv' /\ PreemptInv'
  BY <1>1, <1>2, <1>3, <1>5, <1>6 DEF IInv, ExecutingInv, PreemptInv, Leaving, IsReady, Moving
<1> QED
  BY <1>5, <1>8, <1>9, <1>10, <1>11 DEF IInv

LEMMA RequeueStep ==
  ASSUME IInv, Requeue
  PROVE  IInv'
<1> DEFINE t == Top.thread
           f == [Top EXCEPT !.pc = "requeued"]
<1>1. /\ stack # << >> /\ Top.pc = "priority_set" /\ Top.pc \notin Nested /\ Top.pc \in Moving
      /\ UNCHANGED <<priority, preemptible, heir, executing, switch>>
      /\ current_state' = [current_state EXCEPT ![t] = @ \ {"TRANSIENT"}]
  BY DEF Requeue, At, Nested, Moving, cpu
<1>2. /\ Top \in Frames /\ Bottom = Top /\ Calling /\ \A u : ~Uncompared(u)
      /\ t # Idle /\ "TRANSIENT" \in current_state[t] /\ Tail(stack) = << >>
  BY <1>1, Alone
<1>3. t \in Threads
  BY <1>2 DEF Frames
<1>4. /\ current_state \in [Threads -> SUBSET States] /\ ~IsReady(t)
      /\ current_state' \in [Threads -> SUBSET States]
      /\ current_state'[t] = current_state[t] \ {"TRANSIENT"}
      /\ \A u \in Threads : u # t => current_state'[u] = current_state[u]
  BY <1>1, <1>2, <1>3 DEF IInv, ThreadInv, IsReady
<1>5. ThreadInv'
  BY <1>1, <1>2, <1>4, SchedulerAssumption DEF IInv, ThreadInv
<1>6. heir \in Threads /\ executing \in Threads
  BY DEF IInv, ThreadInv
<1>7. CASE current_state[t] # {"TRANSIENT"}
  <2>1. stack' = << >> /\ UNCHANGED chains
    BY <1>2, <1>7 DEF Requeue, Pop
  <2>2. ~Recalculates /\ \A u : ~Leaving(u)
    BY <1>1, <1>2, <1>7 DEF Recalculates, Leaving
  <2>3. \A u \in Threads : current_state'[u] = {} <=> IsReady(u)
    BY <1>2, <1>4, <1>7 DEF IsReady
  <2>4. ChainInv'
    BY <1>1, <2>1, <2>3, Rests DEF IInv
  <2>5. IsReady(heir) /\ \A u \in Threads : IsReady(u) => priority[heir] <= priority[u]
    BY <1>2, <2>2 DEF IInv, HeirInv
  <2>6. /\ IsReady(executing) \/ switch
        /\ executing # heir => switch \/ (~preemptible[executing] /\ IsReady(executing))
    BY <2>2 DEF IInv, ExecutingInv, PreemptInv
  <2>7. /\ current_state'[heir'] = {} /\ (current_state'[executing'] = {} \/ switch')
        /\ \A u \in Threads : current_state'[u] = {} => priority'[heir'] <= priority'[u]
        /\ executing' # heir' =>
             switch' \/ (~preemptible'[executing'] /\ current_state'[executing'] = {})
    BY <1>1, <1>6, <2>3, <2>5, <2>6
  <2> QED
    BY <1>5, <2>1, <2>4, <2>7, RestsThen DEF IInv
<1>8. CASE current_state[t] = {"TRANSIENT"}
  <2>1. Goto("requeued") /\ (AppendReady(t, priority[t]) \/ PrependReady(t, priority[t]))
    BY <1>8 DEF Requeue
  <2>2. f \in Frames /\ stack' = <<f>> /\ f.pc = "requeued" /\ f.thread = t
        /\ f.pc \notin Nested
    BY <1>1, <2>1, GotoThen
  <2> HIDE DEF f
  <2>3. StackInv' /\ Calling' /\ Bottom' = f
    BY <2>2, AloneThen DEF Moving
  <2>4. Recalculates'
    BY <2>2, <2>3 DEF Recalculates
  <2>5. \A u \in Threads : current_state'[u] = {} <=> IsReady(u) \/ u = t
    BY <1>4, <1>8 DEF IsReady
  <2>6. ChainInv'
    BY <1>1, <1>3, <1>4, <2>1, <2>5, Joins DEF IInv
  <2>7. HeirInv' /\ PreemptInv'
    BY <2>4 DEF HeirInv, PreemptInv
  <2>8. ExecutingInv'
    BY <1>1, <1>2, <1>6, <2>5 DEF IInv, ExecutingInv, Leaving, IsReady
  <2> QED
    BY <1>5, <2>3, <2>6, <2>7, <2>8 DEF IInv
<1> QED
  BY <1>7, <1>8

LEMMA ResetPriorityStep ==
  ASSUME IInv, ResetPriority
  PROVE  IInv'
<1> DEFINE t == Top.thread
           f == [Top EXCEPT !.pc = "reset"]
<1>1. /\ stack # << >> /\ Top.pc = "restarting" /\ Top.pc \notin Nested /\ Top.pc \in Moving
      /\ UNCHANGED <<preemptible, chains, heir, executing, switch>>
      /\ priority' = [priority EXCEPT ![t] = Top.priority]
      /\ current_state' = [current_state EXCEPT ![t] = @ \ {"BLOCKED"}]
  BY DEF ResetPriority, At, Nested, Moving, cpu
<1>2. /\ Top \in Frames /\ Bottom = Top /\ Calling
      /\ t # Idle /\ "TRANSIENT" \in current_state[t]
  BY <1>1, Alone
<1>3. f \in Frames /\ stack' = <<f>> /\ f.pc = "reset" /\ f.thread = t
      /\ f.pc \notin Nested
  BY <1>1, GotoThen DEF ResetPriority
<1>4. t \in Threads /\ Top.priority \in Priorities
  BY <1>2 DEF Frames
<1> HIDE DEF f
<1>5. /\ ~IsReady(t) /\ priority' \in [Threads -> Priorities]
      /\ \A u \in Threads : u # t => priority'[u] = priority[u]
      /\ current_state' \in [Threads -> SUBSET States]
      /\ current_state'[t] = current_state[t] \ {"BLOCKED"}
      /\ \A u \in Threads : u # t => current_state'[u] = current_state[u]
  BY <1>1, <1>2, <1>4 DEF IInv, ThreadInv, IsReady
<1>6. "TRANSIENT" \in current_state'[t]
  BY <1>2, <1>5
<1>7. \A u \in Threads : current_state'[u] = {} <=> IsReady(u)
  BY <1>5, <1>6 DEF IsReady
<1>8. StackInv' /\ Calling' /\ Bottom' = f
  BY <1>2, <1>3, <1>6, AloneThen
<1>9. Recalculates'
  BY <1>3, <1>8 DEF Recalculates
<1>10. ChainInv'
  BY <1>1, <1>5, <1>7, Rests DEF IInv, IsReady
<1>11. ThreadInv'
  BY <1>1, <1>2, <1>5, SchedulerAssumption DEF IInv, ThreadInv
<1>12. HeirInv' /\ PreemptInv'
  BY <1>9 DEF HeirInv, PreemptInv
<1>13. ExecutingInv'
  <2>1. IsReady(executing) \/ switch \/ executing = t
    BY <1>1, <1>2 DEF IInv, ExecutingInv, Leaving
  <2>2. executing \in Threads
    BY DEF IInv, ThreadInv
  <2> QED
    BY <1>1, <1>3, <1>7, <1>8, <1>9, <2>1, <2>2 DEF ExecutingInv, Moving, IsReady
<1> QED
  BY <1>8, <1>10, <1>11, <1>12, <1>13 DEF IInv

LEMMA RestartReadyStep ==
  ASSUME IInv, RestartReady
  PROVE  IInv'
<1> DEFINE t == Top.thread
           f == [Top EXCEPT !.pc = "readied"]
<1>1. /\ stack # << >> /\ Top.pc = "reset" /\ Top.pc \notin Nested /\ Top.pc \in Moving
      /\ UNCHANGED <<priority, preemptible, heir, executing, switch>>
      /\ current_state' = [current_state EXCEPT ![t] = {}]
      /\ AppendReady(t, priority[t])
  BY DEF RestartReady, MakeReady, At, Nested, Moving, cpu
<1>2. /\ Top \in Frames /\ Bottom = Top /\ Calling
      /\ t # Idle /\ "TRANSIENT" \in current_state[t]
  BY <1>1, Alone
<1>3. f \in Frames /\ stack' = <<f>> /\ f.pc = "readied" /\ f.thread = t
      /\ f.pc \notin Nested
  BY <1>1, GotoThen DEF RestartReady
<1>4. t \in Threads
  BY <1>2 DEF Frames
<1> HIDE DEF f
<1>5. StackInv' /\ Calling' /\ Bottom' = f
  BY <1>3, AloneThen DEF Moving
<1>6. Recalculates'
  BY <1>3, <1>5 DEF Recalculates
<1>7. /\ ~IsReady(t) /\ current_state' \in [Threads -> SUBSET States]
      /\ \A u \in Threads : current_state'[u] = {} <=> IsReady(u) \/ u = t
  BY <1>1, <1>2, <1>4 DEF IInv, ThreadInv, IsReady
<1>8. ChainInv'
  BY <1>1, <1>4, <1>7, Joins DEF IInv
<1>9. ThreadInv'
  BY <1>1, <1>7, SchedulerAssumption DEF IInv, ThreadInv, IsReady
<1>10. HeirInv' /\ PreemptInv'
  BY <1>6 DEF HeirInv, PreemptInv
<1>11. ExecutingInv'
  <2>1. executing \in Threads
    BY DEF IInv, ThreadInv
  <2> QED
    BY <1>1, <1>2, <1>7, <2>1 DEF IInv, ExecutingInv, Leaving, IsReady
<1> QED
  BY <1>5, <1>8, <1>9, <1>10, <1>11 DEF IInv

-----------------------------------------------------------------------------
\* Thread code, which runs when nothing is in progress.

LEMMA StartStep ==
  ASSUME IInv, NEW t \in Threads, Start(t)
  PROVE  IInv'
<1> DEFINE f == [pc |-> "readied", thread |-> t, priority |-> 0, prepend |-> FALSE]
<1>1. /\ stack = << >> /\ ~switch /\ "DORMANT" \in current_state[t]
      /\ UNCHANGED <<priority, preemptible, heir, executing, switch>>
      /\ current_state' = [current_state EXCEPT ![t] = {}]
      /\ AppendReady(t, priority[t])
  BY DEF Start, InThread, MakeReady, cpu
<1>2. f \in Frames /\ stack' = <<f>> /\ f.pc = "readied" /\ f.pc \notin Nested
      /\ f.pc \notin Moving
  BY <1>1, SchedulerAssumption, SMT DEF Start, Push, Frames, Priorities, Nested, Moving
<1> HIDE DEF f
<1>3. StackInv' /\ Calling' /\ Bottom' = f
  BY <1>2, AloneThen
<1>4. Recalculates'
  BY <1>2, <1>3 DEF Recalculates
<1>5. /\ ~IsReady(t) /\ current_state' \in [Threads -> SUBSET States]
      /\ \A u \in Threads : current_state'[u] = {} <=> IsReady(u) \/ u = t
  BY <1>1 DEF IInv, ThreadInv, IsReady
<1>6. ChainInv'
  BY <1>1, <1>5, Joins DEF IInv
<1>7. ThreadInv'
  BY <1>1, <1>5, SchedulerAssumption DEF IInv, ThreadInv, IsReady
<1>8. HeirInv' /\ PreemptInv'
  BY <1>4 DEF HeirInv, PreemptInv
<1>9. ExecutingInv'
  <2>1. executing \in Threads /\ IsReady(executing)
    BY <1>1, AtRest DEF IInv, ThreadInv
  <2> QED
    BY <1>1, <1>5, <2>1 DEF ExecutingInv, IsReady
<1> QED
  BY <1>3, <1>6, <1>7, <1>8, <1>9 DEF IInv

\* _Thread_Set_state, of a thread other than the idle thread
LEMMA SetStateStep ==
  ASSUME IInv, NEW t \in Threads, NEW x \in {"BLOCKED", "SUSPENDED"}, InThread,
         t # Idle, SetState(t, x)
  PROVE  IInv'
<1> DEFINE f == [pc |-> "set", thread |-> t, priority |-> 0, prepend |-> FALSE]
<1>1. /\ stack = << >> /\ ~switch
      /\ UNCHANGED <<priority, preemptible, heir, executing, switch>>
      /\ current_state' = [current_state EXCEPT ![t] = @ \cup {x}]
  BY DEF InThread, SetState, cpu
<1>2. /\ current_state' \in [Threads -> SUBSET States]
      /\ current_state'[t] = current_state[t] \cup {x}
      /\ \A u \in Threads : u # t => current_state'[u] = current_state[u]
  BY <1>1 DEF IInv, ThreadInv, States
<1>3. \A u \in Threads : current_state'[u] = {} <=> IsReady(u) /\ u # t
  BY <1>2 DEF IsReady
<1>4. ThreadInv'
  BY <1>1, <1>2, SchedulerAssumption DEF IInv, ThreadInv
<1>5. /\ heir \in Threads /\ executing \in Threads
      /\ IsReady(heir) /\ IsReady(executing)
      /\ \A u \in Threads : IsReady(u) => priority[heir] <= priority[u]
      /\ executing # heir => ~preemptible[executing]
  BY <1>1, AtRest DEF IInv, ThreadInv
<1>6. CASE IsReady(t)
  <2>1. Unready(t) /\ Push("set", t)
    BY <1>6 DEF SetState
  <2>2. f \in Frames /\ stack' = <<f>> /\ f.pc = "set" /\ f.thread = t
        /\ f.pc \notin Nested /\ f.pc \notin Moving
    BY <1>1, <2>1, SchedulerAssumption, SMT DEF Push, Frames, Priorities, Nested, Moving
  <2> HIDE DEF f
  <2>3. StackInv' /\ Calling' /\ Bottom' = f
    BY <2>2, AloneThen
  <2>4. ~Recalculates' /\ (t = heir => Leaving(heir)') /\ (t = executing => Leaving(executing)')
    BY <1>1, <2>2, <2>3 DEF Recalculates, Leaving
  <2>5. ChainInv'
    BY <1>1, <1>3, <1>6, <2>1, Leaves DEF IInv
  <2>6. HeirInv'
    BY <1>1, <1>3, <1>5, <2>4 DEF HeirInv, IsReady
  <2>7. ExecutingInv' /\ PreemptInv'
    BY <1>1, <1>3, <1>5, <2>4 DEF ExecutingInv, PreemptInv, IsReady
  <2> QED
    BY <1>4, <2>3, <2>5, <2>6, <2>7 DEF IInv
<1>7. CASE ~IsReady(t)
  <2>1. UNCHANGED chains /\ stack' = << >>
    BY <1>1, <1>7 DEF SetState
  <2>2. \A u \in Threads : current_state'[u] = {} <=> IsReady(u)
    BY <1>3, <1>7
  <2>3. ChainInv'
    BY <1>1, <2>1, <2>2, Rests DEF IInv
  <2>4. /\ current_state'[heir'] = {} /\ current_state'[executing'] = {}
        /\ \A u \in Threads : current_state'[u] = {} => priority'[heir'] <= priority'[u]
        /\ executing' # heir' => ~preemptible'[executing'] /\ current_state'[executing'] = {}
    BY <1>1, <1>5, <2>2
  <2> QED
    BY <1>4, <2>1, <2>3, <2>4, RestsThen DEF IInv
<1> QED
  BY <1>6, <1>7

\* A thread is marked transient and a routine pushed that moves it, by a priority
\* change or by a restart.
LEMMA SetTransientStep ==
  ASSUME IInv, NEW t \in Threads, InThread, t # Idle, SetTransient(t),
         NEW f \in Frames, stack' = <<f>>, f.pc \in {"transient", "restarting"},
         f.thread = t,
         UNCHANGED <<priority, cpu>>, preemptible' \in [Threads -> BOOLEAN],
         f.pc = "transient" => UNCHANGED preemptible
  PROVE  IInv'
<1>1. /\ stack = << >> /\ ~switch
      /\ UNCHANGED <<priority, heir, executing, switch>>
      /\ current_state' = [current_state EXCEPT ![t] = @ \cup {"TRANSIENT"}]
      /\ f.pc \notin Nested /\ f.pc \in Moving
  BY DEF InThread, SetTransient, cpu, Nested, Moving
<1>2. /\ current_state' \in [Threads -> SUBSET States]
      /\ current_state'[t] = current_state[t] \cup {"TRANSIENT"}
      /\ \A u \in Threads : u # t => current_state'[u] = current_state[u]
  BY <1>1 DEF IInv, ThreadInv, States
<1>3. \A u \in Threads : current_state'[u] = {} <=> IsReady(u) /\ u # t
  BY <1>2 DEF IsReady
<1>4. ThreadInv'
  BY <1>1, <1>2, SchedulerAssumption DEF IInv, ThreadInv
<1>5. /\ heir \in Threads /\ executing \in Threads
      /\ IsReady(heir) /\ IsReady(executing)
      /\ \A u \in Threads : IsReady(u) => priority[heir] <= priority[u]
      /\ executing # heir => ~preemptible[executing]
  BY <1>1, AtRest DEF IInv, ThreadInv
<1>6. StackInv' /\ Calling' /\ Bottom' = f
  BY <1>1, <1>2, AloneThen
<1>7. f.pc = "restarting" \/ IsReady(t) => Recalculates'
  BY <1>2, <1>6 DEF Recalculates, IsReady
<1>8. ChainInv'
  <2>1. CASE IsReady(t)
    BY <1>1, <1>3, <2>1, Leaves DEF IInv, SetTransient
  <2>2. CASE ~IsReady(t)
    <3>1. \A u \in Threads : current_state'[u] = {} <=> IsReady(u)
      BY <1>3, <2>2
    <3> QED
      BY <1>1, <2>2, <3>1, Rests DEF IInv, SetTransient
  <2> QED
    BY <2>1, <2>2
<1>9. HeirInv' /\ PreemptInv'
  <2>1. CASE Recalculates'
    BY <2>1 DEF HeirInv, PreemptInv
  <2>2. CASE ~Recalculates'
    <3>1. f.pc = "transient" /\ t # heir /\ t # executing /\ UNCHANGED preemptible
      BY <1>5, <1>7, <2>2
    <3> QED
      BY <1>1, <1>3, <1>5, <3>1 DEF HeirInv, PreemptInv, IsReady
  <2> QED
    BY <2>1, <2>2
<1>10. ExecutingInv'
  BY <1>1, <1>3, <1>5, <1>6, <1>7 DEF ExecutingInv, IsReady
<1> QED
  BY <1>4, <1>6, <1>8, <1>9, <1>10 DEF IInv

LEMMA YieldAloneStep ==
  ASSUME IInv, InThread, YieldAlone
  PROVE  IInv'
<1>1. /\ stack = << >> /\ stack' = << >> /\ switch' = TRUE
      /\ UNCHANGED <<heir, executing, current_state, priority, preemptible, chains>>
  BY DEF InThread, YieldAlone, threads
<1>2. ThreadInv'
  BY <1>1 DEF IInv, ThreadInv
<1>3. ChainInv'
  BY <1>1, Rests DEF IInv, IsReady
<1>4. IsReady(heir) /\ \A u \in Threads : IsReady(u) => priority[heir] <= priority[u]
  BY <1>1, AtRest
<1> QED
  BY <1>1, <1>2, <1>3, <1>4, RestsThen DEF IInv, IsReady

LEMMA ModeStep ==
  ASSUME IInv, NEW b \in BOOLEAN, Mode(b)
  PROVE  IInv'
<1>1. /\ stack = << >> /\ stack' = << >> /\ ~switch
      /\ UNCHANGED <<heir, executing, current_state, priority, chains>>
      /\ preemptible' = [preemptible EXCEPT ![executing] = b]
      /\ switch' = (~IsReady(executing) \/ (heir # executing /\ b))
  BY DEF InThread, Mode
<1>2. executing \in Threads /\ heir \in Threads /\ preemptible'[executing] = b
  BY <1>1 DEF IInv, ThreadInv
<1>3. ThreadInv'
  BY <1>1 DEF IInv, ThreadInv
<1>4. ChainInv'
  BY <1>1, Rests DEF IInv, IsReady
<1>5. /\ IsReady(heir) /\ IsReady(executing)
      /\ \A u \in Threads : IsReady(u) => priority[heir] <= priority[u]
  BY <1>1, AtRest
<1>6. executing' # heir' => switch' \/ ~preemptible'[executing']
  BY <1>1, <1>2
<1> QED
  BY <1>1, <1>3, <1>4, <1>5, <1>6, RestsThen DEF IInv, IsReady

LEMMA DispatchStep ==
  ASSUME IInv, Dispatch
  PROVE  IInv'
<1>1. /\ stack = << >> /\ stack' = << >> /\ switch' = FALSE /\ executing' = heir
      /\ UNCHANGED <<heir, current_state, priority, preemptible, chains>>
  BY DEF Dispatch, threads
<1>2. ThreadInv'
  BY <1>1 DEF IInv, ThreadInv
<1>3. ChainInv'
  BY <1>1, Rests DEF IInv, IsReady
<1>4. IsReady(heir) /\ \A u \in Threads : IsReady(u) => priority[heir] <= priority[u]
  BY <1>1, AtRest
<1> QED
  BY <1>1, <1>2, <1>3, <1>4, RestsThen DEF IInv, IsReady

-----------------------------------------------------------------------------
LEMMA IInvInit ==
  ASSUME Init
  PROVE  IInv
<1>1. Idle \in Threads /\ Lowest \in Priorities
  BY SchedulerAssumption, SMT DEF Priorities
<1>2. /\ \A t \in Threads : current_state[t] = {} <=> t = Idle
      /\ \A t \in Threads : t = Idle <=> priority[t] = Lowest
  BY DEF Init
<1>3. ThreadInv
  BY <1>1 DEF Init, ThreadInv, States
<1>4. ready \in [Priorities -> Seq(Threads)]
  <2>1. <<Idle>> \in Seq(Threads) /\ << >> \in Seq(Threads)
    BY <1>1, SMT
  <2> QED
    BY <2>1 DEF Init
<1>5. ready[Lowest] = <<Idle>> /\ \A p \in Priorities : p # Lowest => ready[p] = << >>
  BY <1>1 DEF Init
<1>6. ChainsExact
  <2> SUFFICES ASSUME NEW p \in Priorities
               PROVE  /\ IsInjective(ready[p])
                      /\ ToSet(ready[p]) = {t \in Threads : IsReady(t) /\ priority[t] = p}
    BY DEF ChainsExact
  <2>1. CASE p = Lowest
    <3>1. IsInjective(<<Idle>>) /\ ToSet(<<Idle>>) = {Idle}
      BY SMT DEF IsInjective, ToSet
    <3> QED
      BY <1>1, <1>2, <1>5, <2>1, <3>1 DEF IsReady
  <2>2. CASE p # Lowest
    <3>1. IsInjective(<< >>) /\ ToSet(<< >>) = {}
      BY SMT DEF IsInjective, ToSet
    <3> QED
      BY <1>2, <1>5, <2>2, <3>1 DEF IsReady
  <2> QED
    BY <2>1, <2>2
<1>7. minor = {p \in Priorities : ready[p] # << >>}
  BY <1>1, <1>5 DEF Init
<1>8. major = {Group(p) : p \in minor}
  BY DEF Init, Group
<1>9. ChainInv
  BY <1>4, <1>6, <1>7, <1>8 DEF ChainInv
<1>10. stack = << >> /\ heir = Idle /\ executing = Idle
  BY DEF Init
<1>11. StackInv /\ ~Calling
  BY <1>10, SMT DEF StackInv, Calling
<1>12. IsReady(Idle) /\ \A t \in Threads : IsReady(t) => priority[Idle] <= priority[t]
  BY <1>1, <1>2, SMT DEF IsReady, Init, Priorities
<1>13. HeirInv /\ ExecutingInv /\ PreemptInv
  BY <1>10, <1>12 DEF HeirInv, ExecutingInv, PreemptInv
<1> QED
  BY <1>3, <1>9, <1>11, <1>13 DEF IInv

LEMMA IInvStutters ==
  ASSUME IInv, UNCHANGED vars
  PROVE  IInv'
<1>1. UNCHANGED <<current_state, priority, preemptible, ready, minor, major, heir,
                  executing, switch, stack>>
  BY DEF vars, threads, chains, cpu
<1>2. ChainInv'
  BY <1>1, Rests DEF IInv, IsReady, chains
<1>3. ThreadInv' /\ StackInv'
  BY <1>1, SMTT(30) DEF IInv, ThreadInv, StackInv, IsReady
<1>4. HeirInv' /\ ExecutingInv' /\ PreemptInv'
  BY <1>1 DEF IInv, HeirInv, ExecutingInv, PreemptInv, Recalculates, Leaving, Calling,
              Bottom, Uncompared, IsReady
<1> QED
  BY <1>2, <1>3, <1>4 DEF IInv

LEMMA IInvNext ==
  ASSUME HandlersSuspend = FALSE, IInv, [Next]_vars
  PROVE  IInv'
<1>1. CASE UNCHANGED vars
  BY <1>1, IInvStutters
<1>2. ASSUME NEW t \in Threads, NEW x \in {"BLOCKED", "SUSPENDED"}, ClearState(t, x)
      PROVE  IInv'
  BY <1>2, ClearStateStep
<1>3. ASSUME NEW t \in Threads, Suspend(t)
      PROVE  IInv'
  <2>1. InThread /\ t # Idle /\ SetState(t, "SUSPENDED")
    BY <1>3 DEF Suspend
  <2> QED
    BY <2>1, SetStateStep
<1>4. ASSUME NEW t \in Threads, Start(t)
      PROVE  IInv'
  BY <1>4, StartStep
<1>5. ASSUME NEW t \in Threads, NEW p \in Priorities \ {Lowest}, Restart(t, p)
      PROVE  IInv'
  <2> DEFINE f == [pc |-> "restarting", thread |-> t, priority |-> p, prepend |-> FALSE]
  <2>1. f \in Frames /\ f.pc = "restarting" /\ f.thread = t
    BY DEF Frames
  <2>2. /\ InThread /\ t # Idle /\ SetTransient(t) /\ stack' = <<f>>
        /\ UNCHANGED <<priority, cpu>> /\ preemptible' \in [Threads -> BOOLEAN]
    BY <1>5 DEF Restart, IInv, ThreadInv
  <2> HIDE DEF f
  <2> QED
    BY <2>1, <2>2, SetTransientStep
<1>6. ASSUME NEW t \in Threads, NEW p \in Priorities \ {Lowest}, NEW prepend \in BOOLEAN,
             ChangePriority(t, p, prepend)
      PROVE  IInv'
  <2> DEFINE f == [pc |-> "transient", thread |-> t, priority |-> p, prepend |-> prepend]
  <2>1. f \in Frames /\ f.pc = "transient" /\ f.thread = t
    BY DEF Frames
  <2>2. /\ InThread /\ t # Idle /\ SetTransient(t) /\ stack' = <<f>>
        /\ UNCHANGED <<priority, cpu>> /\ UNCHANGED preemptible
        /\ preemptible' \in [Threads -> BOOLEAN]
    BY <1>6 DEF ChangePriority, IInv, ThreadInv
  <2> HIDE DEF f
  <2> QED
    BY <2>1, <2>2, SetTransientStep
<1>7. CASE ClearStateEnd \/ SetStateEnd \/ ReadyEnd \/ RotateEnd
  BY <1>7, ClearStateEndStep, SetStateEndStep, ReadyEndStep, RotateEndStep
<1>8. CASE Block
  <2>1. InThread /\ executing \in Threads /\ executing # Idle /\ SetState(executing, "BLOCKED")
    BY <1>8 DEF Block, IInv, ThreadInv
  <2> QED
    BY <2>1, SetStateStep
<1>9. CASE SetPriority \/ Requeue \/ ResetPriority \/ RestartReady
  BY <1>9, SetPriorityStep, RequeueStep, ResetPriorityStep, RestartReadyStep
<1>10. CASE Yield
  <2>1. IsReady(executing)
    BY <1>10, AtRest DEF Yield, InThread
  <2> QED
    BY <1>10, <2>1, RotateStep, YieldAloneStep DEF Yield
<1>11. CASE TickleTimeslice
  BY <1>11, RotateStep DEF TickleTimeslice, Tickles
<1>12. ASSUME NEW b \in BOOLEAN, Mode(b)
       PROVE  IInv'
  BY <1>12, ModeStep
<1>13. CASE Dispatch
  BY <1>13, DispatchStep
<1> QED
  BY <1>1, <1>2, <1>3, <1>4, <1>5, <1>6, <1>7, <1>8, <1>9, <1>10, <1>11, <1>12, <1>13, SMTT(30)
  DEF Next

\* As long as handlers do not suspend threads, the chains and the bit maps are
\* exact at every flash of _Thread_Set_state, _Thread_Change_priority and the rest.
THEOREM ReadyChainsExact ==
  ASSUME HandlersSuspend = FALSE
  PROVE  Spec => []ChainsExact
<1>1. Init => IInv
  BY IInvInit
<1>2. IInv /\ [Next]_vars => IInv'
  BY IInvNext
<1>3. IInv => ChainsExact
  BY SMT DEF IInv, ChainInv
<1> QED
  BY <1>1, <1>2, <1>3, PTL DEF Spec

\* _Thread_Heir is the highest of the ready threads whenever no routine of the
\* thread handler is in progress: what _Priority_Get_highest finds in the bit maps
\* and what _Thread_Clear_state compares come to the same thread.
THEOREM HeirHighest ==
  ASSUME HandlersSuspend = FALSE
  PROVE  Spec => []HeirIsHighest
<1>1. Init => IInv
  BY IInvInit
<1>2. IInv /\ [Next]_vars => IInv'
  BY IInvNext
<1>3. IInv => HeirIsHighest
  BY AtRest, SMT DEF HeirIsHighest
<1> QED
  BY <1>1, <1>2, <1>3, PTL DEF Spec

\* When the routines of the thread handler are done, _Context_Switch_necessary is
\* set unless the processor is where it belongs or may not be taken.
THEOREM PreemptionNotMissed ==
  ASSUME HandlersSuspend = FALSE
  PROVE  Spec => []NoMissedPreemption
<1>1. Init => IInv
  BY IInvInit
<1>2. IInv /\ [Next]_vars => IInv'
  BY IInvNext
<1>3. IInv => NoMissedPreemption
  BY AtRest DEF NoMissedPreemption
<1> QED
  BY <1>1, <1>2, <1>3, PTL DEF Spec
=============================================================================
