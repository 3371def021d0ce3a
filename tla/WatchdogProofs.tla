--------------------------- MODULE WatchdogProofs ---------------------------
(***************************************************************************)
(* Proofs about the watchdog handler for any number of watchdogs, any set  *)
(* of intervals and any depth of interrupt nesting.                        *)
(***************************************************************************)
EXTENDS Watchdog, FiniteSetTheorems, TLAPS, NaturalsInduction

\* Zenon is tried on every leaf that names no other prover.
USE Zenon

USE DEF Levels, Nodes, States

\* The levels that are inserting form a finite set.
LEMMA InsertingFinite ==
  ASSUME NEW F
  PROVE  /\ IsFiniteSet({l \in Levels : F[l].pc \in {"enter", "flash"}})
         /\ Cardinality({l \in Levels : F[l].pc \in {"enter", "flash"}}) \in Nat
<1>1. IsFiniteSet(Levels)
  BY FS_Interval, WatchdogAssumption, SMT
<1> QED
  BY <1>1, FS_Subset, FS_CardinalityType

\* A level that stops inserting takes one off the count.
LEMMA OneLessInserting ==
  ASSUME NEW F, NEW G, NEW k \in Levels,
         F[k].pc \in {"enter", "flash"}, G[k].pc \notin {"enter", "flash"},
         \A l \in Levels : l # k => G[l] = F[l]
  PROVE  Cardinality({l \in Levels : G[l].pc \in {"enter", "flash"}})
           = Cardinality({l \in Levels : F[l].pc \in {"enter", "flash"}}) - 1
<1> DEFINE S == {l \in Levels : F[l].pc \in {"enter", "flash"}}
           T == {l \in Levels : G[l].pc \in {"enter", "flash"}}
<1>1. T = S \ {k}
  OBVIOUS
<1>2. IsFiniteSet(S)
  BY InsertingFinite
<1> HIDE DEF T
<1> QED
  BY <1>1, <1>2, FS_RemoveElement DEF T

\* A level that starts inserting adds one to the count.
LEMMA OneMoreInserting ==
  ASSUME NEW F, NEW G, NEW k \in Levels,
         F[k].pc \notin {"enter", "flash"}, G[k].pc \in {"enter", "flash"},
         \A l \in Levels : l # k => G[l] = F[l]
  PROVE  Cardinality({l \in Levels : G[l].pc \in {"enter", "flash"}})
           = Cardinality({l \in Levels : F[l].pc \in {"enter", "flash"}}) + 1
<1> DEFINE S == {l \in Levels : F[l].pc \in {"enter", "flash"}}
           T == {l \in Levels : G[l].pc \in {"enter", "flash"}}
<1>1. T = S \cup {k} /\ k \notin S
  OBVIOUS
<1>2. IsFiniteSet(S)
  BY InsertingFinite
<1> HIDE DEF T
<1> QED
  BY <1>1, <1>2, FS_AddElement DEF T

\* Levels that keep inserting or not inserting keep the count.
LEMMA SameInserting ==
  ASSUME NEW F, NEW G,
         \A l \in Levels : F[l].pc \in {"enter", "flash"}
                             <=> G[l].pc \in {"enter", "flash"}
  PROVE  Cardinality({l \in Levels : G[l].pc \in {"enter", "flash"}})
           = Cardinality({l \in Levels : F[l].pc \in {"enter", "flash"}})
<1>1. {l \in Levels : G[l].pc \in {"enter", "flash"}}
        = {l \in Levels : F[l].pc \in {"enter", "flash"}}
  OBVIOUS
<1> QED
  BY <1>1

\* While some level is inserting, the sync count is positive.
LEMMA SyncCountPositive ==
  ASSUME SyncCountExact, NEW k \in Levels, Inserting(k)
  PROVE  sync_count \in Nat /\ sync_count # 0
<1> DEFINE S == {l \in Levels : frame[l].pc \in {"enter", "flash"}}
<1>1. IsFiniteSet(S) /\ k \in S /\ Cardinality(S) \in Nat
  BY InsertingFinite DEF Inserting
<1>2. sync_count = Cardinality(S)
  BY DEF SyncCountExact, Inserting
<1>3. S # {}
  BY <1>1
<1> HIDE DEF S
<1> QED
  BY <1>1, <1>2, <1>3, FS_EmptySet

-----------------------------------------------------------------------------
\* _Watchdog_Remove keeps the chain well linked, touches the state of no other
\* watchdog, and reports a change of the chain in the sync level.
LEMMA RemoveLemma ==
  ASSUME TypeOK, ChainLinked, NEW w \in Watchdogs, NEW lv \in Levels,
         Remove(w, lv)
  PROVE  /\ state' \in [Watchdogs -> States]
         /\ delta_interval' \in [Watchdogs -> Nat]
         /\ next' \in [Nodes -> Nodes \cup {NULL}]
         /\ previous' \in [Nodes -> Nodes \cup {NULL}]
         /\ sync_level' \in Levels
         /\ remaining' \in [Watchdogs -> Nat]
         /\ state' = [state EXCEPT ![w] = "INACTIVE"]
         /\ ChainLinked'
         /\ OnChain(w) /\ sync_count # 0 => sync_level' = lv
         /\ ~OnChain(w) \/ sync_count = 0 => sync_level' = sync_level
<1> USE WatchdogAssumption
<1>1. /\ state' = [state EXCEPT ![w] = "INACTIVE"]
      /\ state' \in [Watchdogs -> States]
      /\ remaining' \in [Watchdogs -> Nat]
  BY DEF Remove, TypeOK
<1>2. CASE ~OnChain(w)
  <2>1. UNCHANGED <<next, previous, delta_interval, sync_level>>
    BY <1>2 DEF Remove
  <2>2. \A v \in Watchdogs : OnChain(v)' <=> OnChain(v)
    BY <1>1, <1>2 DEF OnChain, TypeOK
  <2>3. ChainLinked'
    BY <2>1, <2>2 DEF ChainLinked
  <2> QED
    BY <1>1, <1>2, <2>1, <2>3 DEF TypeOK
<1>3. CASE OnChain(w)
  <2>1. /\ next' = [next EXCEPT ![previous[w]] = next[w]]
        /\ previous' = [previous EXCEPT ![next[w]] = previous[w]]
        /\ sync_level' = IF sync_count # 0 THEN lv ELSE sync_level
        /\ delta_interval' =
             IF next[w] = TAIL THEN delta_interval
             ELSE [delta_interval EXCEPT ![next[w]] = @ + delta_interval[w]]
    BY <1>3 DEF Remove, Extract, Inherited, Told
  <2>2. /\ next[w] = TAIL \/ (next[w] \in Watchdogs /\ OnChain(next[w]))
        /\ previous[next[w]] = w
        /\ previous[w] = HEAD \/ (previous[w] \in Watchdogs /\ OnChain(previous[w]))
        /\ next[previous[w]] = w
    BY <1>3 DEF ChainLinked
  <2>3. /\ delta_interval' \in [Watchdogs -> Nat]
        /\ next' \in [Nodes -> Nodes \cup {NULL}]
        /\ previous' \in [Nodes -> Nodes \cup {NULL}]
        /\ sync_level' \in Levels
    BY <2>1, <2>2, SMT DEF TypeOK
  <2>4. \A v \in Watchdogs : OnChain(v)' <=> OnChain(v) /\ v # w
    BY <1>1, <1>3 DEF OnChain, TypeOK
  <2>5. ASSUME NEW n \in Watchdogs \cup {HEAD}, n = HEAD \/ OnChain(n)'
        PROVE  /\ next'[n] = TAIL
                    \/ (next'[n] \in Watchdogs /\ OnChain(next[n])')
               /\ previous'[next'[n]] = n
    <3>1. n # w /\ (n = HEAD \/ OnChain(n))
      BY <2>4, <2>5
    <3>2. /\ next[n] = TAIL \/ (next[n] \in Watchdogs /\ OnChain(next[n]))
          /\ previous[next[n]] = n
      BY <3>1 DEF ChainLinked
    <3>3. CASE n = previous[w]
      BY <3>1, <3>2, <3>3, <2>1, <2>2, <2>4 DEF TypeOK
    <3>4. CASE n # previous[w]
      BY <3>1, <3>2, <3>4, <2>1, <2>2, <2>4, SMTT(30) DEF TypeOK
    <3> QED
      BY <3>3, <3>4
  <2>6. ASSUME NEW n \in Watchdogs \cup {TAIL}, n = TAIL \/ OnChain(n)'
        PROVE  /\ previous'[n] = HEAD
                    \/ (previous'[n] \in Watchdogs /\ OnChain(previous[n])')
               /\ next'[previous'[n]] = n
    <3>1. n # w /\ (n = TAIL \/ OnChain(n))
      BY <2>4, <2>6
    <3>2. /\ previous[n] = HEAD
               \/ (previous[n] \in Watchdogs /\ OnChain(previous[n]))
          /\ next[previous[n]] = n
      BY <3>1 DEF ChainLinked
    <3>3. CASE n = next[w]
      BY <3>1, <3>2, <3>3, <2>1, <2>2, <2>4 DEF TypeOK
    <3>4. CASE n # next[w]
      BY <3>1, <3>2, <3>4, <2>1, <2>2, <2>4, SMTT(30) DEF TypeOK
    <3> QED
      BY <3>3, <3>4
  <2>7. next'[TAIL] = NULL
    BY <2>1, <2>2 DEF ChainLinked, TypeOK
  <2>8. ChainLinked'
    BY <2>5, <2>6, <2>7 DEF ChainLinked
  <2> QED
    BY <1>1, <1>3, <2>1, <2>3, <2>8
<1> QED
  BY <1>2, <1>3

\* Linking a watchdog that is off the chain in front of a node that is on it,
\* and activating it, keeps the chain well linked.
LEMMA LinkLemma ==
  ASSUME TypeOK, ChainLinked, NEW w \in Watchdogs, ~OnChain(w),
         NEW after, after = TAIL \/ (after \in Watchdogs /\ OnChain(after)),
         state' = [state EXCEPT ![w] = "ACTIVE"], Link(after, w)
  PROVE  /\ state' \in [Watchdogs -> States]
         /\ next' \in [Nodes -> Nodes \cup {NULL}]
         /\ previous' \in [Nodes -> Nodes \cup {NULL}]
         /\ ChainLinked'
<1> USE WatchdogAssumption
<1> DEFINE p == previous[after]
<1>1. /\ p = HEAD \/ (p \in Watchdogs /\ OnChain(p))
      /\ next[p] = after
      /\ w # p /\ w # after
  BY SMT DEF ChainLinked
<1>2. /\ next' = [next EXCEPT ![p] = w, ![w] = after]
      /\ previous' = [previous EXCEPT ![w] = p, ![after] = w]
  BY <1>1 DEF Link
<1>3. /\ state' \in [Watchdogs -> States]
      /\ next' \in [Nodes -> Nodes \cup {NULL}]
      /\ previous' \in [Nodes -> Nodes \cup {NULL}]
  BY <1>1, <1>2 DEF TypeOK
<1>4. \A v \in Watchdogs : OnChain(v)' <=> OnChain(v) \/ v = w
  BY DEF OnChain, TypeOK
<1>5. /\ next'[p] = w /\ next'[w] = after
      /\ previous'[w] = p /\ previous'[after] = w
      /\ \A n \in Nodes : n # p /\ n # w => next'[n] = next[n]
      /\ \A n \in Nodes : n # after /\ n # w => previous'[n] = previous[n]
  BY <1>1, <1>2 DEF TypeOK
<1> HIDE DEF p
<1>6. ASSUME NEW n \in Watchdogs \cup {HEAD}, n = HEAD \/ OnChain(n)'
      PROVE  /\ next'[n] = TAIL
                  \/ (next'[n] \in Watchdogs /\ OnChain(next[n])')
             /\ previous'[next'[n]] = n
  <2>1. CASE n = w
    BY <2>1, <1>1, <1>4, <1>5
  <2>2. CASE n = p
    BY <2>2, <1>1, <1>4, <1>5
  <2>3. CASE n # w /\ n # p
    <3>1. /\ next[n] = TAIL \/ (next[n] \in Watchdogs /\ OnChain(next[n]))
          /\ previous[next[n]] = n
      BY <2>3, <1>6, <1>4 DEF ChainLinked
    <3>2. next[n] # after /\ next[n] # w
      BY <2>3, <3>1 DEF p
    <3> QED
      BY <2>3, <3>1, <3>2, <1>4, <1>5
  <2> QED
    BY <2>1, <2>2, <2>3
<1>7. ASSUME NEW n \in Watchdogs \cup {TAIL}, n = TAIL \/ OnChain(n)'
      PROVE  /\ previous'[n] = HEAD
                  \/ (previous'[n] \in Watchdogs /\ OnChain(previous[n])')
             /\ next'[previous'[n]] = n
  <2>1. CASE n = w
    BY <2>1, <1>1, <1>4, <1>5
  <2>2. CASE n = after
    BY <2>2, <1>1, <1>4, <1>5
  <2>3. CASE n # w /\ n # after
    <3>1. /\ previous[n] = HEAD
               \/ (previous[n] \in Watchdogs /\ OnChain(previous[n]))
          /\ next[previous[n]] = n
      BY <2>3, <1>7, <1>4 DEF ChainLinked
    <3>2. previous[n] # p /\ previous[n] # w
      BY <2>3, <3>1, <1>1
    <3> QED
      BY <2>3, <3>1, <3>2, <1>4, <1>5
  <2> QED
    BY <2>1, <2>2, <2>3
<1>8. next'[TAIL] = NULL
  BY <1>1, <1>5 DEF ChainLinked
<1> QED
  BY <1>3, <1>6, <1>7, <1>8 DEF ChainLinked

-----------------------------------------------------------------------------
\* What a removal at level lv does to a level below it that it interrupted.
LEMMA RemoveBelow ==
  ASSUME StructInv, NEW w \in Watchdogs, NEW lv \in Levels, Remove(w, lv),
         NEW l \in Levels, l < lv
  PROVE  /\ frame[l].pc = "flash" /\ sync_level' <= l =>
              frame[l].after \in Watchdogs
                /\ state'[frame[l].after] \in {"ACTIVE", "REMOVE_IT"}
         /\ frame[l].pc \in Entering /\ frame[l].w # w =>
              state'[frame[l].w] = state[frame[l].w]
<1>1. /\ state' = [state EXCEPT ![w] = "INACTIVE"]
      /\ OnChain(w) /\ sync_count # 0 => sync_level' = lv
      /\ ~OnChain(w) \/ sync_count = 0 => sync_level' = sync_level
  BY RemoveLemma DEF StructInv
<1>2. frame[l].pc = "flash" => sync_count # 0
  BY SyncCountPositive DEF StructInv, Inserting
<1>3. frame[l].pc = "flash" /\ sync_level' <= l =>
        frame[l].after \in Watchdogs
          /\ state'[frame[l].after] \in {"ACTIVE", "REMOVE_IT"}
  <2> SUFFICES ASSUME frame[l].pc = "flash", sync_level' <= l
               PROVE  frame[l].after \in Watchdogs
                        /\ state'[frame[l].after] \in {"ACTIVE", "REMOVE_IT"}
    OBVIOUS
  <2>1. ~OnChain(w)
    BY <1>1, <1>2, WatchdogAssumption, SMT
  <2>2. frame[l].after \in Watchdogs /\ OnChain(frame[l].after)
    BY <2>1, <1>1, SMT DEF StructInv, SearchOnChain
  <2> QED
    BY <2>1, <2>2, <1>1 DEF OnChain, StructInv, TypeOK
<1>4. frame[l].pc \in Entering /\ frame[l].w # w =>
        state'[frame[l].w] = state[frame[l].w]
  BY <1>1 DEF StructInv, FramesOK, TypeOK, Entering
<1> QED
  BY <1>3, <1>4

\* The level at which a call is made, and the levels at and above it.
LEMMA CallsLevel ==
  ASSUME StructInv, NEW lv \in Levels, Calls(lv)
  PROVE  /\ lv = nest \/ lv = nest + 1
         /\ \A l \in Levels : l >= lv => frame[l].pc \in {"idle", "routine"}
         /\ \A l \in Levels : l > lv => frame[l] = IdleFrame
         /\ nest \in Nat
<1>1. nest \in Nat /\ nest \in Levels /\ IdleFrame.pc = "idle"
  BY WatchdogAssumption, SMT DEF StructInv, TypeOK, IdleFrame
<1>2. \A l \in Levels : l > nest => frame[l] = IdleFrame
  BY DEF StructInv, FramesOK
<1>3. \/ lv = nest /\ frame[nest].pc \in {"idle", "routine"}
      \/ lv = nest + 1
  BY DEF Calls
<1> QED
  BY <1>1, <1>2, <1>3, WatchdogAssumption, SMT

\* A call at level lv about w leaves alone what interrupted entries rely on.
LEMMA MayUseLemma ==
  ASSUME EntryRace = FALSE, NEW lv \in Levels, NEW w \in Watchdogs,
         MayUse(lv, w), NEW l \in Levels, l < lv, frame[l].pc \in Entering
  PROVE  frame[l].w # w
BY DEF MayUse, Entering

\* rtems_timer_cancel keeps the invariant.
LEMMA CancelStep ==
  ASSUME StructInv, EntryRace = FALSE, NEW lv \in Levels, NEW w \in Watchdogs,
         Cancel(lv, w)
  PROVE  StructInv'
<1>1. Calls(lv) /\ MayUse(lv, w) /\ Remove(w, lv)
      /\ UNCHANGED <<initial, sync_count, nest, frame>>
  BY DEF Cancel
<1>2. TypeOK' /\ ChainLinked'
  BY <1>1, RemoveLemma, SMTT(30) DEF StructInv, TypeOK
<1>3. FramesOK' /\ SyncCountExact'
  BY <1>1 DEF StructInv, FramesOK, SyncCountExact, Inserting
<1>4. \A l \in Levels : l < lv \/ frame[l].pc \in {"idle", "routine"}
  BY <1>1, CallsLevel, WatchdogAssumption, SMT
<1>5. EntryExclusive'
  <2> SUFFICES ASSUME NEW l \in Levels, frame[l].pc \in Entering
               PROVE  state'[frame[l].w] = state[frame[l].w]
    BY <1>1 DEF StructInv, EntryExclusive
  <2>1. l < lv
    BY <1>4 DEF Entering
  <2>2. frame[l].w # w
    BY <1>1, <2>1, MayUseLemma
  <2> QED
    BY <1>1, <2>1, <2>2, RemoveBelow
<1>6. SearchOnChain'
  BY <1>1, <1>4, RemoveBelow DEF SearchOnChain, OnChain
<1> QED
  BY <1>2, <1>3, <1>5, <1>6 DEF StructInv

\* A call that removes w and goes on to insert it keeps the invariant.
LEMMA RemoveAndPush ==
  ASSUME StructInv, EntryRace = FALSE, NEW lv \in Levels, NEW w \in Watchdogs,
         Calls(lv), MayUse(lv, w), Remove(w, lv), nest' = lv,
         NEW pc \in {"start", "insert"}, NEW d \in Nat,
         frame' = [frame EXCEPT ![lv] = Doing(lv, pc, w, NULL, d)],
         UNCHANGED <<initial, sync_count>>
  PROVE  StructInv'
<1> USE WatchdogAssumption
<1>1. /\ state' = [state EXCEPT ![w] = "INACTIVE"] /\ ChainLinked'
      /\ state \in [Watchdogs -> States] /\ frame \in [Levels -> Frame]
  BY RemoveLemma DEF StructInv, TypeOK
<1>2. /\ lv = nest \/ lv = nest + 1
      /\ \A l \in Levels : l >= lv => frame[l].pc \in {"idle", "routine"}
      /\ \A l \in Levels : l > lv => frame[l] = IdleFrame
  BY CallsLevel
<1>3. /\ frame'[lv] = [pc |-> pc, w |-> w, after |-> NULL, delta |-> d,
                       tick |-> frame[lv].tick]
      /\ frame[lv].tick \in BOOLEAN
      /\ \A l \in Levels : l # lv => frame'[l] = frame[l]
  BY <1>1 DEF Doing, Frame
<1>4. frame' \in [Levels -> Frame]
  BY <1>1, <1>3, SMT DEF Frame, Places
<1>5. TypeOK'
  BY <1>4, RemoveLemma, SMTT(30) DEF StructInv, TypeOK
<1>6. FramesOK'
  <2> SUFFICES ASSUME NEW l \in Levels
               PROVE  /\ l > lv => frame'[l] = IdleFrame
                      /\ frame'[l].tick => l > 0
                      /\ frame'[l].pc \in Ticking => frame'[l].tick
                      /\ frame'[l].pc = "idle" => ~frame'[l].tick
                      /\ frame'[l].pc \in Entering
                           \cup {"flash", "remove", "decrement", "expire"}
                           => frame'[l].w \in Watchdogs
    BY DEF FramesOK
  <2>1. CASE l = lv
    BY <2>1, <1>3, SMT DEF StructInv, FramesOK, Ticking, Entering
  <2>2. CASE l # lv
    BY <2>2, <1>2, <1>3 DEF StructInv, FramesOK
  <2> QED
    BY <2>1, <2>2
<1>7. SyncCountExact'
  <2>1. \A l \in Levels : frame[l].pc \in {"enter", "flash"}
                            <=> frame'[l].pc \in {"enter", "flash"}
    BY <1>2, <1>3, SMT
  <2> QED
    BY <2>1, SameInserting DEF StructInv, SyncCountExact, Inserting
<1>8. EntryExclusive'
  <2> SUFFICES ASSUME NEW l \in Levels, frame'[l].pc \in Entering
               PROVE  /\ state'[frame'[l].w] =
                           IF frame'[l].pc = "enter" THEN "BEING_INSERTED"
                                                     ELSE "INACTIVE"
                      /\ \A m \in Levels : m > l => frame'[m].w # frame'[l].w
    BY DEF EntryExclusive
  <2>1. CASE l = lv
    BY <2>1, <1>1, <1>2, <1>3, SMT DEF IdleFrame
  <2>2. CASE l # lv
    <3>1. l < lv /\ frame[l].pc \in Entering /\ frame'[l] = frame[l]
      BY <2>2, <1>2, <1>3, SMT DEF Entering
    <3>2. frame[l].w # w
      BY <3>1, MayUseLemma
    <3>3. state'[frame[l].w] = state[frame[l].w]
      BY <3>1, <3>2, RemoveBelow, SMT
    <3> QED
      BY <3>1, <3>2, <3>3, <1>3, SMT DEF StructInv, EntryExclusive
  <2> QED
    BY <2>1, <2>2
<1>9. SearchOnChain'
  <2> SUFFICES ASSUME NEW l \in Levels, frame'[l].pc = "flash", sync_level' <= l
               PROVE  frame'[l].after \in Watchdogs
                        /\ state'[frame'[l].after] \in {"ACTIVE", "REMOVE_IT"}
    BY DEF SearchOnChain, OnChain
  <2>1. l < lv /\ frame'[l] = frame[l]
    BY <1>2, <1>3, SMT
  <2> QED
    BY <2>1, RemoveBelow
<1> QED
  BY <1>1, <1>5, <1>6, <1>7, <1>8, <1>9 DEF StructInv

\* _Watchdog_Deactivate keeps the invariant.
LEMMA DeactivateStep ==
  ASSUME StructInv, EntryRace = FALSE, NEW lv \in Levels, NEW w \in Watchdogs,
         Deactivate(lv, w)
  PROVE  StructInv'
<1> USE WatchdogAssumption
<1>1. /\ state \in [Watchdogs -> States] /\ frame \in [Levels -> Frame]
      /\ state[w] = "ACTIVE" /\ state' = [state EXCEPT ![w] = "REMOVE_IT"]
      /\ Calls(lv) /\ MayUse(lv, w)
      /\ nest' = lv /\ UNCHANGED <<initial, delta_interval, next, previous,
                                   sync_count, sync_level, remaining>>
  BY DEF StructInv, TypeOK, Deactivate, Deactivated, syncVars
<1>2. /\ lv = nest \/ lv = nest + 1
      /\ \A l \in Levels : l >= lv => frame[l].pc \in {"idle", "routine"}
      /\ \A l \in Levels : l > lv => frame[l] = IdleFrame
  BY <1>1, CallsLevel
<1>3. /\ frame'[lv] = [pc |-> "remove", w |-> w, after |-> NULL, delta |-> 0,
                       tick |-> frame[lv].tick]
      /\ frame[lv].tick \in BOOLEAN
      /\ \A l \in Levels : l # lv => frame'[l] = frame[l]
      /\ frame' \in [Levels -> Frame]
  BY <1>1 DEF Doing, Frame, Deactivate, Places
<1>4. TypeOK'
  BY <1>1, <1>3 DEF StructInv, TypeOK
<1>5. \A v \in Watchdogs : /\ OnChain(v)' <=> OnChain(v)
                           /\ v # w => state'[v] = state[v]
  BY <1>1 DEF OnChain
<1>6. ChainLinked'
  BY <1>1, <1>5 DEF StructInv, ChainLinked
<1>7. FramesOK'
  <2> SUFFICES ASSUME NEW l \in Levels
               PROVE  /\ l > lv => frame'[l] = IdleFrame
                      /\ frame'[l].tick => l > 0
                      /\ frame'[l].pc \in Ticking => frame'[l].tick
                      /\ frame'[l].pc = "idle" => ~frame'[l].tick
                      /\ frame'[l].pc \in Entering
                           \cup {"flash", "remove", "decrement", "expire"}
                           => frame'[l].w \in Watchdogs
    BY <1>1 DEF FramesOK
  <2>1. CASE l = lv
    BY <2>1, <1>3, SMT DEF StructInv, FramesOK, Ticking, Entering
  <2>2. CASE l # lv
    BY <2>2, <1>2, <1>3 DEF StructInv, FramesOK
  <2> QED
    BY <2>1, <2>2
<1>8. SyncCountExact'
  <2>1. \A l \in Levels : frame[l].pc \in {"enter", "flash"}
                            <=> frame'[l].pc \in {"enter", "flash"}
    BY <1>2, <1>3, SMT
  <2> QED
    BY <2>1, <1>1, SameInserting DEF StructInv, SyncCountExact, Inserting
<1>9. EntryExclusive'
  <2> SUFFICES ASSUME NEW l \in Levels, frame'[l].pc \in Entering
               PROVE  /\ state'[frame'[l].w] =
                           IF frame'[l].pc = "enter" THEN "BEING_INSERTED"
                                                     ELSE "INACTIVE"
                      /\ \A m \in Levels : m > l => frame'[m].w # frame'[l].w
    BY DEF EntryExclusive
  <2>1. l < lv /\ frame[l].pc \in Entering /\ frame'[l] = frame[l]
    BY <1>2, <1>3, SMT DEF Entering
  <2>2. frame[l].w # w /\ frame[l].w \in Watchdogs
    BY <2>1, <1>1, MayUseLemma DEF StructInv, FramesOK
  <2> QED
    BY <2>1, <2>2, <1>3, <1>5, SMT DEF StructInv, EntryExclusive
<1>10. SearchOnChain'
  <2> SUFFICES ASSUME NEW l \in Levels, frame'[l].pc = "flash", sync_level' <= l
               PROVE  frame'[l].after \in Watchdogs
                        /\ state'[frame'[l].after] \in {"ACTIVE", "REMOVE_IT"}
    BY DEF SearchOnChain, OnChain
  <2>1. frame'[l] = frame[l]
    BY <1>3, SMT
  <2> QED
    BY <2>1, <1>1, <1>5, SMT DEF StructInv, SearchOnChain, OnChain
<1> QED
  BY <1>4, <1>6, <1>7, <1>8, <1>9, <1>10 DEF StructInv

-----------------------------------------------------------------------------
\* What a step of the current level owes to the levels it interrupted, and
\* what it must establish for itself.
LEMMA TopStep ==
  ASSUME StructInv,
         \A l \in Levels : l # nest => frame'[l] = frame[l],
         \A l \in Levels : l < nest /\ frame[l].pc \in Entering =>
            /\ frame'[nest].w # frame[l].w
            /\ state'[frame[l].w] = state[frame[l].w],
         \A l \in Levels : l < nest /\ frame[l].pc = "flash" /\ sync_level' <= l
            => /\ frame[l].after \in Watchdogs
               /\ state'[frame[l].after] \in {"ACTIVE", "REMOVE_IT"},
         frame'[nest].pc \in Entering =>
            /\ frame'[nest].w \in Watchdogs
            /\ state'[frame'[nest].w] =
                 IF frame'[nest].pc = "enter" THEN "BEING_INSERTED"
                                              ELSE "INACTIVE",
         frame'[nest].pc = "flash" /\ sync_level' <= nest =>
            /\ frame'[nest].after \in Watchdogs
            /\ state'[frame'[nest].after] \in {"ACTIVE", "REMOVE_IT"}
  PROVE  EntryExclusive' /\ SearchOnChain'
<1> USE WatchdogAssumption
<1>1. /\ nest \in Levels
      /\ \A l \in Levels : l > nest => frame[l] = IdleFrame
      /\ IdleFrame.pc = "idle" /\ IdleFrame.w = NULL
  BY DEF StructInv, TypeOK, FramesOK, IdleFrame
<1>2. EntryExclusive'
  <2> SUFFICES ASSUME NEW l \in Levels, frame'[l].pc \in Entering
               PROVE  /\ state'[frame'[l].w] =
                           IF frame'[l].pc = "enter" THEN "BEING_INSERTED"
                                                     ELSE "INACTIVE"
                      /\ \A m \in Levels : m > l => frame'[m].w # frame'[l].w
    BY DEF EntryExclusive
  <2>1. CASE l = nest
    BY <2>1, <1>1, SMT
  <2>2. CASE l # nest
    <3>1. l < nest /\ frame[l].pc \in Entering /\ frame'[l] = frame[l]
      BY <2>2, <1>1, SMT DEF Entering
    <3> QED
      BY <3>1, SMT DEF StructInv, EntryExclusive
  <2> QED
    BY <2>1, <2>2
<1>3. SearchOnChain'
  <2> SUFFICES ASSUME NEW l \in Levels, frame'[l].pc = "flash", sync_level' <= l
               PROVE  frame'[l].after \in Watchdogs
                        /\ state'[frame'[l].after] \in {"ACTIVE", "REMOVE_IT"}
    BY DEF SearchOnChain, OnChain
  <2>1. CASE l = nest
    BY <2>1
  <2>2. CASE l # nest
    <3>1. l < nest /\ frame'[l] = frame[l]
      BY <2>2, <1>1, SMT
    <3> QED
      BY <3>1
  <2> QED
    BY <2>1, <2>2
<1> QED
  BY <1>2, <1>3

\* A level below the current one that is entering does so with a watchdog of
\* its own, and one that is flashing holds a node of the chain.
LEMMA BelowTop ==
  ASSUME StructInv
  PROVE  /\ nest \in Levels /\ nest \in Nat
         /\ frame \in [Levels -> Frame] /\ frame[nest] \in Frame
         /\ frame[nest].tick \in BOOLEAN
         /\ \A l \in Levels : l < nest /\ frame[l].pc \in Entering =>
              /\ frame[l].w \in Watchdogs /\ frame[l].w # NULL
              /\ frame[l].w # frame[nest].w
              /\ ~OnChain(frame[l].w)
         /\ \A l \in Levels : frame[l].pc = "flash" /\ sync_level <= l =>
              /\ frame[l].after \in Watchdogs
              /\ state[frame[l].after] \in {"ACTIVE", "REMOVE_IT"}
<1> USE WatchdogAssumption
<1>1. /\ nest \in Levels /\ nest \in Nat
      /\ frame \in [Levels -> Frame] /\ frame[nest] \in Frame
      /\ frame[nest].tick \in BOOLEAN
  BY SMT DEF StructInv, TypeOK, Frame
<1>2. \A l \in Levels : l < nest /\ frame[l].pc \in Entering =>
         /\ frame[l].w \in Watchdogs /\ frame[l].w # NULL
         /\ frame[l].w # frame[nest].w
         /\ ~OnChain(frame[l].w)
  BY <1>1 DEF StructInv, FramesOK, EntryExclusive, OnChain
<1>3. \A l \in Levels : frame[l].pc = "flash" /\ sync_level <= l =>
         /\ frame[l].after \in Watchdogs
         /\ state[frame[l].after] \in {"ACTIVE", "REMOVE_IT"}
  BY DEF StructInv, SearchOnChain, OnChain
<1> QED
  BY <1>1, <1>2, <1>3

\* Replacing the current frame by one that fits the level keeps FramesOK.
LEMMA FramesStep ==
  ASSUME StructInv, NEW f \in Frame, frame' = [frame EXCEPT ![nest] = f],
         \/ nest' = nest
         \/ nest > 0 /\ nest' = nest - 1 /\ f = IdleFrame,
         f.tick => nest > 0, f.pc \in Ticking => f.tick,
         f.pc = "idle" => ~f.tick,
         f.pc \in Entering \cup {"flash", "remove", "decrement", "expire"}
           => f.w \in Watchdogs
  PROVE  /\ FramesOK' /\ frame' \in [Levels -> Frame] /\ nest' \in Levels
         /\ frame'[nest] = f
         /\ \A l \in Levels : l # nest => frame'[l] = frame[l]
<1> USE WatchdogAssumption
<1>1. /\ frame' \in [Levels -> Frame] /\ nest' \in Levels
      /\ frame'[nest] = f
      /\ \A l \in Levels : l # nest => frame'[l] = frame[l]
  BY BelowTop, SMT
<1>2. FramesOK'
  <2> SUFFICES ASSUME NEW l \in Levels
               PROVE  /\ l > nest' => frame'[l] = IdleFrame
                      /\ frame'[l].tick => l > 0
                      /\ frame'[l].pc \in Ticking => frame'[l].tick
                      /\ frame'[l].pc = "idle" => ~frame'[l].tick
                      /\ frame'[l].pc \in Entering
                           \cup {"flash", "remove", "decrement", "expire"}
                           => frame'[l].w \in Watchdogs
    BY DEF FramesOK
  <2>1. CASE l = nest
    BY <2>1, <1>1, SMT
  <2>2. CASE l # nest
    BY <2>2, <1>1, BelowTop, SMT DEF StructInv, FramesOK
  <2> QED
    BY <2>1, <2>2
<1> QED
  BY <1>1, <1>2

\* Returning from a call: the frame becomes idle, or that of the routine.
LEMMA ReturnLemma ==
  ASSUME StructInv, Return, frame[nest].pc # "idle"
  PROVE  /\ FramesOK' /\ frame' \in [Levels -> Frame] /\ nest' \in Levels
         /\ frame'[nest].pc \in {"idle", "routine"} /\ frame'[nest].w = NULL
         /\ \A l \in Levels : l # nest => frame'[l] = frame[l]
<1> USE WatchdogAssumption
<1> DEFINE f == IF frame[nest].tick THEN Doing(nest, "routine", NULL, NULL, 0)
                                    ELSE IdleFrame
<1>1. f \in Frame /\ f.w = NULL /\ f.pc \in {"idle", "routine"}
  BY BelowTop DEF Doing, IdleFrame, Frame, Places
<1>2. /\ frame' = [frame EXCEPT ![nest] = f]
      /\ nest' = IF frame[nest].tick \/ nest = 0 THEN nest ELSE nest - 1
  BY BelowTop DEF Return
<1>3. /\ f.tick => nest > 0
      /\ f.pc \in Ticking => f.tick
      /\ f.pc = "idle" => ~f.tick
      /\ f.pc \notin Entering \cup {"flash", "remove", "decrement", "expire"}
      /\ ~frame[nest].tick => f = IdleFrame
  BY BelowTop DEF StructInv, FramesOK, Doing, IdleFrame, Ticking, Entering
<1>4. \/ nest' = nest
      \/ nest > 0 /\ nest' = nest - 1 /\ f = IdleFrame
  BY <1>2, <1>3, BelowTop, SMT
<1> HIDE DEF f
<1> QED
  BY <1>1, <1>2, <1>3, <1>4, FramesStep

\* The removal of a deactivated watchdog keeps the invariant.
LEMMA RemoveDeactivatedStep ==
  ASSUME StructInv, RemoveDeactivated
  PROVE  StructInv'
<1> USE WatchdogAssumption
<1> DEFINE w == frame[nest].w
<1>1. /\ w \in Watchdogs /\ Remove(w, nest) /\ Return
      /\ frame[nest].pc = "remove" /\ UNCHANGED <<initial, sync_count>>
  BY BelowTop DEF RemoveDeactivated, StructInv, FramesOK
<1>2. /\ FramesOK' /\ frame' \in [Levels -> Frame] /\ nest' \in Levels
      /\ frame'[nest].pc \in {"idle", "routine"} /\ frame'[nest].w = NULL
      /\ \A l \in Levels : l # nest => frame'[l] = frame[l]
  BY <1>1, ReturnLemma
<1>3. TypeOK' /\ ChainLinked'
  BY <1>1, <1>2, BelowTop, RemoveLemma DEF StructInv, TypeOK
<1>4. SyncCountExact'
  <2>1. \A l \in Levels : frame[l].pc \in {"enter", "flash"}
                            <=> frame'[l].pc \in {"enter", "flash"}
    BY <1>1, <1>2
  <2> QED
    BY <2>1, <1>1, SameInserting DEF StructInv, SyncCountExact, Inserting
<1>5. \A l \in Levels : l < nest /\ frame[l].pc \in Entering =>
         /\ frame'[nest].w # frame[l].w
         /\ state'[frame[l].w] = state[frame[l].w]
  BY <1>1, <1>2, BelowTop, RemoveBelow, SMT
<1>6. \A l \in Levels : l < nest /\ frame[l].pc = "flash" /\ sync_level' <= l
         => /\ frame[l].after \in Watchdogs
            /\ state'[frame[l].after] \in {"ACTIVE", "REMOVE_IT"}
  BY <1>1, BelowTop, RemoveBelow
<1>7. frame'[nest].pc \notin Entering /\ frame'[nest].pc # "flash"
  BY <1>2 DEF Entering
<1>8. EntryExclusive' /\ SearchOnChain'
  BY <1>2, <1>5, <1>6, <1>7, TopStep
<1> QED
  BY <1>2, <1>3, <1>4, <1>8 DEF StructInv

\* The start of _Watchdog_Insert keeps the invariant.
LEMMA EnterInsertStep ==
  ASSUME StructInv, frame[nest].pc \in {"start", "insert"},
         EnterInsert(frame[nest].w), initial' \in [Watchdogs -> Nat]
  PROVE  StructInv'
<1> USE WatchdogAssumption
<1> DEFINE w == frame[nest].w
           f == Doing(nest, "enter", w, NULL, 0)
<1>1. /\ w \in Watchdogs /\ state[w] = "INACTIVE"
      /\ state' = [state EXCEPT ![w] = "BEING_INSERTED"]
      /\ sync_count' = sync_count + 1
      /\ frame' = [frame EXCEPT ![nest] = f]
      /\ UNCHANGED <<delta_interval, next, previous, sync_level, nest, remaining>>
  BY BelowTop DEF EnterInsert, StructInv, FramesOK, EntryExclusive, Entering
<1>2. /\ f \in Frame /\ f.pc = "enter" /\ f.w = w
      /\ f.tick = frame[nest].tick /\ (f.tick => nest > 0)
  BY <1>1, BelowTop DEF Doing, Frame, Places, StructInv, FramesOK
<1> HIDE DEF f
<1>3. /\ FramesOK' /\ frame' \in [Levels -> Frame] /\ frame'[nest] = f
      /\ \A l \in Levels : l # nest => frame'[l] = frame[l]
  BY <1>1, <1>2, FramesStep DEF Ticking, Entering
<1>4. TypeOK'
  BY <1>1, <1>3, SMT DEF StructInv, TypeOK
<1>5. /\ \A v \in Watchdogs : v # w => state'[v] = state[v]
      /\ \A v \in Watchdogs : OnChain(v)' <=> OnChain(v)
  BY <1>1 DEF StructInv, TypeOK, OnChain
<1>6. ChainLinked'
  BY <1>1, <1>5 DEF StructInv, ChainLinked
<1>7. SyncCountExact'
  <2>1. Cardinality({l \in Levels : frame'[l].pc \in {"enter", "flash"}})
          = Cardinality({l \in Levels : frame[l].pc \in {"enter", "flash"}}) + 1
    BY <1>2, <1>3, BelowTop, OneMoreInserting, SMTT(30)
  <2> QED
    BY <2>1, <1>1 DEF StructInv, SyncCountExact, Inserting
<1>8. \A l \in Levels : l < nest /\ frame[l].pc \in Entering =>
         /\ frame'[nest].w # frame[l].w
         /\ state'[frame[l].w] = state[frame[l].w]
  BY <1>2, <1>3, <1>5, BelowTop
<1>9. \A l \in Levels : l < nest /\ frame[l].pc = "flash" /\ sync_level' <= l
         => /\ frame[l].after \in Watchdogs
            /\ state'[frame[l].after] \in {"ACTIVE", "REMOVE_IT"}
  BY <1>1, <1>5, BelowTop DEF OnChain
<1>10. state'[w] = "BEING_INSERTED"
  BY <1>1 DEF StructInv, TypeOK
<1>11. EntryExclusive' /\ SearchOnChain'
  BY <1>1, <1>2, <1>3, <1>8, <1>9, <1>10, TopStep
<1> QED
  BY <1>3, <1>4, <1>6, <1>7, <1>11 DEF StructInv

\* Leaving _Watchdog_Insert, with or without having activated the watchdog.
LEMMA ExitInsertStep ==
  ASSUME StructInv, Inserting(nest), ExitInsert,
         state' \in [Watchdogs -> States], initial' \in [Watchdogs -> Nat],
         delta_interval' \in [Watchdogs -> Nat],
         next' \in [Nodes -> Nodes \cup {NULL}],
         previous' \in [Nodes -> Nodes \cup {NULL}],
         remaining' \in [Watchdogs -> Nat], ChainLinked',
         \A v \in Watchdogs : v # frame[nest].w => state'[v] = state[v]
  PROVE  StructInv'
<1> USE WatchdogAssumption
<1>1. /\ sync_level' = nest /\ sync_count' = sync_count - 1 /\ Return
      /\ frame[nest].pc \in {"enter", "flash"}
  BY DEF ExitInsert, Inserting
<1>2. /\ FramesOK' /\ frame' \in [Levels -> Frame] /\ nest' \in Levels
      /\ frame'[nest].pc \in {"idle", "routine"} /\ frame'[nest].w = NULL
      /\ \A l \in Levels : l # nest => frame'[l] = frame[l]
  BY <1>1, ReturnLemma
<1>3. sync_count \in Nat /\ sync_count # 0 /\ nest \in Levels
  BY SyncCountPositive, BelowTop DEF StructInv
<1>4. TypeOK'
  BY <1>1, <1>2, <1>3, SMT DEF TypeOK
<1>5. SyncCountExact'
  <2>1. /\ frame[nest].pc \in {"enter", "flash"}
        /\ frame'[nest].pc \notin {"enter", "flash"}
        /\ nest \in Levels
        /\ \A l \in Levels : l # nest => frame'[l] = frame[l]
    BY <1>1, <1>2, <1>3
  <2>2. Cardinality({l \in Levels : frame'[l].pc \in {"enter", "flash"}})
          = Cardinality({l \in Levels : frame[l].pc \in {"enter", "flash"}}) - 1
    BY ONLY <2>1, OneLessInserting, SMT
  <2> QED
    BY <2>2, <1>1 DEF StructInv, SyncCountExact, Inserting
<1>6. \A l \in Levels : l < nest /\ frame[l].pc \in Entering =>
         /\ frame'[nest].w # frame[l].w
         /\ state'[frame[l].w] = state[frame[l].w]
  BY <1>2, BelowTop
<1>7. \A l \in Levels : l < nest => ~(sync_level' <= l)
  BY <1>1, <1>3, SMT
<1>8. frame'[nest].pc \notin Entering /\ frame'[nest].pc # "flash"
  BY <1>2 DEF Entering
<1>9. EntryExclusive' /\ SearchOnChain'
  BY <1>2, <1>6, <1>7, <1>8, TopStep
<1> QED
  BY <1>2, <1>4, <1>5, <1>9 DEF StructInv

\* A pass of the search that starts at the tail or at a node of the chain
\* keeps the invariant.
LEMMA SearchStepStep ==
  ASSUME StructInv, Inserting(nest), state[frame[nest].w] = "BEING_INSERTED",
         NEW after, after = TAIL \/ (after \in Watchdogs /\ OnChain(after)),
         NEW d \in Nat, SearchStep(frame[nest].w, after, d),
         UNCHANGED initial, remaining' \in [Watchdogs -> Nat]
  PROVE  StructInv'
<1> USE WatchdogAssumption
<1> DEFINE w == frame[nest].w
           last == d = 0 \/ next[after] = NULL
           smaller == ~last /\ d < delta_interval[after]
<1>1. /\ w \in Watchdogs /\ ~OnChain(w)
      /\ initial' \in [Watchdogs -> Nat]
      /\ delta_interval \in [Watchdogs -> Nat]
  BY BelowTop DEF StructInv, FramesOK, Inserting, Entering, OnChain, TypeOK
<1>2. ~last => after \in Watchdogs /\ OnChain(after)
                 /\ delta_interval[after] \in Nat
  BY <1>1 DEF StructInv, ChainLinked
<1>3. \/ /\ last \/ smaller
         /\ delta_interval' \in [Watchdogs -> Nat]
         /\ Activate(w, after)
      \/ /\ ~last /\ ~smaller
         /\ frame' = [frame EXCEPT ![nest] =
              Doing(nest, "flash", w, after, d - delta_interval[after])]
         /\ UNCHANGED <<state, delta_interval, next, previous, syncVars, nest>>
  <2> USE DEF SearchStep, Earlier, Shortened
  <2>1. CASE last
    BY <2>1, <1>1
  <2>2. CASE smaller
    BY <2>2, <1>1, <1>2, SMT
  <2>3. CASE ~last /\ ~smaller
    BY <2>3
  <2> QED
    BY <2>1, <2>2, <2>3
<1>4. CASE /\ last \/ smaller
           /\ delta_interval' \in [Watchdogs -> Nat]
           /\ Activate(w, after)
  <2>1. /\ state' = [state EXCEPT ![w] = "ACTIVE"]
        /\ Link(after, w) /\ ExitInsert
    BY <1>4 DEF Activate
  <2>2. /\ state' \in [Watchdogs -> States]
        /\ next' \in [Nodes -> Nodes \cup {NULL}]
        /\ previous' \in [Nodes -> Nodes \cup {NULL}]
        /\ ChainLinked'
    BY <2>1, <1>1, LinkLemma DEF StructInv
  <2>3. \A v \in Watchdogs : v # w => state'[v] = state[v]
    BY <2>1 DEF StructInv, TypeOK
  <2> QED
    BY <1>1, <1>4, <2>1, <2>2, <2>3, ExitInsertStep
<1>5. CASE /\ ~last /\ ~smaller
           /\ frame' = [frame EXCEPT ![nest] =
                Doing(nest, "flash", w, after, d - delta_interval[after])]
           /\ UNCHANGED <<state, delta_interval, next, previous, syncVars, nest>>
  <2> DEFINE f == Doing(nest, "flash", w, after, d - delta_interval[after])
  <2>1. d - delta_interval[after] \in Nat
    BY <1>5, <1>2, SMT
  <2>2. /\ f \in Frame /\ f.pc = "flash" /\ f.w = w /\ f.after = after
        /\ f.tick = frame[nest].tick /\ (f.tick => nest > 0)
    BY <2>1, <1>1, <1>2, <1>5, BelowTop
       DEF Doing, Frame, Places, StructInv, FramesOK
  <2> HIDE DEF f
  <2>3. /\ FramesOK' /\ frame' \in [Levels -> Frame] /\ frame'[nest] = f
        /\ \A l \in Levels : l # nest => frame'[l] = frame[l]
    BY <1>1, <1>5, <2>2, FramesStep DEF Ticking, Entering, f
  <2>4. TypeOK' /\ ChainLinked'
    <3>1. TypeOK'
      BY <1>1, <1>5, <2>3, SMTT(30) DEF StructInv, TypeOK, syncVars
    <3>2. ChainLinked'
      BY <1>5 DEF StructInv, ChainLinked, OnChain
    <3> QED
      BY <3>1, <3>2
  <2>5. SyncCountExact'
    <3>1. \A l \in Levels : frame[l].pc \in {"enter", "flash"}
                              <=> frame'[l].pc \in {"enter", "flash"}
      BY <2>2, <2>3 DEF Inserting
    <3> QED
      BY <3>1, <1>5, SameInserting
         DEF StructInv, SyncCountExact, Inserting, syncVars
  <2>6. \A l \in Levels : l < nest /\ frame[l].pc \in Entering =>
           /\ frame'[nest].w # frame[l].w
           /\ state'[frame[l].w] = state[frame[l].w]
    BY <1>5, <2>2, <2>3, BelowTop, SMT
  <2>7. \A l \in Levels : l < nest /\ frame[l].pc = "flash" /\ sync_level' <= l
           => /\ frame[l].after \in Watchdogs
              /\ state'[frame[l].after] \in {"ACTIVE", "REMOVE_IT"}
    BY <1>5, BelowTop DEF syncVars
  <2>8. EntryExclusive' /\ SearchOnChain'
    <3>1. /\ frame'[nest].pc \notin Entering
          /\ frame'[nest].after \in Watchdogs
          /\ state'[frame'[nest].after] \in {"ACTIVE", "REMOVE_IT"}
      BY <1>2, <1>5, <2>2, <2>3 DEF Entering, OnChain
    <3> QED
      BY <3>1, <2>3, <2>6, <2>7, TopStep
  <2> QED
    BY <2>3, <2>4, <2>5, <2>8 DEF StructInv
<1> QED
  BY <1>3, <1>4, <1>5

\* A step of the current level that moves only its frame, the sync level and
\* the deltas keeps the invariant.
LEMMA FrameOnlyStep ==
  ASSUME StructInv, NEW f \in Frame, frame' = [frame EXCEPT ![nest] = f],
         \/ nest' = nest
         \/ nest > 0 /\ nest' = nest - 1 /\ f = IdleFrame,
         f.tick => nest > 0, f.pc \in Ticking => f.tick,
         f.pc = "idle" => ~f.tick,
         f.pc \in Entering \cup {"flash", "remove", "decrement", "expire"}
           => f.w \in Watchdogs,
         f.pc \in {"enter", "flash"} <=> frame[nest].pc \in {"enter", "flash"},
         f.w = NULL \/ f.w = frame[nest].w \/ (f.w \in Watchdogs /\ OnChain(f.w)),
         f.pc \in Entering => /\ f.pc = "enter"
                              /\ state[f.w] = "BEING_INSERTED",
         f.pc # "flash",
         sync_level' = sync_level \/ sync_level' = nest,
         UNCHANGED <<state, initial, next, previous, sync_count>>,
         delta_interval' \in [Watchdogs -> Nat],
         remaining' \in [Watchdogs -> Nat]
  PROVE  StructInv'
<1> USE WatchdogAssumption
<1>1. /\ FramesOK' /\ frame' \in [Levels -> Frame] /\ nest' \in Levels
      /\ frame'[nest] = f
      /\ \A l \in Levels : l # nest => frame'[l] = frame[l]
  BY FramesStep
<1>2. TypeOK'
  BY <1>1, BelowTop, SMTT(30) DEF StructInv, TypeOK
<1>3. ChainLinked'
  BY DEF StructInv, ChainLinked, OnChain
<1>4. SyncCountExact'
  <2>1. \A l \in Levels : frame[l].pc \in {"enter", "flash"}
                            <=> frame'[l].pc \in {"enter", "flash"}
    BY <1>1
  <2> QED
    BY <2>1, SameInserting DEF StructInv, SyncCountExact, Inserting
<1>5. \A l \in Levels : l < nest /\ frame[l].pc \in Entering =>
         /\ frame'[nest].w # frame[l].w
         /\ state'[frame[l].w] = state[frame[l].w]
  BY <1>1, BelowTop, SMT
<1>6. \A l \in Levels : l < nest /\ frame[l].pc = "flash" /\ sync_level' <= l
         => /\ frame[l].after \in Watchdogs
            /\ state'[frame[l].after] \in {"ACTIVE", "REMOVE_IT"}
  BY BelowTop, SMT
<1>7. EntryExclusive' /\ SearchOnChain'
  BY <1>1, <1>5, <1>6, TopStep, SMT
<1> QED
  BY <1>1, <1>2, <1>3, <1>4, <1>7 DEF StructInv

\* The end of the clock tick handler keeps the invariant.
LEMMA LeaveTickStep ==
  ASSUME StructInv, frame[nest].pc \in Ticking, LeaveTick,
         UNCHANGED <<state, initial, next, previous, sync_count, sync_level>>,
         delta_interval' \in [Watchdogs -> Nat],
         remaining' \in [Watchdogs -> Nat]
  PROVE  StructInv'
<1> USE WatchdogAssumption
<1>1. /\ nest > 0 /\ nest' = nest - 1 /\ frame[nest].tick
      /\ frame' = [frame EXCEPT ![nest] = IdleFrame]
  BY BelowTop DEF LeaveTick, StructInv, FramesOK
<1>2. /\ IdleFrame \in Frame /\ IdleFrame.pc = "idle" /\ IdleFrame.w = NULL
      /\ ~IdleFrame.tick
  BY DEF IdleFrame, Frame, Places
<1> QED
  BY <1>1, <1>2, FrameOnlyStep DEF Ticking, Entering

\* The steps of _Watchdog_Tickle keep the invariant.
LEMMA TickleStep ==
  ASSUME StructInv, Tickle
  PROVE  StructInv'
<1> USE WatchdogAssumption
<1>0. /\ First = TAIL \/ (First \in Watchdogs /\ OnChain(First))
      /\ delta_interval \in [Watchdogs -> Nat]
      /\ remaining \in [Watchdogs -> Nat]
  BY DEF StructInv, ChainLinked, First, TypeOK
<1>1. CASE TickleEmpty
  BY <1>1, <1>0, LeaveTickStep DEF TickleEmpty, Ticking, chainVars, syncVars
<1>2. CASE TickleFirst
  <2> DEFINE f == Doing(nest, "decrement", First, NULL, 0)
  <2>1. /\ frame[nest].pc = "tickle" /\ frame[nest].tick /\ nest > 0
        /\ First \in Watchdogs /\ OnChain(First)
        /\ frame' = [frame EXCEPT ![nest] = f]
        /\ UNCHANGED <<initial, chainVars, syncVars, nest>>
    BY <1>0, <1>2, BelowTop DEF TickleFirst, Empty, StructInv, FramesOK, Ticking
  <2>2. f \in Frame /\ f.pc = "decrement" /\ f.w = First /\ f.tick
    BY <2>1, BelowTop DEF Doing, Frame, Places
  <2> HIDE DEF f
  <2> QED
    BY <2>1, <2>2, <1>0, FrameOnlyStep DEF Ticking, Entering, chainVars, syncVars
<1>3. CASE TickleDecrement
  <2> DEFINE w == frame[nest].w
             d == IF delta_interval[w] = 0 THEN IntervalMax
                                           ELSE delta_interval[w] - 1
  <2>1. /\ frame[nest].pc = "decrement" /\ frame[nest].tick /\ nest > 0
        /\ w \in Watchdogs
    BY <1>3, BelowTop DEF TickleDecrement, StructInv, FramesOK, Ticking
  <2>2. d \in Nat
    BY <2>1, <1>0, SMT
  <2>3. /\ delta_interval' \in [Watchdogs -> Nat]
        /\ remaining' \in [Watchdogs -> Nat]
        /\ UNCHANGED <<state, initial, next, previous, sync_count, sync_level>>
    BY <1>0, <1>3, <2>1, <2>2, SMT DEF TickleDecrement, Tick, syncVars
  <2>4. CASE d # 0
    <3>1. LeaveTick
      BY <1>3, <2>4 DEF TickleDecrement
    <3> QED
      BY <3>1, <2>1, <2>3, LeaveTickStep DEF Ticking
  <2>5. CASE d = 0
    <3> DEFINE f == [frame[nest] EXCEPT !.pc = "expire"]
    <3>1. frame' = [frame EXCEPT ![nest] = f] /\ nest' = nest
      BY <1>3, <2>5, BelowTop DEF TickleDecrement
    <3>2. /\ f \in Frame /\ f.pc = "expire" /\ f.w = frame[nest].w
          /\ f.tick = frame[nest].tick
      BY BelowTop DEF Frame, Places
    <3> HIDE DEF f
    <3> QED
      BY <3>1, <3>2, <2>1, <2>3, FrameOnlyStep DEF Ticking, Entering
  <2> QED
    BY <2>4, <2>5
<1>4. CASE TickleExpire
  <2> DEFINE w == frame[nest].w
             f == Doing(nest, IF state[w] = "ACTIVE" THEN "routine" ELSE "more",
                        NULL, NULL, 0)
  <2>1. /\ w \in Watchdogs /\ Remove(w, nest)
        /\ frame[nest].pc = "expire" /\ frame[nest].tick /\ nest > 0
        /\ frame' = [frame EXCEPT ![nest] = f]
        /\ UNCHANGED <<initial, sync_count, nest>>
    BY <1>4, BelowTop DEF TickleExpire, StructInv, FramesOK, Ticking
  <2>2. f \in Frame /\ f.pc \in {"routine", "more"} /\ f.w = NULL /\ f.tick
    BY <2>1, BelowTop DEF Doing, Frame, Places
  <2> HIDE DEF f
  <2>3. /\ FramesOK' /\ frame' \in [Levels -> Frame] /\ nest' \in Levels
        /\ frame'[nest] = f
        /\ \A l \in Levels : l # nest => frame'[l] = frame[l]
    BY <2>1, <2>2, FramesStep DEF Ticking, Entering
  <2>4. TypeOK' /\ ChainLinked'
    BY <2>1, <2>3, BelowTop, RemoveLemma DEF StructInv, TypeOK
  <2>5. SyncCountExact'
    <3>1. \A l \in Levels : frame[l].pc \in {"enter", "flash"}
                              <=> frame'[l].pc \in {"enter", "flash"}
      BY <2>1, <2>2, <2>3
    <3> QED
      BY <3>1, <2>1, SameInserting DEF StructInv, SyncCountExact, Inserting
  <2>6. \A l \in Levels : l < nest /\ frame[l].pc \in Entering =>
           /\ frame'[nest].w # frame[l].w
           /\ state'[frame[l].w] = state[frame[l].w]
    BY <2>1, <2>2, <2>3, BelowTop, RemoveBelow, SMT
  <2>7. \A l \in Levels : l < nest /\ frame[l].pc = "flash" /\ sync_level' <= l
           => /\ frame[l].after \in Watchdogs
              /\ state'[frame[l].after] \in {"ACTIVE", "REMOVE_IT"}
    BY <2>1, BelowTop, RemoveBelow
  <2>8. frame'[nest].pc \notin Entering /\ frame'[nest].pc # "flash"
    BY <2>2, <2>3 DEF Entering
  <2>9. EntryExclusive' /\ SearchOnChain'
    BY <2>3, <2>6, <2>7, <2>8, TopStep
  <2> QED
    BY <2>3, <2>4, <2>5, <2>9 DEF StructInv
<1>5. CASE RoutineReturns
  <2> DEFINE f == [frame[nest] EXCEPT !.pc = "more"]
  <2>1. /\ frame[nest].pc = "routine" /\ frame[nest].tick /\ nest > 0
        /\ frame' = [frame EXCEPT ![nest] = f]
        /\ UNCHANGED <<initial, chainVars, syncVars, nest>>
    BY <1>5, BelowTop DEF RoutineReturns, StructInv, FramesOK, Ticking
  <2>2. /\ f \in Frame /\ f.pc = "more" /\ f.w = frame[nest].w
        /\ f.tick = frame[nest].tick
    BY BelowTop DEF Frame, Places
  <2> HIDE DEF f
  <2> QED
    BY <2>1, <2>2, <1>0, FrameOnlyStep DEF Ticking, Entering, chainVars, syncVars
<1>6. CASE TickleMore
  <2>1. CASE OneExpired
    <3> DEFINE f == Doing(nest, "expire", First, NULL, 0)
    <3>1. /\ frame[nest].pc = "more" /\ frame[nest].tick /\ nest > 0
          /\ First \in Watchdogs /\ OnChain(First)
          /\ frame' = [frame EXCEPT ![nest] = f]
          /\ UNCHANGED <<initial, chainVars, syncVars, nest>>
      BY <1>0, <1>6, <2>1, BelowTop
         DEF TickleMore, OneExpired, Empty, StructInv, FramesOK, Ticking
    <3>2. f \in Frame /\ f.pc = "expire" /\ f.w = First /\ f.tick
      BY <3>1, BelowTop DEF Doing, Frame, Places
    <3> HIDE DEF f
    <3> QED
      BY <3>1, <3>2, <1>0, FrameOnlyStep DEF Ticking, Entering, chainVars, syncVars
  <2>2. CASE ~OneExpired
    BY <1>0, <1>6, <2>2, LeaveTickStep DEF TickleMore, Ticking, chainVars, syncVars
  <2> QED
    BY <2>1, <2>2
<1> QED
  BY <1>1, <1>2, <1>3, <1>4, <1>5, <1>6 DEF Tickle

\* The steps of _Watchdog_Insert keep the invariant.
LEMMA InsertStep ==
  ASSUME StructInv, Insert
  PROVE  StructInv'
<1> USE WatchdogAssumption
<1>0. /\ First = TAIL \/ (First \in Watchdogs /\ OnChain(First))
      /\ initial \in [Watchdogs -> Nat]
      /\ remaining \in [Watchdogs -> Nat]
      /\ frame[nest].delta \in Nat
      /\ frame[nest].pc \in Entering \cup {"flash"} => frame[nest].w \in Watchdogs
  BY BelowTop, SMTT(30) DEF StructInv, ChainLinked, First, TypeOK, FramesOK, Frame
<1>1. CASE StartInsert
  BY <1>0, <1>1, EnterInsertStep DEF StartInsert, Entering
<1>2. CASE ResetInsert
  BY <1>0, <1>2, EnterInsertStep DEF ResetInsert, Entering
<1>3. CASE BeginSearch
  <2> DEFINE w == frame[nest].w
  <2>1. /\ frame[nest].pc = "enter" /\ w \in Watchdogs /\ UNCHANGED initial
        /\ SearchStep(w, First, initial[w])
        /\ remaining' = [remaining EXCEPT ![w] = initial[w]]
    BY <1>0, <1>3 DEF BeginSearch, Entering
  <2>2. /\ Inserting(nest) /\ state[w] = "BEING_INSERTED" /\ initial[w] \in Nat
        /\ remaining' \in [Watchdogs -> Nat]
    BY <1>0, <2>1, BelowTop
       DEF Inserting, StructInv, EntryExclusive, Entering
  <2> QED
    BY <1>0, <2>1, <2>2, SearchStepStep
<1>4. CASE AbortInsert
  <2>1. /\ Inserting(nest) /\ ExitInsert /\ UNCHANGED <<initial, chainVars>>
    BY <1>4 DEF AbortInsert, Inserting
  <2>2. ChainLinked'
    BY <2>1 DEF StructInv, ChainLinked, OnChain, chainVars
  <2> QED
    BY <2>1, <2>2, ExitInsertStep, SMTT(30) DEF StructInv, TypeOK, chainVars
<1>5. CASE RestartSearch
  <2> DEFINE f == Doing(nest, "enter", frame[nest].w, NULL, 0)
  <2>1. /\ frame[nest].pc = "flash" /\ frame[nest].w \in Watchdogs
        /\ state[frame[nest].w] = "BEING_INSERTED"
        /\ frame' = [frame EXCEPT ![nest] = f] /\ sync_level' = nest
        /\ UNCHANGED <<initial, chainVars, sync_count, nest>>
    BY <1>0, <1>5, BelowTop DEF RestartSearch, StillWanted
  <2>2. /\ f \in Frame /\ f.pc = "enter" /\ f.w = frame[nest].w
        /\ f.tick = frame[nest].tick /\ (f.tick => nest > 0)
    BY <2>1, BelowTop DEF Doing, Frame, Places, StructInv, FramesOK
  <2> HIDE DEF f
  <2> QED
    BY <2>1, <2>2, FrameOnlyStep
       DEF Ticking, Entering, chainVars, StructInv, TypeOK
<1>6. CASE ContinueSearch
  <2> DEFINE after == next[frame[nest].after]
  <2>1. /\ frame[nest].pc = "flash" /\ state[frame[nest].w] = "BEING_INSERTED"
        /\ sync_level <= nest
        /\ SearchStep(frame[nest].w, after, frame[nest].delta)
        /\ UNCHANGED <<initial, remaining>>
    BY <1>6 DEF ContinueSearch, StillWanted
  <2>2. after = TAIL \/ (after \in Watchdogs /\ OnChain(after))
    <3>1. frame[nest].after \in Watchdogs /\ OnChain(frame[nest].after)
      BY <2>1, BelowTop DEF OnChain
    <3> QED
      BY <3>1 DEF StructInv, ChainLinked
  <2>3. Inserting(nest)
    BY <2>1 DEF Inserting
  <2> HIDE DEF after
  <2> QED
    BY <1>0, <2>1, <2>2, <2>3, SearchStepStep
<1> QED
  BY <1>1, <1>2, <1>3, <1>4, <1>5, <1>6 DEF Insert

\* Taking the clock interrupt keeps the invariant.
LEMMA ClockTickStep ==
  ASSUME StructInv, ClockTick
  PROVE  StructInv'
<1> USE WatchdogAssumption
<1> DEFINE f == [IdleFrame EXCEPT !.pc = "tickle", !.tick = TRUE]
<1>1. /\ nest' = nest + 1 /\ nest + 1 \in Levels
      /\ frame' = [frame EXCEPT ![nest + 1] = f]
      /\ UNCHANGED <<initial, chainVars, syncVars>>
  BY DEF ClockTick
<1>2. f \in Frame /\ f.pc = "tickle" /\ f.w = NULL /\ f.tick = TRUE
  BY DEF IdleFrame, Frame, Places
<1>3. /\ nest \in Nat /\ frame \in [Levels -> Frame]
      /\ \A l \in Levels : l > nest => frame[l] = IdleFrame
      /\ IdleFrame.pc = "idle"
  BY BelowTop DEF StructInv, FramesOK, IdleFrame
<1> HIDE DEF f
<1>4. /\ frame' \in [Levels -> Frame] /\ frame'[nest + 1] = f
      /\ \A l \in Levels : l # nest + 1 => frame'[l] = frame[l]
  BY <1>1, <1>2, <1>3
<1>5. TypeOK'
  BY <1>1, <1>4 DEF StructInv, TypeOK, chainVars, syncVars
<1>6. ChainLinked'
  BY <1>1 DEF StructInv, ChainLinked, OnChain, chainVars
<1>7. FramesOK'
  <2> SUFFICES ASSUME NEW l \in Levels
               PROVE  /\ l > nest' => frame'[l] = IdleFrame
                      /\ frame'[l].tick => l > 0
                      /\ frame'[l].pc \in Ticking => frame'[l].tick
                      /\ frame'[l].pc = "idle" => ~frame'[l].tick
                      /\ frame'[l].pc \in Entering
                           \cup {"flash", "remove", "decrement", "expire"}
                           => frame'[l].w \in Watchdogs
    BY DEF FramesOK
  <2>1. CASE l = nest + 1
    BY <2>1, <1>1, <1>2, <1>3, <1>4, SMT DEF Entering
  <2>2. CASE l # nest + 1
    BY <2>2, <1>1, <1>3, <1>4, SMT DEF StructInv, FramesOK
  <2> QED
    BY <2>1, <2>2
<1>8. SyncCountExact'
  <2>1. \A l \in Levels : frame[l].pc \in {"enter", "flash"}
                            <=> frame'[l].pc \in {"enter", "flash"}
    BY <1>1, <1>2, <1>3, <1>4, SMT
  <2> QED
    BY <2>1, <1>1, SameInserting DEF StructInv, SyncCountExact, Inserting, syncVars
<1>9. EntryExclusive'
  <2> SUFFICES ASSUME NEW l \in Levels, frame'[l].pc \in Entering
               PROVE  /\ state'[frame'[l].w] =
                           IF frame'[l].pc = "enter" THEN "BEING_INSERTED"
                                                     ELSE "INACTIVE"
                      /\ \A m \in Levels : m > l => frame'[m].w # frame'[l].w
    BY DEF EntryExclusive
  <2>1. frame'[l] = frame[l] /\ frame[l].w \in Watchdogs
    BY <1>2, <1>4 DEF StructInv, FramesOK, Entering
  <2>2. state'[frame'[l].w] = IF frame'[l].pc = "enter" THEN "BEING_INSERTED"
                                                       ELSE "INACTIVE"
    BY <2>1, <1>1 DEF StructInv, EntryExclusive, chainVars
  <2>3. ASSUME NEW m \in Levels, m > l PROVE frame'[m].w # frame'[l].w
    BY <2>1, <2>3, <1>2, <1>4, SMT DEF StructInv, EntryExclusive
  <2> QED
    BY <2>2, <2>3
<1>10. SearchOnChain'
  <2> SUFFICES ASSUME NEW l \in Levels, frame'[l].pc = "flash", sync_level' <= l
               PROVE  frame'[l].after \in Watchdogs
                        /\ state'[frame'[l].after] \in {"ACTIVE", "REMOVE_IT"}
    BY DEF SearchOnChain, OnChain
  <2>1. frame'[l] = frame[l]
    BY <1>2, <1>4
  <2> QED
    BY <2>1, <1>1 DEF StructInv, SearchOnChain, OnChain, chainVars, syncVars
<1> QED
  BY <1>5, <1>6, <1>7, <1>8, <1>9, <1>10 DEF StructInv

-----------------------------------------------------------------------------
\* The initial state satisfies the invariant.
LEMMA StructInit == Init => StructInv
<1> SUFFICES ASSUME Init PROVE StructInv
  OBVIOUS
<1> USE WatchdogAssumption
<1>1. TypeOK
  BY SMT DEF Init, TypeOK, IdleFrame, Frame, Places
<1>2. FramesOK /\ EntryExclusive /\ SearchOnChain
  BY DEF Init, FramesOK, EntryExclusive, SearchOnChain, IdleFrame, Ticking,
         Entering
<1>3. ChainLinked
  BY DEF Init, ChainLinked, OnChain
<1>4. SyncCountExact
  <2>1. {l \in Levels : Inserting(l)} = {}
    BY DEF Init, Inserting, IdleFrame
  <2> QED
    BY <2>1, FS_EmptySet DEF Init, SyncCountExact
<1> QED
  BY <1>1, <1>2, <1>3, <1>4 DEF StructInv

\* Every step keeps the invariant, as long as no handler operates on a
\* watchdog whose insertion it interrupted before the search had begun.
LEMMA StructNext ==
  ASSUME EntryRace = FALSE, StructInv, [Next]_vars
  PROVE  StructInv'
<1>1. CASE Call
  <2> SUFFICES ASSUME NEW lv \in Levels, NEW w \in Watchdogs,
                      \/ Cancel(lv, w)
                      \/ \E u \in Intervals : FireAfter(lv, w, u)
                      \/ Reset(lv, w)
                      \/ Deactivate(lv, w)
               PROVE  StructInv'
    BY <1>1 DEF Call
  <2>1. CASE Cancel(lv, w)
    BY <2>1, CancelStep
  <2>2. ASSUME NEW u \in Intervals, FireAfter(lv, w, u) PROVE StructInv'
    <3>1. u \in Nat
      BY WatchdogAssumption
    <3> QED
      BY <2>2, <3>1, RemoveAndPush DEF FireAfter
  <2>3. CASE Reset(lv, w)
    BY <2>3, RemoveAndPush DEF Reset
  <2>4. CASE Deactivate(lv, w)
    BY <2>4, DeactivateStep
  <2> QED
    BY <2>1, <2>2, <2>3, <2>4
<1>2. CASE UNCHANGED vars
  BY <1>2, SMT DEF vars, StructInv, TypeOK, FramesOK, EntryExclusive, ChainLinked,
              SearchOnChain, SyncCountExact, OnChain, Inserting
<1> QED
  BY <1>1, <1>2, RemoveDeactivatedStep, InsertStep, ClockTickStep, TickleStep
     DEF Next

\* Whatever interrupts what, the delta chain remains a doubly linked list of
\* exactly the active and deactivated watchdogs, and _Watchdog_Sync_count is
\* the number of insertions in progress: for any number of watchdogs and
\* nesting levels, and whether or not the clock tick can be interrupted.
THEOREM StructureCorrect ==
  ASSUME EntryRace = FALSE
  PROVE  Spec => [](TypeOK /\ ChainLinked /\ SyncCountExact)
<1>1. StructInv /\ [Next]_vars => StructInv'
  BY StructNext
<1>2. StructInv => TypeOK /\ ChainLinked /\ SyncCountExact
  BY DEF StructInv
<1> QED
  BY <1>1, <1>2, StructInit, PTL DEF Spec

-----------------------------------------------------------------------------
(***************************************************************************)
(* The time that the chain represents.                                     *)
(***************************************************************************)

\* The chain has no loop beside it: the nodes before a watchdog are numbered.
Ranked ==
  \E pos \in [Watchdogs -> Nat] :
    \A w \in Watchdogs : OnChain(w) /\ previous[w] # HEAD =>
      pos[previous[w]] < pos[w]

TimeInv == DeltasExact /\ Ranked /\ SearchValid /\ NoneDue /\ TickAlone
             /\ IntervalsKept

\* A set of numbered nodes has one with the least number.
LEMMA LowestNode ==
  ASSUME NEW S, NEW pos \in [S -> Nat], S # {}
  PROVE  \E x \in S : \A y \in S : ~(pos[y] < pos[x])
<1> DEFINE R == OpToRel(<, Nat)
<1>1. R = {ss \in Nat \X Nat : ss[1] < ss[2]}
  BY DEF OpToRel
<1>2. IsWellFoundedOn(R, Nat)
  BY NatLessThanWellFounded
<1> DEFINE T == {pos[x] : x \in S}
<1>3. T \subseteq Nat /\ T # {}
  OBVIOUS
<1> HIDE DEF R
<1>4. \E n \in T : \A m \in T : ~(<<m, n>> \in R)
  BY <1>2, <1>3, WFMin
<1>5. PICK n \in T : \A m \in T : ~(<<m, n>> \in R)
  BY <1>4
<1>6. PICK x \in S : n = pos[x]
  <2>1. n \in {pos[x] : x \in S}
    BY <1>5
  <2> QED
    BY <2>1
<1>7. ASSUME NEW y \in S, pos[y] < pos[x] PROVE FALSE
  <2>1. pos[y] \in T /\ pos[y] \in Nat /\ pos[x] \in Nat
    OBVIOUS
  <2>2. <<pos[y], pos[x]>> \in R
    BY <2>1, <1>1, <1>7
  <2> QED
    BY <2>1, <2>2, <1>5, <1>6
<1> QED
  BY <1>7

\* Along a numbered chain nobody has less to wait than the first.
LEMMA FirstIsNext ==
  ASSUME NEW chain \in SUBSET Watchdogs, NEW pv, NEW rem \in [Watchdogs -> Nat],
         NEW pos \in [Watchdogs -> Nat],
         \A w \in chain : pv[w] = HEAD \/ pv[w] \in chain,
         \A w \in chain : pv[w] # HEAD => pos[pv[w]] < pos[w],
         \A w \in chain : pv[w] # HEAD => rem[pv[w]] <= rem[w],
         \A w \in chain : pv[w] = HEAD => rem[w] > 0
  PROVE  \A w \in chain : rem[w] > 0
<1> DEFINE S == {w \in chain : ~(rem[w] > 0)}
<1> SUFFICES ASSUME S # {} PROVE FALSE
  OBVIOUS
<1> DEFINE ps == [w \in S |-> pos[w]]
<1>1. ps \in [S -> Nat]
  OBVIOUS
<1>2. PICK x \in S : \A y \in S : ~(ps[y] < ps[x])
  <2> HIDE DEF S, ps
  <2> QED
    BY <1>1, LowestNode
<1>3. x \in chain /\ x \in Watchdogs /\ ~(rem[x] > 0) /\ pv[x] # HEAD
  BY <1>2
<1>4. pv[x] \in chain /\ pv[x] \in Watchdogs
  BY <1>3
<1>5. rem[pv[x]] <= rem[x] /\ pos[pv[x]] < pos[x]
  BY <1>3
<1>6. rem[pv[x]] \in Nat /\ rem[x] \in Nat
  BY <1>3, <1>4
<1>7. ~(rem[pv[x]] > 0)
  BY <1>3, <1>5, <1>6, SMT
<1>8. pv[x] \in S
  BY <1>4, <1>7
<1>9. ps[pv[x]] = pos[pv[x]] /\ ps[x] = pos[x]
  BY <1>8, <1>2
<1> QED
  BY <1>2, <1>5, <1>8, <1>9

-----------------------------------------------------------------------------
\* A removal hands the delta of the removed watchdog on to the next one, so
\* that all others keep the time they have left.
LEMMA RemoveTimes ==
  ASSUME TypeOK, ChainLinked, DeltasExact, NEW w \in Watchdogs,
         NEW lv \in Levels, Remove(w, lv)
  PROVE  /\ DeltasExact'
         /\ remaining' = [remaining EXCEPT ![w] = 0]
         /\ \A v \in Watchdogs : OnChain(v)' <=> OnChain(v) /\ v # w
<1> USE WatchdogAssumption
<1>1. /\ state' = [state EXCEPT ![w] = "INACTIVE"]
      /\ remaining' = [remaining EXCEPT ![w] = 0]
  BY DEF Remove
<1>2. \A v \in Watchdogs : OnChain(v)' <=> OnChain(v) /\ v # w
  BY <1>1 DEF OnChain, TypeOK
<1>3. /\ remaining \in [Watchdogs -> Nat] /\ delta_interval \in [Watchdogs -> Nat]
      /\ \A v \in Watchdogs : v # w => remaining'[v] = remaining[v]
  BY <1>1 DEF TypeOK
<1>4. ASSUME NEW v \in Watchdogs, OnChain(v)'
      PROVE  remaining'[v] = delta_interval'[v]
               + (IF previous'[v] = HEAD THEN 0 ELSE remaining'[previous'[v]])
  <2>1. OnChain(v) /\ v # w /\ remaining'[v] = remaining[v]
    BY <1>2, <1>3, <1>4
  <2>2. /\ previous[v] = HEAD \/ (previous[v] \in Watchdogs /\ OnChain(previous[v]))
        /\ next[previous[v]] = v
    BY <2>1 DEF ChainLinked
  <2>3. remaining[v] = delta_interval[v]
          + (IF previous[v] = HEAD THEN 0 ELSE remaining[previous[v]])
    BY <2>1 DEF DeltasExact
  <2>4. CASE ~OnChain(w)
    <3>1. UNCHANGED <<previous, delta_interval>>
      BY <2>4 DEF Remove
    <3>2. previous[v] # w
      BY <2>2, <2>4
    <3> QED
      BY <3>1, <3>2, <2>1, <2>2, <2>3, <1>3
  <2>5. CASE OnChain(w)
    <3>1. /\ previous' = [previous EXCEPT ![next[w]] = previous[w]]
          /\ delta_interval' =
               IF next[w] = TAIL THEN delta_interval
               ELSE [delta_interval EXCEPT ![next[w]] = @ + delta_interval[w]]
      BY <2>5 DEF Remove, Extract, Inherited
    <3>2. /\ next[w] = TAIL \/ (next[w] \in Watchdogs /\ OnChain(next[w]))
          /\ previous[next[w]] = w
          /\ previous[w] = HEAD \/ (previous[w] \in Watchdogs /\ OnChain(previous[w]))
          /\ next[previous[w]] = w
      BY <2>5 DEF ChainLinked
    <3>3. remaining[w] = delta_interval[w]
            + (IF previous[w] = HEAD THEN 0 ELSE remaining[previous[w]])
      BY <2>5 DEF DeltasExact
    <3>4. CASE v = next[w]
      <4>1. previous[v] = w /\ v # TAIL /\ previous[w] # w
        BY <3>2, <3>4, <2>1
      <4>2. previous'[v] = previous[w]
        BY <3>1, <3>4 DEF TypeOK
      <4>3. delta_interval'[v] = delta_interval[v] + delta_interval[w]
        BY <3>1, <3>4, <4>1, <1>3
      <4>4. remaining[v] = delta_interval[v] + remaining[w]
        BY <2>3, <4>1
      <4>5. CASE previous[w] = HEAD
        BY <4>2, <4>3, <4>4, <4>5, <3>3, <2>1, <1>3, SMT
      <4>6. CASE previous[w] # HEAD
        <5>1. remaining'[previous[w]] = remaining[previous[w]]
                /\ remaining[previous[w]] \in Nat
          BY <4>1, <4>6, <3>2, <1>3
        <5> QED
          BY <5>1, <4>2, <4>3, <4>4, <4>6, <3>3, <2>1, <1>3, SMT
      <4> QED
        BY <4>5, <4>6
    <3>5. CASE v # next[w]
      <4>1. previous'[v] = previous[v] /\ previous[v] # w
        BY <3>1, <3>5, <2>2 DEF TypeOK
      <4>2. delta_interval'[v] = delta_interval[v]
        BY <3>1, <3>5, <1>3
      <4> QED
        BY <4>1, <4>2, <2>1, <2>2, <2>3, <1>3
    <3> QED
      BY <3>4, <3>5
  <2> QED
    BY <2>4, <2>5
<1> QED
  BY <1>1, <1>2, <1>4 DEF DeltasExact

\* ... and the numbering of the chain goes on to fit.
LEMMA RemoveRanked ==
  ASSUME TypeOK, ChainLinked, Ranked, NEW w \in Watchdogs,
         NEW lv \in Levels, Remove(w, lv)
  PROVE  Ranked'
<1> USE WatchdogAssumption
<1>1. PICK pos \in [Watchdogs -> Nat] :
        \A v \in Watchdogs : OnChain(v) /\ previous[v] # HEAD =>
          pos[previous[v]] < pos[v]
  BY DEF Ranked
<1>2. ASSUME NEW v \in Watchdogs, OnChain(v)', previous'[v] # HEAD
      PROVE  pos[previous'[v]] < pos[v]
  <2>1. OnChain(v) /\ v # w
    BY <1>2 DEF Remove, OnChain, TypeOK
  <2>2. CASE ~OnChain(w)
    BY <2>1, <2>2, <1>1, <1>2 DEF Remove
  <2>3. CASE OnChain(w)
    <3>1. previous' = [previous EXCEPT ![next[w]] = previous[w]]
      BY <2>3 DEF Remove, Extract
    <3>2. /\ previous[next[w]] = w
          /\ previous[w] = HEAD \/ previous[w] \in Watchdogs
      BY <2>3 DEF ChainLinked
    <3>3. CASE v = next[w]
      <4>1. previous'[v] = previous[w] /\ previous[v] = w
        BY <3>1, <3>2, <3>3 DEF TypeOK
      <4>2. pos[previous[w]] < pos[w] /\ pos[w] < pos[v]
        BY <4>1, <2>1, <2>3, <1>1, <1>2
      <4>3. pos[previous[w]] \in Nat /\ pos[w] \in Nat /\ pos[v] \in Nat
        BY <4>1, <3>2, <1>1, <1>2
      <4> QED
        BY <4>1, <4>2, <4>3, SMT
    <3>4. CASE v # next[w]
      <4>1. previous'[v] = previous[v]
        BY <3>1, <3>4 DEF TypeOK
      <4> QED
        BY <4>1, <2>1, <1>1, <1>2
    <3> QED
      BY <3>3, <3>4
  <2> QED
    BY <2>2, <2>3
<1> QED
  BY <1>1, <1>2 DEF Ranked

\* A watchdog w linked in before after: how deltas and times change.
Spliced(w, after) ==
  /\ delta_interval'[w] \in Nat
  /\ after \in Watchdogs =>
       /\ delta_interval'[w] <= delta_interval[after]
       /\ delta_interval'[after] = delta_interval[after] - delta_interval'[w]
  /\ \A v \in Watchdogs : v # w /\ v # after => delta_interval'[v] = delta_interval[v]
  /\ \A v \in Watchdogs : v # w => remaining'[v] = remaining[v]
  /\ remaining'[w] = delta_interval'[w]
       + (IF previous[after] = HEAD THEN 0 ELSE remaining[previous[after]])

\* Linking a watchdog in front of another one, with a delta that makes up its
\* time and comes off the other's, leaves all others the time they have left.
LEMMA LinkTimes ==
  ASSUME TypeOK, ChainLinked, DeltasExact, NEW w \in Watchdogs, ~OnChain(w),
         NEW after, after = TAIL \/ (after \in Watchdogs /\ OnChain(after)),
         state' = [state EXCEPT ![w] = "ACTIVE"], Link(after, w), Spliced(w, after)
  PROVE  DeltasExact'
<1> USE WatchdogAssumption
<1> SUFFICES ASSUME NEW d \in Nat, delta_interval'[w] = d,
      after \in Watchdogs => /\ d <= delta_interval[after]
                             /\ delta_interval'[after] = delta_interval[after] - d,
      \A v \in Watchdogs : v # w /\ v # after => delta_interval'[v] = delta_interval[v],
      \A v \in Watchdogs : v # w => remaining'[v] = remaining[v],
      remaining'[w] = d + (IF previous[after] = HEAD THEN 0 ELSE remaining[previous[after]])
    PROVE DeltasExact'
  BY DEF Spliced
<1> DEFINE p == previous[after]
<1>1. /\ p = HEAD \/ (p \in Watchdogs /\ OnChain(p))
      /\ next[p] = after
      /\ w # p /\ w # after
  BY SMT DEF ChainLinked
<1>2. /\ previous' = [previous EXCEPT ![w] = p, ![after] = w]
      /\ after \in Nodes /\ previous \in [Nodes -> Nodes \cup {NULL}]
      /\ remaining \in [Watchdogs -> Nat] /\ delta_interval \in [Watchdogs -> Nat]
  BY <1>1 DEF Link, TypeOK
<1>3. /\ previous'[w] = p /\ previous'[after] = w
      /\ \A n \in Watchdogs : n # after /\ n # w => previous'[n] = previous[n]
  BY <1>1, <1>2
<1>4. \A v \in Watchdogs : OnChain(v)' <=> OnChain(v) \/ v = w
  BY DEF OnChain, TypeOK
<1>5. p \in Watchdogs => p # HEAD /\ remaining'[p] = remaining[p]
  BY <1>1
<1> HIDE DEF p
<1>6. ASSUME NEW v \in Watchdogs, OnChain(v)'
      PROVE  remaining'[v] = delta_interval'[v]
               + (IF previous'[v] = HEAD THEN 0 ELSE remaining'[previous'[v]])
  <2>1. CASE v = w
    BY <2>1, <1>1, <1>3, <1>5 DEF p
  <2>2. CASE v = after
    <3>1. /\ remaining[v] = delta_interval[v]
               + (IF p = HEAD THEN 0 ELSE remaining[p])
          /\ v # w /\ remaining'[v] = remaining[v]
      BY <2>2, <1>1, <1>4, <1>6 DEF DeltasExact, p
    <3>2. previous'[v] = w /\ w # HEAD
      BY <2>2, <1>3
    <3>3. remaining'[w] = d + (IF p = HEAD THEN 0 ELSE remaining[p])
      BY DEF p
    <3>4. d <= delta_interval[v] /\ delta_interval'[v] = delta_interval[v] - d
          /\ delta_interval[v] \in Nat
      BY <2>2, <1>2
    <3>5. CASE p = HEAD
      BY <3>1, <3>2, <3>3, <3>4, <3>5, SMT
    <3>6. CASE p # HEAD
      <4>1. remaining[p] \in Nat
        BY <3>6, <1>1, <1>2
      <4> QED
        BY <3>1, <3>2, <3>3, <3>4, <3>6, <4>1, SMT
    <3> QED
      BY <3>5, <3>6
  <2>3. CASE v # w /\ v # after
    <3>1. OnChain(v) /\ previous'[v] = previous[v]
      BY <2>3, <1>3, <1>4, <1>6
    <3>2. previous[v] = HEAD
            \/ (previous[v] \in Watchdogs /\ OnChain(previous[v]))
      BY <3>1 DEF ChainLinked
    <3>3. previous[v] # w
      BY <3>2
    <3>4. remaining[v] = delta_interval[v]
            + (IF previous[v] = HEAD THEN 0 ELSE remaining[previous[v]])
      BY <3>1 DEF DeltasExact
    <3> QED
      BY <2>3, <3>1, <3>2, <3>3, <3>4
  <2> QED
    BY <2>1, <2>2, <2>3
<1> QED
  BY <1>4, <1>6 DEF DeltasExact

\* ... and the chain can be numbered anew.
LEMMA LinkRanked ==
  ASSUME TypeOK, ChainLinked, Ranked, NEW w \in Watchdogs, ~OnChain(w),
         NEW after, after = TAIL \/ (after \in Watchdogs /\ OnChain(after)),
         state' = [state EXCEPT ![w] = "ACTIVE"], Link(after, w)
  PROVE  Ranked'
<1> USE WatchdogAssumption
<1> DEFINE p == previous[after]
<1>1. /\ p = HEAD \/ (p \in Watchdogs /\ OnChain(p))
      /\ next[p] = after
      /\ w # p /\ w # after
  BY SMT DEF ChainLinked
<1>2. /\ previous' = [previous EXCEPT ![w] = p, ![after] = w]
      /\ after \in Nodes /\ previous \in [Nodes -> Nodes \cup {NULL}]
  BY <1>1 DEF Link, TypeOK
<1>3. /\ previous'[w] = p /\ previous'[after] = w
      /\ \A n \in Watchdogs : n # after /\ n # w => previous'[n] = previous[n]
  BY <1>1, <1>2
<1>4. \A v \in Watchdogs : OnChain(v)' <=> OnChain(v) \/ v = w
  BY DEF OnChain, TypeOK
<1>5. PICK pos \in [Watchdogs -> Nat] :
        \A v \in Watchdogs : OnChain(v) /\ previous[v] # HEAD =>
          pos[previous[v]] < pos[v]
  BY DEF Ranked
<1> DEFINE k == IF p = HEAD THEN 0 ELSE pos[p] + 1
           new == [v \in Watchdogs |-> IF v = w THEN k
                                       ELSE IF pos[v] >= k THEN pos[v] + 1
                                       ELSE pos[v]]
<1>6. k \in Nat /\ (p # HEAD => k = pos[p] + 1 /\ pos[p] \in Nat)
  BY <1>1, <1>5, SMT
<1> HIDE DEF k, p
<1>7. /\ new \in [Watchdogs -> Nat] /\ new[w] = k
      /\ \A v \in Watchdogs : v # w /\ pos[v] >= k => new[v] = pos[v] + 1
      /\ \A v \in Watchdogs : v # w /\ ~(pos[v] >= k) => new[v] = pos[v]
      /\ \A v \in Watchdogs : pos[v] \in Nat
  BY <1>5, <1>6, SMT
<1> HIDE DEF new
<1>8. ASSUME NEW v \in Watchdogs, OnChain(v)', previous'[v] # HEAD
      PROVE  new[previous'[v]] < new[v]
  <2>1. CASE v = w
    <3>1. previous'[v] = p /\ p # HEAD /\ p \in Watchdogs /\ p # w
      BY <2>1, <1>1, <1>3, <1>8
    <3>2. new[p] = pos[p] /\ k = pos[p] + 1 /\ pos[p] \in Nat
      BY <3>1, <1>6, <1>7, SMT
    <3> QED
      BY <2>1, <3>1, <3>2, <1>7, SMT
  <2>2. CASE v = after
    <3>1. previous'[v] = w /\ v # w /\ OnChain(v)
      BY <2>2, <1>1, <1>3, <1>4, <1>8
    <3>2. pos[v] >= k
      <4>1. CASE p = HEAD
        BY <4>1, <1>7, SMT DEF k
      <4>2. CASE p # HEAD
        <5>1. pos[p] < pos[v]
          BY <2>2, <3>1, <4>2, <1>5 DEF p
        <5> QED
          BY <5>1, <4>2, <1>6, <1>7, SMT
      <4> QED
        BY <4>1, <4>2
    <3>3. new[v] = pos[v] + 1 /\ new[w] = k
      BY <3>1, <3>2, <1>7
    <3> QED
      BY <3>1, <3>2, <3>3, <1>6, <1>7, SMT
  <2>3. CASE v # w /\ v # after
    <3>1. OnChain(v) /\ previous'[v] = previous[v]
      BY <2>3, <1>3, <1>4, <1>8
    <3>2. previous[v] \in Watchdogs /\ OnChain(previous[v])
      BY <3>1, <1>8 DEF ChainLinked
    <3>3. previous[v] # w /\ pos[previous[v]] < pos[v]
      BY <3>1, <3>2, <1>5, <1>8
    <3>4. pos[v] \in Nat /\ pos[previous[v]] \in Nat
      BY <3>2, <1>7
    <3>5. CASE pos[previous[v]] >= k
      <4>1. pos[v] >= k
        BY <3>3, <3>4, <3>5, <1>6, SMT
      <4>2. new[v] = pos[v] + 1 /\ new[previous[v]] = pos[previous[v]] + 1
        BY <4>1, <3>2, <3>3, <3>5, <2>3, <1>7
      <4> QED
        BY <4>2, <3>1, <3>3, <3>4, SMT
    <3>6. CASE ~(pos[previous[v]] >= k)
      <4>1. new[previous[v]] = pos[previous[v]]
        BY <3>2, <3>3, <3>6, <1>7
      <4>2. new[v] = pos[v] \/ new[v] = pos[v] + 1
        BY <2>3, <1>7
      <4> QED
        BY <4>1, <4>2, <3>1, <3>3, <3>4, SMT
    <3> QED
      BY <3>5, <3>6
  <2> QED
    BY <2>1, <2>2, <2>3
<1> QED
  BY <1>7, <1>8 DEF Ranked

\* Nothing moves on the chain, and the deltas and times are as they were.
LEMMA ChainUntouched ==
  ASSUME TypeOK, ChainLinked, DeltasExact, Ranked,
         UNCHANGED <<delta_interval, next, previous>>,
         \A v \in Watchdogs : OnChain(v)' <=> OnChain(v),
         \A v \in Watchdogs : OnChain(v) => remaining'[v] = remaining[v]
  PROVE  DeltasExact' /\ Ranked'
<1> USE WatchdogAssumption
<1>1. DeltasExact'
  <2> SUFFICES ASSUME NEW v \in Watchdogs, OnChain(v)'
               PROVE  remaining'[v] = delta_interval'[v]
                        + (IF previous'[v] = HEAD THEN 0
                           ELSE remaining'[previous'[v]])
    BY DEF DeltasExact
  <2>1. OnChain(v) /\ (previous[v] = HEAD
            \/ (previous[v] \in Watchdogs /\ OnChain(previous[v])))
    BY DEF ChainLinked
  <2>2. remaining[v] = delta_interval[v]
          + (IF previous[v] = HEAD THEN 0 ELSE remaining[previous[v]])
    BY <2>1 DEF DeltasExact
  <2> QED
    BY <2>1, <2>2
<1>2. Ranked'
  BY DEF Ranked
<1> QED
  BY <1>1, <1>2

\* With a first watchdog that has time left, every one on the chain has.
LEMMA AllHaveTime ==
  ASSUME TypeOK', ChainLinked', DeltasExact', Ranked',
         First' = TAIL \/ delta_interval'[First'] # 0
  PROVE  \A w \in Watchdogs : OnChain(w)' => remaining'[w] > 0
<1> USE WatchdogAssumption
<1>1. PICK pos \in [Watchdogs -> Nat] :
        \A w \in Watchdogs : OnChain(w)' /\ previous'[w] # HEAD =>
          pos[previous'[w]] < pos[w]
  BY DEF Ranked
<1> DEFINE chain == {w \in Watchdogs : OnChain(w)'}
           pv == previous'
           rem == remaining'
<1>2. rem \in [Watchdogs -> Nat] /\ delta_interval' \in [Watchdogs -> Nat]
  BY DEF TypeOK
<1>3. /\ \A w \in chain : w \in Watchdogs /\ (pv[w] = HEAD \/ pv[w] \in chain)
      /\ \A w \in chain : next'[pv[w]] = w
  <2> SUFFICES ASSUME NEW w \in chain
               PROVE  w \in Watchdogs /\ (pv[w] = HEAD \/ pv[w] \in chain)
                        /\ next'[pv[w]] = w
    OBVIOUS
  <2>1. w \in Watchdogs /\ OnChain(w)'
    OBVIOUS
  <2>2. /\ previous'[w] = HEAD
             \/ (previous'[w] \in Watchdogs /\ state'[previous'[w]] \in {"ACTIVE", "REMOVE_IT"})
        /\ next'[previous'[w]] = w
    BY <2>1 DEF ChainLinked, OnChain
  <2> QED
    BY <2>1, <2>2 DEF OnChain
<1>4. \A w \in chain : pv[w] # HEAD => pos[pv[w]] < pos[w]
  BY <1>1
<1>5. \A w \in chain : rem[w] = delta_interval'[w]
                                  + (IF pv[w] = HEAD THEN 0 ELSE rem[pv[w]])
  BY DEF DeltasExact
<1>6. \A w \in chain : pv[w] # HEAD => rem[pv[w]] <= rem[w]
  <2> SUFFICES ASSUME NEW w \in chain, pv[w] # HEAD
               PROVE  rem[pv[w]] <= rem[w]
    OBVIOUS
  <2>1. w \in Watchdogs /\ pv[w] \in Watchdogs
    BY <1>3
  <2>2. rem[w] = delta_interval'[w] + rem[pv[w]]
    BY <1>5
  <2>3. rem[w] \in Nat /\ rem[pv[w]] \in Nat /\ delta_interval'[w] \in Nat
    BY <2>1, <1>2
  <2> QED
    BY <2>2, <2>3, SMT
<1>7. \A w \in chain : pv[w] = HEAD => rem[w] > 0
  <2> SUFFICES ASSUME NEW w \in chain, pv[w] = HEAD
               PROVE  rem[w] > 0
    OBVIOUS
  <2>1. w = First' /\ w # TAIL /\ w \in Watchdogs
    BY <1>3 DEF First
  <2>2. rem[w] = delta_interval'[w] + 0 /\ delta_interval'[w] # 0
    BY <1>5, <2>1
  <2>3. delta_interval'[w] \in Nat
    BY <2>1, <1>2
  <2> QED
    BY <2>2, <2>3, SMT
<1> HIDE DEF pv, rem, chain
<1>8. chain \in SUBSET Watchdogs /\ \A w \in chain : pv[w] = HEAD \/ pv[w] \in chain
  BY <1>3 DEF chain
<1>9. \A w \in chain : rem[w] > 0
  BY <1>2, <1>4, <1>6, <1>7, <1>8, FirstIsNext, SMT
<1> QED
  BY <1>9 DEF chain, rem

-----------------------------------------------------------------------------
\* What SearchValid says of a search that resumes.
Found(l) ==
  /\ frame[l].after \in Watchdogs /\ OnChain(frame[l].after)
  /\ remaining[frame[l].w] = frame[l].delta + remaining[frame[l].after]

\* Where a call is made, when the clock tick handler is not interrupted.
LEMMA CallPlace ==
  ASSUME StructInv, TickAlone, TickInterruptible = FALSE, NEW lv \in Levels,
         Calls(lv)
  PROVE  /\ lv = nest \/ lv = nest + 1
         /\ \A l \in Levels : l # lv => ~frame[l].tick
         /\ lv = nest + 1 => ~frame[lv].tick
         /\ frame[lv].pc \in {"idle", "routine"}
         /\ \A l \in Levels : l > lv => frame[l].pc = "idle"
<1> USE WatchdogAssumption
<1>1. /\ lv = nest \/ lv = nest + 1
      /\ frame[lv].pc \in {"idle", "routine"}
      /\ \A l \in Levels : l > lv => frame[l].pc = "idle"
  BY CallsLevel, SMT DEF IdleFrame
<1>2. nest \in Nat /\ nest \in Levels
  BY BelowTop
<1>3. CASE lv = nest
  BY <1>1, <1>2, <1>3, SMT DEF TickAlone
<1>4. CASE lv # nest
  <2>1. ~frame[nest].tick
    BY <1>4 DEF Calls
  <2>2. \A l \in Levels : ~frame[l].tick
    BY <2>1 DEF TickAlone
  <2> QED
    BY <1>1, <2>2
<1> QED
  BY <1>3, <1>4

\* A search that resumes after a step resumed before it, if the step says
\* nothing of the chain and leaves alone whoever inserts.
LEMMA ResumesBack ==
  ASSUME NEW l \in Levels, frame'[l] = frame[l], Resumes(l)',
         sync_level' = sync_level,
         state'[frame[l].w] = "BEING_INSERTED" =>
           state[frame[l].w] = "BEING_INSERTED",
         \A m \in Levels : m > l /\ Inserting(m) =>
           frame'[m].w = frame[m].w /\ frame'[m].pc \in {"enter", "flash"}
  PROVE  Resumes(l)
BY DEF Resumes, Inserting

\* A removal leaves alone the searches that it does not tell of itself.
LEMMA RemoveFound ==
  ASSUME StructInv, SearchValid, NEW v \in Watchdogs, NEW lv \in Levels,
         Remove(v, lv), NEW l \in Levels, l < lv, frame'[l] = frame[l],
         Resumes(l)',
         \A m \in Levels : Inserting(m) => frame'[m] = frame[m]
  PROVE  Found(l)'
<1> USE WatchdogAssumption
<1>1. frame[l].pc = "flash" /\ sync_level' <= l
        /\ state'[frame[l].w] = "BEING_INSERTED"
  BY DEF Resumes
<1>2. frame[l].w \in Watchdogs
  BY <1>1 DEF StructInv, FramesOK
<1>3. sync_count # 0
  BY <1>1, SyncCountPositive DEF StructInv, Inserting
<1>4. /\ state' = [state EXCEPT ![v] = "INACTIVE"]
      /\ OnChain(v) /\ sync_count # 0 => sync_level' = lv
      /\ ~OnChain(v) \/ sync_count = 0 => sync_level' = sync_level
  BY RemoveLemma DEF StructInv
<1>5. ~OnChain(v) /\ sync_level' = sync_level
  BY <1>1, <1>3, <1>4, SMT
<1>6. frame[l].w # v /\ state[frame[l].w] = "BEING_INSERTED"
  BY <1>1, <1>2, <1>4 DEF StructInv, TypeOK
<1>7. Resumes(l)
  BY <1>5, <1>6, ResumesBack DEF Inserting
<1>8. Found(l)
  BY <1>7 DEF SearchValid, Found
<1>9. frame[l].after \in Watchdogs /\ OnChain(frame[l].after) /\ frame[l].after # v
  BY <1>5, <1>8 DEF Found
<1>10. OnChain(frame[l].after)' /\ frame'[l].after = frame[l].after
  BY <1>4, <1>9 DEF OnChain, StructInv, TypeOK
<1>11. remaining' = [remaining EXCEPT ![v] = 0] /\ remaining \in [Watchdogs -> Nat]
  BY DEF Remove, StructInv, TypeOK
<1>12. remaining'[frame[l].w] = remaining[frame[l].w]
         /\ remaining'[frame[l].after] = remaining[frame[l].after]
  BY <1>2, <1>6, <1>9, <1>11
<1> QED
  BY <1>8, <1>9, <1>10, <1>12 DEF Found, OnChain

\* A step that removes a watchdog and moves the frame of the level that does.
LEMMA RemovalTimes ==
  ASSUME StructInv, TimeInv, NEW v \in Watchdogs, NEW lv \in Levels,
         Remove(v, lv), UNCHANGED initial,
         \A l \in Levels : l # lv => frame'[l] = frame[l] /\ ~frame[l].tick,
         \A l \in Levels : l > lv => frame[l].pc = "idle",
         frame[lv].pc \notin {"enter", "flash"},
         frame'[lv].pc \notin {"enter", "flash", "decrement", "expire"},
         frame'[lv].tick => lv = nest',
         Processing(lv) => Processing(lv)',
         frame'[lv].pc = "start" => frame'[lv].delta \in Intervals,
         frame'[lv].pc = "insert" => initial[frame'[lv].w] # 0
  PROVE  TimeInv'
<1> USE WatchdogAssumption
<1>0. /\ TypeOK /\ ChainLinked /\ DeltasExact /\ Ranked /\ SearchValid
      /\ NoneDue /\ TickAlone /\ IntervalsKept
  BY DEF StructInv, TimeInv
<1>1. DeltasExact' /\ Ranked'
  BY <1>0, RemoveTimes, RemoveRanked
<1>2. /\ remaining' = [remaining EXCEPT ![v] = 0]
      /\ \A x \in Watchdogs : OnChain(x)' <=> OnChain(x) /\ x # v
      /\ remaining \in [Watchdogs -> Nat] /\ initial \in [Watchdogs -> Nat]
      /\ state \in [Watchdogs -> States]
      /\ state' = [state EXCEPT ![v] = "INACTIVE"]
  BY <1>0, RemoveTimes DEF TypeOK, Remove
<1>3. SearchValid'
  <2> SUFFICES ASSUME NEW l \in Levels, Resumes(l)' PROVE Found(l)'
    BY DEF SearchValid, Found
  <2>1. l < lv /\ frame'[l] = frame[l]
    BY SMT DEF Resumes
  <2>2. \A m \in Levels : Inserting(m) => frame'[m] = frame[m]
    BY DEF Inserting
  <2> QED
    BY <1>0, <2>1, <2>2, RemoveFound
<1>4. NoneDue'
  <2>1. \A l \in Levels : Processing(l) => Processing(l)'
    BY DEF Processing
  <2>2. \A x \in Watchdogs : OnChain(x)' => OnChain(x) /\ remaining'[x] = remaining[x]
    BY <1>2
  <2> QED
    BY <1>0, <2>1, <2>2 DEF NoneDue
<1>5. TickAlone'
  <2> SUFFICES ASSUME NEW l \in Levels
               PROVE  /\ frame'[l].tick => l = nest'
                      /\ frame'[l].pc \notin {"decrement", "expire"}
    BY DEF TickAlone
  <2>1. CASE l = lv
    BY <2>1
  <2>2. CASE l # lv
    BY <2>2 DEF StructInv, FramesOK, Ticking
  <2> QED
    BY <2>1, <2>2
<1>6. IntervalsKept'
  <2>1. ASSUME NEW x \in Watchdogs
        PROVE  /\ initial'[x] \in Intervals \cup {0} /\ remaining'[x] <= initial'[x]
               /\ state'[x] = "INACTIVE" => remaining'[x] = 0
    <3>1. initial[x] \in Intervals \cup {0} /\ remaining[x] <= initial[x]
            /\ (state[x] = "INACTIVE" => remaining[x] = 0) /\ initial[x] \in Nat
      BY <1>0, <1>2 DEF IntervalsKept
    <3>2. CASE x = v
      BY <3>1, <3>2, <1>2, SMT
    <3>3. CASE x # v
      BY <3>1, <3>3, <1>2
    <3> QED
      BY <3>2, <3>3
  <2>2. ASSUME NEW l \in Levels
        PROVE  /\ frame'[l].pc = "start" => frame'[l].delta \in Intervals
               /\ frame'[l].pc \in {"insert", "enter", "flash"} =>
                    initial'[frame'[l].w] # 0
               /\ frame'[l].pc = "flash" /\ frame'[l].tick =>
                    remaining'[frame'[l].w] > 0
    <3>1. CASE l = lv
      BY <3>1
    <3>2. CASE l # lv
      BY <3>2, <1>0 DEF IntervalsKept
    <3> QED
      BY <3>1, <3>2
  <2> QED
    BY <2>1, <2>2 DEF IntervalsKept
<1> QED
  BY <1>1, <1>3, <1>4, <1>5, <1>6 DEF TimeInv

\* A step that touches neither the chain nor the times.
LEMMA QuietTimes ==
  ASSUME StructInv, TimeInv,
         UNCHANGED <<delta_interval, next, previous, remaining>>,
         \A x \in Watchdogs : OnChain(x)' <=> OnChain(x),
         \A l \in Levels : Resumes(l)' => Resumes(l) /\ frame'[l] = frame[l],
         NoneDue', TickAlone', IntervalsKept'
  PROVE  TimeInv'
<1>1. DeltasExact' /\ Ranked'
  BY ChainUntouched DEF StructInv, TimeInv
<1>2. SearchValid'
  <2> SUFFICES ASSUME NEW l \in Levels, Resumes(l)' PROVE Found(l)'
    BY DEF SearchValid, Found
  <2>1. frame'[l] = frame[l] /\ Found(l)
    BY DEF TimeInv, SearchValid, Found
  <2> QED
    BY <2>1 DEF Found, OnChain
<1> QED
  BY <1>1, <1>2 DEF TimeInv

-----------------------------------------------------------------------------
\* rtems_timer_cancel
LEMMA CancelTimes ==
  ASSUME StructInv, TimeInv, TickInterruptible = FALSE, NEW lv \in Levels,
         NEW w \in Watchdogs, Cancel(lv, w)
  PROVE  TimeInv'
<1>1. /\ Calls(lv) /\ Remove(w, lv) /\ UNCHANGED <<initial, nest, frame>>
  BY DEF Cancel
<1>2. /\ \A l \in Levels : l # lv => ~frame[l].tick
      /\ lv = nest \/ ~frame[lv].tick
      /\ frame[lv].pc \in {"idle", "routine"}
      /\ \A l \in Levels : l > lv => frame[l].pc = "idle"
  BY <1>1, CallPlace DEF TimeInv
<1> QED
  BY <1>1, <1>2, RemovalTimes DEF Processing

\* rtems_timer_fire_after and rtems_timer_reset, up to the insertion.
LEMMA PushTimes ==
  ASSUME StructInv, TimeInv, TickInterruptible = FALSE, NEW lv \in Levels,
         NEW w \in Watchdogs, Calls(lv), Remove(w, lv), nest' = lv,
         NEW pc \in {"start", "insert"}, NEW d,
         frame' = [frame EXCEPT ![lv] = Doing(lv, pc, w, NULL, d)],
         pc = "start" => d \in Intervals, pc = "insert" => initial[w] # 0,
         UNCHANGED initial
  PROVE  TimeInv'
<1>1. /\ \A l \in Levels : l # lv => ~frame[l].tick
      /\ frame[lv].pc \in {"idle", "routine"}
      /\ \A l \in Levels : l > lv => frame[l].pc = "idle"
  BY CallPlace DEF TimeInv
<1>2. /\ frame'[lv] = [pc |-> pc, w |-> w, after |-> NULL, delta |-> d,
                       tick |-> frame[lv].tick]
      /\ \A l \in Levels : l # lv => frame'[l] = frame[l]
  BY BelowTop DEF Doing
<1> QED
  BY <1>1, <1>2, RemovalTimes, SMT DEF Processing

\* _Watchdog_Deactivate
LEMMA DeactivateTimes ==
  ASSUME StructInv, TimeInv, TickInterruptible = FALSE, NEW lv \in Levels,
         NEW w \in Watchdogs, Deactivate(lv, w)
  PROVE  TimeInv'
<1> USE WatchdogAssumption
<1>0. /\ TypeOK /\ NoneDue /\ TickAlone /\ IntervalsKept
  BY DEF StructInv, TimeInv
<1>1. /\ Calls(lv) /\ state[w] = "ACTIVE" /\ state' = [state EXCEPT ![w] = "REMOVE_IT"]
      /\ nest' = lv
      /\ UNCHANGED <<initial, delta_interval, next, previous, sync_level, remaining>>
  BY DEF Deactivate, Deactivated, syncVars
<1>2. /\ \A l \in Levels : l # lv => ~frame[l].tick
      /\ frame[lv].pc \in {"idle", "routine"}
      /\ \A l \in Levels : l > lv => frame[l].pc = "idle"
  BY <1>0, <1>1, CallPlace
<1>3. /\ frame'[lv] = [pc |-> "remove", w |-> w, after |-> NULL, delta |-> 0,
                       tick |-> frame[lv].tick]
      /\ \A l \in Levels : l # lv => frame'[l] = frame[l]
  BY BelowTop DEF Deactivate, Doing
<1>4. \A x \in Watchdogs : /\ OnChain(x)' <=> OnChain(x)
                           /\ state'[x] = "BEING_INSERTED" => state[x] = "BEING_INSERTED"
                           /\ state'[x] = "INACTIVE" => state[x] = "INACTIVE"
  BY <1>0, <1>1 DEF OnChain, TypeOK
<1>5. ASSUME NEW l \in Levels, Resumes(l)'
      PROVE  Resumes(l) /\ frame'[l] = frame[l]
  <2>1. l # lv /\ frame'[l] = frame[l]
    BY <1>3, <1>5, SMT DEF Resumes
  <2>2. frame[l].w \in Watchdogs
    BY <2>1, <1>5 DEF Resumes, StructInv, FramesOK
  <2>3. \A m \in Levels : Inserting(m) => frame'[m] = frame[m]
    BY <1>2, <1>3 DEF Inserting
  <2> QED
    BY <2>1, <2>2, <2>3, <1>1, <1>4, <1>5, ResumesBack DEF Inserting
<1>6. NoneDue'
  <2>1. \A l \in Levels : Processing(l) => Processing(l)'
    BY <1>3, SMT DEF Processing
  <2> QED
    BY <1>0, <1>1, <1>4, <2>1 DEF NoneDue
<1>7. TickAlone'
  <2> SUFFICES ASSUME NEW l \in Levels
               PROVE  /\ frame'[l].tick => l = nest'
                      /\ frame'[l].pc \notin {"decrement", "expire"}
    BY DEF TickAlone
  <2>1. CASE l = lv
    BY <2>1, <1>1, <1>3, SMT
  <2>2. CASE l # lv
    BY <2>2, <1>2, <1>3 DEF StructInv, FramesOK, Ticking
  <2> QED
    BY <2>1, <2>2
<1>8. IntervalsKept'
  <2>1. \A x \in Watchdogs :
          /\ initial'[x] \in Intervals \cup {0} /\ remaining'[x] <= initial'[x]
          /\ state'[x] = "INACTIVE" => remaining'[x] = 0
    BY <1>0, <1>1, <1>4 DEF IntervalsKept
  <2>2. ASSUME NEW l \in Levels
        PROVE  /\ frame'[l].pc = "start" => frame'[l].delta \in Intervals
               /\ frame'[l].pc \in {"insert", "enter", "flash"} =>
                    initial'[frame'[l].w] # 0
               /\ frame'[l].pc = "flash" /\ frame'[l].tick =>
                    remaining'[frame'[l].w] > 0
    <3>1. CASE l = lv
      BY <3>1, <1>3, SMT
    <3>2. CASE l # lv
      BY <3>2, <1>0, <1>1, <1>3 DEF IntervalsKept
    <3> QED
      BY <3>1, <3>2
  <2> QED
    BY <2>1, <2>2 DEF IntervalsKept
<1> QED
  BY <1>1, <1>4, <1>5, <1>6, <1>7, <1>8, QuietTimes

\* The frame of the current level after a return.
LEMMA ReturnFrame ==
  ASSUME StructInv, Return, frame[nest].pc # "idle"
  PROVE  /\ frame'[nest].pc \in {"idle", "routine"}
         /\ frame'[nest].tick = frame[nest].tick
         /\ frame[nest].tick => nest' = nest
         /\ \A l \in Levels : l # nest => frame'[l] = frame[l]
<1>1. /\ frame' = [frame EXCEPT ![nest] =
                     IF frame[nest].tick THEN Doing(nest, "routine", NULL, NULL, 0)
                                         ELSE IdleFrame]
      /\ nest' = IF frame[nest].tick \/ nest = 0 THEN nest ELSE nest - 1
      /\ nest \in Levels /\ frame \in [Levels -> Frame] /\ frame[nest].tick \in BOOLEAN
  BY BelowTop DEF Return
<1>2. CASE frame[nest].tick
  BY <1>1, <1>2 DEF Doing
<1>3. CASE ~frame[nest].tick
  BY <1>1, <1>3 DEF IdleFrame
<1> QED
  BY <1>2, <1>3

\* The current level, and who has a tick to deal with.
LEMMA TopTimes ==
  ASSUME StructInv, TickAlone
  PROVE  /\ nest \in Levels /\ nest \in Nat
         /\ \A l \in Levels : l # nest => ~frame[l].tick
         /\ \A l \in Levels : l # nest => frame[l].pc \notin Ticking
         /\ \A l \in Levels : l > nest => frame[l].pc = "idle"
         /\ frame[nest].tick \in BOOLEAN
<1>1. nest \in Levels /\ nest \in Nat /\ frame[nest].tick \in BOOLEAN
  BY BelowTop
<1>2. \A l \in Levels : l # nest => ~frame[l].tick
  BY DEF TickAlone
<1> QED
  BY <1>1, <1>2, SMT DEF StructInv, FramesOK, IdleFrame

\* The removal of a deactivated watchdog.
LEMMA RemoveDeactivatedTimes ==
  ASSUME StructInv, TimeInv, RemoveDeactivated
  PROVE  TimeInv'
<1>1. /\ frame[nest].w \in Watchdogs /\ Remove(frame[nest].w, nest) /\ Return
      /\ frame[nest].pc = "remove" /\ UNCHANGED initial
  BY BelowTop DEF RemoveDeactivated, StructInv, FramesOK
<1>2. /\ nest \in Levels
      /\ \A l \in Levels : l # nest => ~frame[l].tick
      /\ \A l \in Levels : l > nest => frame[l].pc = "idle"
  BY TopTimes DEF TimeInv
<1>3. /\ frame'[nest].pc \in {"idle", "routine"}
      /\ frame'[nest].tick = frame[nest].tick
      /\ frame[nest].tick => nest' = nest
      /\ \A l \in Levels : l # nest => frame'[l] = frame[l]
  BY <1>1, ReturnFrame
<1>5. PICK k \in Levels : k = nest
  BY <1>2
<1>6. Processing(k) => Processing(k)'
  BY <1>3, <1>5 DEF Processing
<1>7. PICK v \in Watchdogs : v = frame[nest].w
  BY <1>1
<1>8. /\ Remove(v, k)
      /\ \A l \in Levels : l # k => frame'[l] = frame[l] /\ ~frame[l].tick
      /\ \A l \in Levels : l > k => frame[l].pc = "idle"
      /\ frame[k].pc \notin {"enter", "flash"}
      /\ frame'[k].pc \in {"idle", "routine"}
      /\ frame'[k].tick => k = nest'
  BY <1>1, <1>2, <1>3, <1>5, <1>7
<1> QED
  BY <1>1, <1>6, <1>8, RemovalTimes

\* The expiry of a watchdog in _Watchdog_Tickle.
LEMMA TickleExpireTimes ==
  ASSUME StructInv, TimeInv, TickleExpire
  PROVE  TimeInv'
<1>1. PICK k \in Levels, v \in Watchdogs : k = nest /\ v = frame[nest].w
  BY BelowTop DEF TickleExpire, StructInv, FramesOK
<1>2. /\ Remove(v, k) /\ UNCHANGED <<initial, nest>>
      /\ frame[k].pc = "expire"
      /\ frame' = [frame EXCEPT ![k] =
           Doing(k, IF state[v] = "ACTIVE" THEN "routine" ELSE "more", NULL, NULL, 0)]
  BY <1>1 DEF TickleExpire
<1>3. /\ frame'[k].pc \in {"routine", "more"}
      /\ frame'[k].tick = frame[k].tick
      /\ \A l \in Levels : l # k => frame'[l] = frame[l]
  BY <1>2, BelowTop DEF Doing
<1>4. /\ \A l \in Levels : l # k => ~frame[l].tick
      /\ \A l \in Levels : l > k => frame[l].pc = "idle"
  BY <1>1, TopTimes DEF TimeInv
<1>5. Processing(k) => Processing(k)'
  BY <1>3 DEF Processing
<1>6. k = nest'
  BY <1>1, <1>2
<1> QED
  BY <1>2, <1>3, <1>4, <1>5, <1>6, RemovalTimes

-----------------------------------------------------------------------------
\* A step of the current level that moves its frame and says nothing of the
\* chain; what it leaves must fit, and it keeps inserting or does not begin to.
LEMMA MoveTimes ==
  ASSUME StructInv, TimeInv,
         UNCHANGED <<delta_interval, next, previous, remaining>>,
         \A x \in Watchdogs : OnChain(x)' <=> OnChain(x),
         NEW k \in Levels, k = nest,
         \A l \in Levels : l # k => frame'[l] = frame[l],
         frame'[k].pc # "flash",
         \/ sync_level' = k
         \/ /\ sync_level' = sync_level
            /\ frame[k].pc \notin {"enter", "flash"},
         \A l \in Levels : l < k /\ frame[l].pc = "flash" /\ sync_level' <= l
                             /\ state'[frame[l].w] = "BEING_INSERTED"
                             /\ (frame'[k].w # frame[l].w
                                   \/ frame'[k].pc \notin {"enter", "flash"})
           => state[frame[l].w] = "BEING_INSERTED",
         NoneDue', TickAlone', IntervalsKept'
  PROVE  TimeInv'
<1> USE WatchdogAssumption
<1>1. ASSUME NEW l \in Levels, Resumes(l)'
      PROVE  Resumes(l) /\ frame'[l] = frame[l]
  <2>1. l # k /\ frame'[l] = frame[l]
    BY <1>1 DEF Resumes
  <2>2. /\ frame[l].pc = "flash" /\ sync_level' <= l
        /\ state'[frame[l].w] = "BEING_INSERTED"
        /\ \A m \in Levels : m > l => frame'[m].w # frame[l].w
                                        \/ frame'[m].pc \notin {"enter", "flash"}
    BY <2>1, <1>1 DEF Resumes, Inserting
  <2>3. l < k
    <3>1. l > k => frame[l].pc = "idle"
      BY TopTimes DEF TimeInv
    <3> QED
      BY <2>1, <2>2, <3>1, SMT
  <2>4. sync_level' = sync_level /\ frame[k].pc \notin {"enter", "flash"}
    BY <2>2, <2>3, SMT
  <2>5. state[frame[l].w] = "BEING_INSERTED"
    BY <2>2, <2>3
  <2>6. \A m \in Levels : m > l /\ Inserting(m) =>
          frame'[m].w = frame[m].w /\ frame'[m].pc \in {"enter", "flash"}
    BY <2>4 DEF Inserting
  <2>7. Resumes(l)
    BY <2>1, <2>4, <2>5, <2>6, <1>1, ResumesBack
  <2> QED
    BY <2>1, <2>7
<1> QED
  BY <1>1, QuietTimes

\* The parts of IntervalsKept that a step of the current level owes.
LEMMA FrameIntervals ==
  ASSUME StructInv, TimeInv, UNCHANGED <<initial, remaining>>,
         \A x \in Watchdogs : state'[x] = "INACTIVE" => state[x] = "INACTIVE",
         NEW k \in Levels, k = nest,
         \A l \in Levels : l # k => frame'[l] = frame[l],
         frame'[k].pc # "start", frame'[k].pc # "flash",
         frame'[k].pc \in {"insert", "enter"} => initial[frame'[k].w] # 0
  PROVE  IntervalsKept'
<1>1. \A x \in Watchdogs :
        /\ initial'[x] \in Intervals \cup {0} /\ remaining'[x] <= initial'[x]
        /\ state'[x] = "INACTIVE" => remaining'[x] = 0
  BY DEF TimeInv, IntervalsKept
<1>2. ASSUME NEW l \in Levels
      PROVE  /\ frame'[l].pc = "start" => frame'[l].delta \in Intervals
             /\ frame'[l].pc \in {"insert", "enter", "flash"} =>
                  initial'[frame'[l].w] # 0
             /\ frame'[l].pc = "flash" /\ frame'[l].tick =>
                  remaining'[frame'[l].w] > 0
  <2>1. CASE l = k
    BY <2>1
  <2>2. CASE l # k
    BY <2>2 DEF TimeInv, IntervalsKept
  <2> QED
    BY <2>1, <2>2
<1> QED
  BY <1>1, <1>2 DEF IntervalsKept

\* The start of _Watchdog_Insert.
LEMMA EnterTimes ==
  ASSUME StructInv, TimeInv, frame[nest].pc \in {"start", "insert"},
         EnterInsert(frame[nest].w),
         \/ UNCHANGED initial /\ frame[nest].pc = "insert"
         \/ /\ initial' = [initial EXCEPT ![frame[nest].w] = frame[nest].delta]
            /\ frame[nest].pc = "start"
  PROVE  TimeInv'
<1> USE WatchdogAssumption
<1>0. /\ TypeOK /\ NoneDue /\ TickAlone /\ IntervalsKept
  BY DEF StructInv, TimeInv
<1>1. PICK k \in Levels, w \in Watchdogs : k = nest /\ w = frame[nest].w
  BY BelowTop DEF StructInv, FramesOK, Entering
<1>2. /\ state[w] = "INACTIVE" /\ state' = [state EXCEPT ![w] = "BEING_INSERTED"]
      /\ UNCHANGED <<delta_interval, next, previous, sync_level, nest, remaining>>
      /\ frame' = [frame EXCEPT ![k] = Doing(k, "enter", w, NULL, 0)]
  BY <1>1 DEF EnterInsert, StructInv, EntryExclusive, Entering
<1>3. /\ frame'[k] = [pc |-> "enter", w |-> w, after |-> NULL, delta |-> 0,
                      tick |-> frame[k].tick]
      /\ \A l \in Levels : l # k => frame'[l] = frame[l]
  BY <1>2, BelowTop DEF Doing
<1>4. /\ \A l \in Levels : l # k => ~frame[l].tick
      /\ \A l \in Levels : l # k => frame[l].pc \notin Ticking
  BY <1>0, <1>1, TopTimes
<1>5. \A x \in Watchdogs : /\ OnChain(x)' <=> OnChain(x)
                           /\ x # w => state'[x] = state[x]
  BY <1>0, <1>2 DEF OnChain, TypeOK
<1>6. \A l \in Levels : l < k /\ frame[l].pc = "flash"
                          /\ state'[frame[l].w] = "BEING_INSERTED"
                          /\ (frame'[k].w # frame[l].w
                                \/ frame'[k].pc \notin {"enter", "flash"})
        => state[frame[l].w] = "BEING_INSERTED"
  BY <1>3, <1>5, SMT DEF StructInv, FramesOK
<1>7. NoneDue'
  <2>1. \A l \in Levels : Processing(l) => Processing(l)'
    BY <1>3, SMT DEF Processing
  <2> QED
    BY <1>0, <1>2, <1>5, <2>1 DEF NoneDue
<1>8. TickAlone'
  <2> SUFFICES ASSUME NEW l \in Levels
               PROVE  /\ frame'[l].tick => l = nest'
                      /\ frame'[l].pc \notin {"decrement", "expire"}
    BY DEF TickAlone
  <2>1. CASE l = k
    BY <2>1, <1>1, <1>2, <1>3, SMT
  <2>2. CASE l # k
    BY <2>2, <1>3, <1>4 DEF Ticking
  <2> QED
    BY <2>1, <2>2
<1>9. /\ initial'[w] \in Intervals \cup {0} /\ initial'[w] # 0
      /\ initial'[w] \in Nat
      /\ \A x \in Watchdogs : x # w => initial'[x] = initial[x]
  <2>1. CASE UNCHANGED initial /\ frame[nest].pc = "insert"
    BY <2>1, <1>0, <1>1 DEF IntervalsKept, TypeOK
  <2>2. CASE /\ initial' = [initial EXCEPT ![frame[nest].w] = frame[nest].delta]
             /\ frame[nest].pc = "start"
    <3>1. frame[k].delta \in Intervals
      BY <2>2, <1>0, <1>1 DEF IntervalsKept
    <3> QED
      BY <2>2, <3>1, <1>0, <1>1 DEF TypeOK
  <2> QED
    BY <2>1, <2>2
<1>10. IntervalsKept'
  <2>1. ASSUME NEW x \in Watchdogs
        PROVE  /\ initial'[x] \in Intervals \cup {0} /\ remaining'[x] <= initial'[x]
               /\ state'[x] = "INACTIVE" => remaining'[x] = 0
    <3>1. CASE x = w
      <4>1. remaining[w] = 0 /\ state'[w] = "BEING_INSERTED"
        BY <1>0, <1>2 DEF IntervalsKept, TypeOK
      <4> QED
        BY <3>1, <4>1, <1>2, <1>9, SMT
    <3>2. CASE x # w
      BY <3>2, <1>0, <1>2, <1>5, <1>9 DEF IntervalsKept
    <3> QED
      BY <3>1, <3>2
  <2>2. ASSUME NEW l \in Levels
        PROVE  /\ frame'[l].pc = "start" => frame'[l].delta \in Intervals
               /\ frame'[l].pc \in {"insert", "enter", "flash"} =>
                    initial'[frame'[l].w] # 0
               /\ frame'[l].pc = "flash" /\ frame'[l].tick =>
                    remaining'[frame'[l].w] > 0
    <3>1. CASE l = k
      BY <3>1, <1>3, <1>9, SMT
    <3>2. CASE l # k
      <4>1. frame[l].pc \in {"insert", "enter", "flash"} =>
              frame[l].w \in Watchdogs /\ initial[frame[l].w] # 0
        BY <1>0 DEF IntervalsKept, StructInv, FramesOK, Entering
      <4>2. frame[l].pc = "start" => frame[l].delta \in Intervals
        BY <1>0 DEF IntervalsKept
      <4> QED
        BY <3>2, <4>1, <4>2, <1>3, <1>4, <1>9, SMT
    <3> QED
      BY <3>1, <3>2
  <2> QED
    BY <2>1, <2>2 DEF IntervalsKept
<1>11. frame[k].pc \notin {"enter", "flash"} /\ frame'[k].pc # "flash"
  BY <1>1, <1>3, SMT
<1> QED
  BY <1>1, <1>2, <1>3, <1>5, <1>6, <1>7, <1>8, <1>10, <1>11, MoveTimes

\* An insertion that gives up.
LEMMA AbortTimes ==
  ASSUME StructInv, TimeInv, AbortInsert
  PROVE  TimeInv'
<1> USE WatchdogAssumption
<1>0. /\ TypeOK /\ NoneDue /\ TickAlone /\ IntervalsKept
  BY DEF StructInv, TimeInv
<1>1. PICK k \in Levels : k = nest
  BY BelowTop
<1>2. /\ frame[k].pc = "flash" /\ sync_level' = k /\ Return
      /\ UNCHANGED <<initial, state, delta_interval, next, previous, remaining>>
  BY <1>1 DEF AbortInsert, ExitInsert, chainVars
<1>3. /\ frame'[k].pc \in {"idle", "routine"}
      /\ frame'[k].tick = frame[k].tick
      /\ frame[k].tick => nest' = k
      /\ \A l \in Levels : l # k => frame'[l] = frame[l]
  BY <1>1, <1>2, ReturnFrame
<1>4. /\ \A l \in Levels : l # k => ~frame[l].tick
      /\ \A l \in Levels : l # k => frame[l].pc \notin Ticking
  BY <1>0, <1>1, TopTimes
<1>5. \A x \in Watchdogs : OnChain(x)' <=> OnChain(x)
  BY <1>2 DEF OnChain
<1>6. NoneDue'
  <2>1. \A l \in Levels : Processing(l) => Processing(l)'
    BY <1>3 DEF Processing
  <2> QED
    BY <1>0, <1>2, <1>5, <2>1 DEF NoneDue
<1>7. TickAlone'
  <2> SUFFICES ASSUME NEW l \in Levels
               PROVE  /\ frame'[l].tick => l = nest'
                      /\ frame'[l].pc \notin {"decrement", "expire"}
    BY DEF TickAlone
  <2>1. CASE l = k
    BY <2>1, <1>3
  <2>2. CASE l # k
    BY <2>2, <1>3, <1>4 DEF Ticking
  <2> QED
    BY <2>1, <2>2
<1>8. IntervalsKept'
  BY <1>1, <1>2, <1>3, FrameIntervals
<1> QED
  BY <1>1, <1>2, <1>3, <1>5, <1>6, <1>7, <1>8, MoveTimes

\* A search that starts again.
LEMMA RestartTimes ==
  ASSUME StructInv, TimeInv, RestartSearch
  PROVE  TimeInv'
<1> USE WatchdogAssumption
<1>0. /\ TypeOK /\ NoneDue /\ TickAlone /\ IntervalsKept
  BY DEF StructInv, TimeInv
<1>1. PICK k \in Levels : k = nest
  BY BelowTop
<1>2. /\ frame[k].pc = "flash" /\ sync_level' = k
      /\ UNCHANGED <<initial, state, delta_interval, next, previous, remaining, nest>>
      /\ frame' = [frame EXCEPT ![k] = Doing(k, "enter", frame[k].w, NULL, 0)]
  BY <1>1, BelowTop DEF RestartSearch, chainVars
<1>3. /\ frame'[k] = [pc |-> "enter", w |-> frame[k].w, after |-> NULL,
                      delta |-> 0, tick |-> frame[k].tick]
      /\ \A l \in Levels : l # k => frame'[l] = frame[l]
  BY <1>2, BelowTop DEF Doing
<1>4. /\ \A l \in Levels : l # k => ~frame[l].tick
      /\ \A l \in Levels : l # k => frame[l].pc \notin Ticking
  BY <1>0, <1>1, TopTimes
<1>5. \A x \in Watchdogs : OnChain(x)' <=> OnChain(x)
  BY <1>2 DEF OnChain
<1>6. NoneDue'
  <2>1. \A l \in Levels : Processing(l) => Processing(l)'
    BY <1>3, SMT DEF Processing
  <2> QED
    BY <1>0, <1>2, <1>5, <2>1 DEF NoneDue
<1>7. TickAlone'
  <2> SUFFICES ASSUME NEW l \in Levels
               PROVE  /\ frame'[l].tick => l = nest'
                      /\ frame'[l].pc \notin {"decrement", "expire"}
    BY DEF TickAlone
  <2>1. CASE l = k
    BY <2>1, <1>1, <1>2, <1>3, SMT
  <2>2. CASE l # k
    BY <2>2, <1>3, <1>4 DEF Ticking
  <2> QED
    BY <2>1, <2>2
<1>8. IntervalsKept'
  <2>1. initial[frame'[k].w] # 0
    BY <1>0, <1>2, <1>3, SMT DEF IntervalsKept
  <2> QED
    BY <1>1, <1>2, <1>3, <2>1, FrameIntervals, SMT
<1>9. frame'[k].pc # "flash"
  BY <1>3, SMT
<1> QED
  BY <1>1, <1>2, <1>3, <1>5, <1>6, <1>7, <1>8, <1>9, MoveTimes

\* The clock interrupt is taken.
LEMMA ClockTickTimes ==
  ASSUME StructInv, TimeInv, ClockTick
  PROVE  TimeInv'
<1> USE WatchdogAssumption
<1>0. /\ TypeOK /\ NoneDue /\ TickAlone /\ IntervalsKept
  BY DEF StructInv, TimeInv
<1>1. PICK k \in Levels : k = nest + 1
  BY DEF ClockTick
<1>2. /\ nest' = k /\ \A l \in Levels : ~frame[l].tick
      /\ frame' = [frame EXCEPT ![k] = [IdleFrame EXCEPT !.pc = "tickle", !.tick = TRUE]]
      /\ UNCHANGED <<initial, state, delta_interval, next, previous, remaining, sync_level>>
  BY <1>1 DEF ClockTick, chainVars, syncVars
<1>3. /\ frame'[k].pc = "tickle" /\ frame'[k].tick
      /\ \A l \in Levels : l # k => frame'[l] = frame[l]
      /\ frame[k].pc = "idle"
  <2>1. nest \in Nat /\ frame \in [Levels -> Frame] /\ FramesOK
    BY BelowTop DEF StructInv
  <2>2. frame[k] = IdleFrame
    BY <1>1, <2>1, SMT DEF FramesOK
  <2> DEFINE f == [IdleFrame EXCEPT !.pc = "tickle", !.tick = TRUE]
  <2>3. f.pc = "tickle" /\ f.tick /\ IdleFrame.pc = "idle"
    BY DEF IdleFrame
  <2>4. frame' = [frame EXCEPT ![k] = f]
    BY <1>2
  <2> HIDE DEF f
  <2> QED
    BY <2>1, <2>2, <2>3, <2>4
<1>4. \A x \in Watchdogs : OnChain(x)' <=> OnChain(x)
  BY <1>2 DEF OnChain
<1>5. ASSUME NEW l \in Levels, Resumes(l)'
      PROVE  Resumes(l) /\ frame'[l] = frame[l]
  <2>1. frame'[l] = frame[l]
    BY <1>3, <1>5 DEF Resumes
  <2>2. \A m \in Levels : Inserting(m) => frame'[m] = frame[m]
    BY <1>3 DEF Inserting
  <2> QED
    BY <2>1, <2>2, <1>2, <1>5, ResumesBack DEF Inserting
<1>6. NoneDue'
  <2>1. \A l \in Levels : ~Processing(l)
    BY <1>2 DEF Processing
  <2> QED
    BY <1>0, <1>2, <1>4, <2>1 DEF NoneDue
<1>7. TickAlone'
  <2> SUFFICES ASSUME NEW l \in Levels
               PROVE  /\ frame'[l].tick => l = nest'
                      /\ frame'[l].pc \notin {"decrement", "expire"}
    BY DEF TickAlone
  <2>1. CASE l = k
    BY <2>1, <1>2, <1>3
  <2>2. CASE l # k
    BY <2>2, <1>2, <1>3 DEF StructInv, FramesOK, Ticking
  <2> QED
    BY <2>1, <2>2
<1>8. IntervalsKept'
  <2>1. \A x \in Watchdogs :
          /\ initial'[x] \in Intervals \cup {0} /\ remaining'[x] <= initial'[x]
          /\ state'[x] = "INACTIVE" => remaining'[x] = 0
    BY <1>0, <1>2 DEF IntervalsKept
  <2>2. ASSUME NEW l \in Levels
        PROVE  /\ frame'[l].pc = "start" => frame'[l].delta \in Intervals
               /\ frame'[l].pc \in {"insert", "enter", "flash"} =>
                    initial'[frame'[l].w] # 0
               /\ frame'[l].pc = "flash" /\ frame'[l].tick =>
                    remaining'[frame'[l].w] > 0
    <3>1. CASE l = k
      BY <3>1, <1>3
    <3>2. CASE l # k
      BY <3>2, <1>0, <1>2, <1>3, SMT DEF IntervalsKept
    <3> QED
      BY <3>1, <3>2
  <2> QED
    BY <2>1, <2>2 DEF IntervalsKept
<1> QED
  BY <1>2, <1>4, <1>5, <1>6, <1>7, <1>8, QuietTimes

\* A step of _Watchdog_Tickle that only moves its frame.
LEMMA TickleMoves ==
  ASSUME StructInv, StructInv', TimeInv, NEW k \in Levels, k = nest,
         frame[k].pc \in Ticking,
         UNCHANGED <<initial, chainVars, syncVars>>,
         NEW f, frame' = [frame EXCEPT ![k] = f],
         \/ nest' = nest
         \/ f = IdleFrame /\ (First = TAIL \/ delta_interval[First] # 0),
         f.pc \in {"idle", "decrement", "expire", "more"},
         f.pc = "idle" => f = IdleFrame /\ nest' # nest,
         Processing(k) /\ nest' = nest => f.tick /\ f.pc # "decrement",
         f.pc \in {"decrement", "expire"} => f.w = First,
         f.pc = "expire" => delta_interval[f.w] = 0
  PROVE  TimeInv'
<1> USE WatchdogAssumption
<1>0. /\ TypeOK /\ NoneDue /\ TickAlone /\ IntervalsKept
  BY DEF StructInv, TimeInv
<1>1. /\ frame'[k] = f /\ \A l \in Levels : l # k => frame'[l] = frame[l]
  BY BelowTop
<1>2. /\ \A l \in Levels : l # k => ~frame[l].tick
      /\ \A l \in Levels : l # k => frame[l].pc \notin Ticking
  BY <1>0, TopTimes
<1>3. /\ UNCHANGED <<state, delta_interval, next, previous, remaining, sync_level, initial>>
      /\ First' = First
  BY DEF chainVars, syncVars, First
<1>4. \A x \in Watchdogs : OnChain(x)' <=> OnChain(x)
  BY <1>3 DEF OnChain
<1>5. NoneDue'
  <2>1. CASE nest' = nest
    <3>1. \A l \in Levels : Processing(l) => Processing(l)'
      BY <2>1, <1>1 DEF Processing
    <3> QED
      BY <1>0, <1>3, <1>4, <3>1 DEF NoneDue
  <2>2. CASE First = TAIL \/ delta_interval[First] # 0
    <3>1. TypeOK' /\ ChainLinked'
      BY DEF StructInv
    <3>2. DeltasExact' /\ Ranked'
      BY <1>3, <1>4, ChainUntouched DEF StructInv, TimeInv
    <3>3. First' = TAIL \/ delta_interval'[First'] # 0
      BY <2>2, <1>3
    <3> QED
      BY <3>1, <3>2, <3>3, AllHaveTime DEF NoneDue
  <2> QED
    BY <2>1, <2>2
<1>6. TickAlone'
  <2> SUFFICES ASSUME NEW l \in Levels
               PROVE  /\ frame'[l].tick => l = nest'
                      /\ frame'[l].pc \in {"decrement", "expire"} => frame'[l].w = First'
                      /\ frame'[l].pc = "expire" => delta_interval'[frame'[l].w] = 0
    BY DEF TickAlone
  <2>1. CASE l = k
    BY <2>1, <1>1, <1>3, SMT DEF IdleFrame
  <2>2. CASE l # k
    BY <2>2, <1>1, <1>2 DEF Ticking
  <2> QED
    BY <2>1, <2>2
<1>7. IntervalsKept'
  BY <1>1, <1>3, FrameIntervals
<1>8. frame[k].pc \notin {"enter", "flash"} /\ frame'[k].pc # "flash"
  BY <1>1 DEF Ticking
<1> QED
  BY <1>1, <1>3, <1>4, <1>5, <1>6, <1>7, <1>8, MoveTimes

\* A pass of the search, with d to go from the node before after.
LEMMA SearchTimes ==
  ASSUME StructInv, TimeInv, NEW k \in Levels, k = nest,
         NEW w \in Watchdogs, w = frame[k].w, Inserting(k),
         state[w] = "BEING_INSERTED",
         NEW after, after = TAIL \/ (after \in Watchdogs /\ OnChain(after)),
         NEW d \in Nat, SearchStep(w, after, d), UNCHANGED initial,
         NEW r \in Nat, remaining' = [remaining EXCEPT ![w] = r],
         r = d + (IF previous[after] = HEAD THEN 0 ELSE remaining[previous[after]]),
         r > 0, r <= initial[w]
  PROVE  TimeInv'
<1> USE WatchdogAssumption
<1>0. /\ TypeOK /\ ChainLinked /\ DeltasExact /\ Ranked /\ SearchValid
      /\ NoneDue /\ TickAlone /\ IntervalsKept
  BY DEF StructInv, TimeInv
<1> DEFINE last == d = 0 \/ next[after] = NULL
           smaller == ~last /\ d < delta_interval[after]
<1>1. /\ \A l \in Levels : l # k => ~frame[l].tick
      /\ \A l \in Levels : l # k => frame[l].pc \notin Ticking
      /\ \A l \in Levels : l > k => frame[l].pc = "idle"
  BY <1>0, TopTimes
<1>2. /\ ~OnChain(w) /\ remaining \in [Watchdogs -> Nat]
      /\ delta_interval \in [Watchdogs -> Nat] /\ initial \in [Watchdogs -> Nat]
      /\ remaining'[w] = r /\ \A x \in Watchdogs : x # w => remaining'[x] = remaining[x]
  BY <1>0 DEF OnChain, TypeOK
<1>3. ~last => after \in Watchdogs /\ OnChain(after) /\ delta_interval[after] \in Nat
  BY <1>0, <1>2, SMT DEF ChainLinked
<1>4. IntervalsKept'
  <2>1. state'[w] # "INACTIVE" /\ \A x \in Watchdogs : x # w => state'[x] = state[x]
    BY <1>0 DEF SearchStep, Activate, TypeOK
  <2>2. ASSUME NEW x \in Watchdogs
        PROVE  /\ initial'[x] \in Intervals \cup {0} /\ remaining'[x] <= initial'[x]
               /\ state'[x] = "INACTIVE" => remaining'[x] = 0
    <3>1. CASE x = w
      BY <3>1, <2>1, <1>0, <1>2 DEF IntervalsKept
    <3>2. CASE x # w
      BY <3>2, <2>1, <1>0, <1>2, SMT DEF IntervalsKept
    <3> QED
      BY <3>1, <3>2
  <2>3. /\ \A l \in Levels : l # k => frame'[l] = frame[l]
        /\ \/ frame'[k].pc \in {"idle", "routine"}
           \/ frame'[k].pc = "flash" /\ frame'[k].w = w
    <3>1. CASE Activate(w, after)
      <4>1. Return /\ frame[nest].pc # "idle"
        BY <3>1 DEF Activate, ExitInsert, Inserting
      <4> QED
        BY <4>1, ReturnFrame
    <3>2. CASE frame' = [frame EXCEPT ![nest] =
                 Doing(nest, "flash", w, after, d - delta_interval[after])]
      BY <3>2, BelowTop DEF Doing
    <3> QED
      BY <3>1, <3>2 DEF SearchStep
  <2>4. ASSUME NEW l \in Levels
        PROVE  /\ frame'[l].pc = "start" => frame'[l].delta \in Intervals
               /\ frame'[l].pc \in {"insert", "enter", "flash"} =>
                    initial'[frame'[l].w] # 0
               /\ frame'[l].pc = "flash" /\ frame'[l].tick =>
                    remaining'[frame'[l].w] > 0
    <3>1. CASE l = k
      <4>1. initial[w] # 0
        <5>1. initial[w] \in Nat
          BY <1>2
        <5>2. r > 0 /\ r <= initial[w]
          OBVIOUS
        <5> QED
          BY <5>1, <5>2, SMT
      <4> QED
        BY <3>1, <4>1, <2>3, <1>2
    <3>2. CASE l # k
      BY <3>2, <2>3, <1>0, <1>1 DEF IntervalsKept
    <3> QED
      BY <3>1, <3>2
  <2> QED
    BY <2>2, <2>4 DEF IntervalsKept
<1>5. CASE last \/ smaller
  <2>1. Activate(w, after)
    BY <1>5 DEF SearchStep, Earlier
  <2>2. /\ state' = [state EXCEPT ![w] = "ACTIVE"] /\ Link(after, w)
        /\ sync_level' = k /\ Return /\ frame[nest].pc # "idle"
    BY <2>1 DEF Activate, ExitInsert, Inserting
  <2>3. /\ frame'[k].pc \in {"idle", "routine"}
        /\ frame'[k].tick = frame[k].tick
        /\ frame[k].tick => nest' = k
        /\ \A l \in Levels : l # k => frame'[l] = frame[l]
    BY <2>2, ReturnFrame
  <2>4. after # w /\ (after \in Watchdogs => after # TAIL)
    BY <1>2
  <2>5. /\ delta_interval'[w] = d
        /\ after \in Watchdogs => /\ d <= delta_interval[after]
                                  /\ delta_interval'[after] = delta_interval[after] - d
        /\ \A v \in Watchdogs : v # w /\ v # after =>
             delta_interval'[v] = delta_interval[v]
    <3>1. CASE last
      <4>1. delta_interval' = [delta_interval EXCEPT ![w] = d]
        BY <3>1 DEF SearchStep
      <4>2. after \in Watchdogs => d = 0
        <5>1. after \in Watchdogs => next[after] # NULL
          BY <2>4, <1>0 DEF ChainLinked
        <5> QED
          BY <3>1, <5>1
      <4> QED
        BY <4>1, <4>2, <2>4, <1>2, SMT
    <3>2. CASE smaller
      <4>1. delta_interval' = [delta_interval EXCEPT ![after] = @ - d, ![w] = d]
        BY <3>2 DEF SearchStep, Earlier, Shortened
      <4>2. after \in Watchdogs /\ d < delta_interval[after] /\ delta_interval[after] \in Nat
        BY <3>2, <1>3
      <4> QED
        BY <4>1, <4>2, <2>4, <1>2, SMT
    <3> QED
      BY <1>5, <3>1, <3>2
  <2>6. DeltasExact' /\ (\A v \in Watchdogs : OnChain(v)' <=> OnChain(v) \/ v = w)
    <3>1. /\ ~OnChain(w) /\ (after = TAIL \/ (after \in Watchdogs /\ OnChain(after)))
          /\ TypeOK /\ ChainLinked /\ DeltasExact
          /\ state' = [state EXCEPT ![w] = "ACTIVE"] /\ Link(after, w)
      BY <1>0, <1>2, <2>2
    <3>2. Spliced(w, after)
      BY <1>2, <2>5 DEF Spliced
    <3>9. DeltasExact'
      BY <3>1, <3>2, LinkTimes
    <3>10. \A v \in Watchdogs : OnChain(v)' <=> OnChain(v) \/ v = w
      BY <3>1 DEF OnChain, TypeOK
    <3> QED
      BY <3>9, <3>10
  <2>7. Ranked'
    BY <1>0, <1>2, <2>2, LinkRanked
  <2>8. SearchValid'
    <3> SUFFICES ASSUME NEW l \in Levels, Resumes(l)' PROVE FALSE
      BY DEF SearchValid
    <3>1. l # k /\ frame'[l] = frame[l] /\ frame[l].pc = "flash" /\ sync_level' <= l
      BY <2>3 DEF Resumes
    <3> QED
      BY <3>1, <2>2, <1>1, SMT
  <2>9. NoneDue'
    <3>1. \A l \in Levels : Processing(l) => Processing(l)'
      BY <2>3 DEF Processing
    <3> QED
      BY <1>0, <1>2, <2>6, <3>1, SMT DEF NoneDue
  <2>10. TickAlone'
    <3> SUFFICES ASSUME NEW l \in Levels
                 PROVE  /\ frame'[l].tick => l = nest'
                        /\ frame'[l].pc \notin {"decrement", "expire"}
      BY DEF TickAlone
    <3>1. CASE l = k
      BY <3>1, <2>3
    <3>2. CASE l # k
      BY <3>2, <2>3, <1>1 DEF Ticking
    <3> QED
      BY <3>1, <3>2
  <2> QED
    BY <1>4, <2>6, <2>7, <2>8, <2>9, <2>10, SMTT(30) DEF TimeInv
<1>6. CASE ~last /\ ~smaller
  <2>1. /\ frame' = [frame EXCEPT ![nest] =
             Doing(nest, "flash", w, after, d - delta_interval[after])]
        /\ UNCHANGED <<state, delta_interval, next, previous, sync_level, nest>>
    BY <1>6 DEF SearchStep, Earlier, syncVars
  <2>2. /\ frame'[k] = [pc |-> "flash", w |-> w, after |-> after,
                        delta |-> d - delta_interval[after], tick |-> frame[k].tick]
        /\ \A l \in Levels : l # k => frame'[l] = frame[l]
    BY <2>1, BelowTop DEF Doing
  <2>3. /\ \A x \in Watchdogs : OnChain(x)' <=> OnChain(x)
        /\ \A x \in Watchdogs : OnChain(x) => remaining'[x] = remaining[x]
    BY <2>1, <1>2 DEF OnChain
  <2>4. DeltasExact' /\ Ranked'
    BY <1>0, <2>1, <2>3, ChainUntouched
  <2>5. SearchValid'
    <3> SUFFICES ASSUME NEW l \in Levels, Resumes(l)' PROVE Found(l)'
      BY DEF SearchValid, Found
    <3>1. CASE l = k
      <4>1. after \in Watchdogs /\ OnChain(after) /\ delta_interval[after] \in Nat
              /\ ~(d < delta_interval[after])
        BY <1>3, <1>6
      <4>2. remaining[after] = delta_interval[after]
              + (IF previous[after] = HEAD THEN 0 ELSE remaining[previous[after]])
        BY <4>1, <1>0 DEF DeltasExact
      <4>3. remaining[after] \in Nat /\ remaining'[after] = remaining[after]
        BY <4>1, <2>3, <1>2
      <4>4. previous[after] = HEAD \/ remaining[previous[after]] \in Nat
        BY <4>1, <1>0, <1>2, SMT DEF ChainLinked
      <4>5. r = (d - delta_interval[after]) + remaining[after]
        <5>1. CASE previous[after] = HEAD
          BY <5>1, <4>1, <4>2, <4>3, SMT
        <5>2. CASE previous[after] # HEAD
          BY <5>2, <4>1, <4>2, <4>3, <4>4, SMT
        <5> QED
          BY <5>1, <5>2
      <4>6. /\ frame'[k].after = after /\ frame'[k].w = w
            /\ frame'[k].delta = d - delta_interval[after]
        BY <2>2, SMT
      <4>7. remaining'[w] = frame'[k].delta + remaining'[after]
        BY <4>3, <4>5, <4>6, <1>2
      <4>8. OnChain(after)'
        BY <4>1, <2>1 DEF OnChain
      <4> QED
        BY <3>1, <4>1, <4>6, <4>7, <4>8, <2>1 DEF Found, OnChain
    <3>2. CASE l # k
      <4>1. /\ frame'[l] = frame[l] /\ l < k /\ frame[l].pc = "flash"
        <5>1. frame'[l] = frame[l]
          BY <3>2, <2>2
        <5>2. frame'[l].pc = "flash"
          BY DEF Resumes
        <5>3. ~(l > k)
          BY <5>1, <5>2, <1>1
        <5>4. l \in Int /\ k \in Int
          BY SMT
        <5> QED
          BY <5>1, <5>2, <5>3, <5>4, <3>2, SMT
      <4>2. frame[l].w # w /\ frame[l].w \in Watchdogs
        <5>1. frame'[k].w # frame'[l].w \/ ~(frame'[k].pc \in {"enter", "flash"})
          BY <4>1 DEF Resumes, Inserting
        <5> QED
          BY <5>1, <4>1, <2>2, SMT DEF StructInv, FramesOK
      <4>3. Resumes(l)
        <5>1. \A m \in Levels : m > l /\ Inserting(m) =>
                frame'[m].w = frame[m].w /\ frame'[m].pc \in {"enter", "flash"}
          <6> SUFFICES ASSUME NEW m \in Levels, Inserting(m)
                       PROVE  /\ frame'[m].w = frame[m].w
                              /\ frame'[m].pc \in {"enter", "flash"}
            OBVIOUS
          <6>1. CASE m = k
            BY <6>1, <2>2, SMT
          <6>2. CASE m # k
            BY <6>2, <2>2 DEF Inserting
          <6> QED
            BY <6>1, <6>2
        <5> QED
          BY <4>1, <5>1, <2>1, ResumesBack
      <4>4. Found(l)
        BY <4>3, <1>0 DEF SearchValid, Found
      <4>5. /\ remaining'[frame[l].w] = remaining[frame[l].w]
            /\ remaining'[frame[l].after] = remaining[frame[l].after]
        BY <4>2, <4>4, <2>3, <1>2 DEF Found
      <4> QED
        BY <4>1, <4>4, <4>5, <2>1 DEF Found, OnChain
    <3> QED
      BY <3>1, <3>2
  <2>6. NoneDue'
    <3>1. \A l \in Levels : Processing(l) => Processing(l)'
      BY <2>2, SMT DEF Processing
    <3> QED
      BY <1>0, <2>3, <3>1 DEF NoneDue
  <2>7. TickAlone'
    <3> SUFFICES ASSUME NEW l \in Levels
                 PROVE  /\ frame'[l].tick => l = nest'
                        /\ frame'[l].pc \notin {"decrement", "expire"}
      BY DEF TickAlone
    <3>1. CASE l = k
      BY <3>1, <2>1, <2>2, SMT
    <3>2. CASE l # k
      BY <3>2, <2>2, <1>1 DEF Ticking
    <3> QED
      BY <3>1, <3>2
  <2> QED
    BY <1>4, <2>4, <2>5, <2>6, <2>7 DEF TimeInv
<1> QED
  BY <1>5, <1>6

\* Both passes of the search begin right: at restart with the whole interval
\* and the first node, after a flash with what is left behind the node held.
LEMMA SearchCase ==
  ASSUME StructInv, TimeInv, BeginSearch \/ ContinueSearch
  PROVE  \E k \in Levels, w \in Watchdogs, after \in Nodes, d \in Nat, r \in Nat :
           /\ k = nest /\ w = frame[k].w /\ Inserting(k)
           /\ state[w] = "BEING_INSERTED"
           /\ after = TAIL \/ (after \in Watchdogs /\ OnChain(after))
           /\ SearchStep(w, after, d) /\ UNCHANGED initial
           /\ remaining' = [remaining EXCEPT ![w] = r]
           /\ r = d + (IF previous[after] = HEAD THEN 0 ELSE remaining[previous[after]])
           /\ r > 0 /\ r <= initial[w]
<1> USE WatchdogAssumption
<1>0. /\ TypeOK /\ ChainLinked /\ SearchValid /\ NoneDue /\ TickAlone /\ IntervalsKept
      /\ remaining \in [Watchdogs -> Nat] /\ initial \in [Watchdogs -> Nat]
  BY DEF StructInv, TimeInv, TypeOK
<1>1. PICK k \in Levels, w \in Watchdogs : k = nest /\ w = frame[nest].w
  BY BelowTop DEF BeginSearch, ContinueSearch, StructInv, FramesOK, Entering
<1>2. frame[k] \in Frame /\ frame[k].delta \in Nat
  BY <1>1, BelowTop DEF Frame
<1>3. CASE BeginSearch
  <2>1. /\ frame[k].pc = "enter" /\ SearchStep(w, First, initial[w])
        /\ remaining' = [remaining EXCEPT ![w] = initial[w]] /\ UNCHANGED initial
    BY <1>1, <1>3 DEF BeginSearch
  <2>2. state[w] = "BEING_INSERTED" /\ initial[w] # 0 /\ initial[w] \in Nat
    BY <2>1, <1>0, <1>1, SMT DEF StructInv, EntryExclusive, Entering, IntervalsKept
  <2>3. /\ First = TAIL \/ (First \in Watchdogs /\ OnChain(First))
        /\ previous[First] = HEAD
    BY <1>0 DEF ChainLinked, First
  <2>4. First \in Nodes /\ Inserting(k) /\ initial[w] > 0 /\ initial[w] <= initial[w]
        /\ initial[w] = initial[w] + (IF previous[First] = HEAD THEN 0
                                      ELSE remaining[previous[First]])
    BY <2>1, <2>2, <2>3, SMT DEF Inserting
  <2> HIDE DEF Nodes, Levels
  <2> QED
    BY <2>1, <2>2, <2>3, <2>4, <1>1
<1>4. CASE ContinueSearch
  <2> DEFINE fa == frame[k].after
             d == frame[k].delta
             after == next[fa]
             r == remaining[w]
  <2>1. /\ frame[k].pc = "flash" /\ state[w] = "BEING_INSERTED"
        /\ sync_level <= k /\ SearchStep(w, after, d)
        /\ UNCHANGED <<initial, remaining>>
    BY <1>1, <1>4 DEF ContinueSearch, StillWanted
  <2>2. Resumes(k)
    <3>1. \A m \in Levels : m > k => ~Inserting(m)
      BY <1>0, <1>1, TopTimes DEF Inserting
    <3> QED
      BY <2>1, <3>1, <1>1 DEF Resumes
  <2>3. /\ fa \in Watchdogs /\ OnChain(fa) /\ r = d + remaining[fa]
    BY <2>2, <1>0, <1>1 DEF SearchValid
  <2>4. /\ after = TAIL \/ (after \in Watchdogs /\ OnChain(after))
        /\ previous[after] = fa /\ fa # HEAD
    BY <2>3, <1>0 DEF ChainLinked
  <2>5. r > 0
    <3>1. CASE frame[k].tick
      BY <3>1, <2>1, <1>0, <1>1 DEF IntervalsKept
    <3>2. CASE ~frame[k].tick
      <4>1. \A l \in Levels : ~Processing(l)
        BY <3>2, <1>0, <1>1, TopTimes DEF Processing
      <4>2. remaining[fa] > 0 /\ remaining[fa] \in Nat
        BY <4>1, <2>3, <1>0 DEF NoneDue
      <4> QED
        BY <4>2, <2>3, <1>2, SMT
    <3> QED
      BY <3>1, <3>2
  <2>6. /\ r <= initial[w] /\ r \in Nat
        /\ remaining' = [remaining EXCEPT ![w] = r]
    BY <2>1, <1>0 DEF IntervalsKept
  <2>7. after \in Nodes /\ Inserting(k) /\ d \in Nat
        /\ r = d + (IF previous[after] = HEAD THEN 0 ELSE remaining[previous[after]])
    BY <2>1, <2>3, <2>4, <1>2 DEF Inserting
  <2> HIDE DEF Nodes, Levels, after, d, r
  <2> QED
    BY <2>1, <2>4, <2>5, <2>6, <2>7, <1>1
<1> QED
  BY <1>3, <1>4

-----------------------------------------------------------------------------
\* When a tick is about to be counted, everything on the chain has time left,
\* and the first watchdog has exactly its delta left.
LEMMA BeforeDecrement ==
  ASSUME StructInv, TimeInv, TickleDecrement
  PROVE  /\ frame[nest].w = First /\ First \in Watchdogs /\ OnChain(First)
         /\ previous[First] = HEAD
         /\ delta_interval[First] > 0 /\ remaining[First] = delta_interval[First]
         /\ \A v \in Watchdogs : OnChain(v) => remaining[v] > 0
<1> USE WatchdogAssumption
<1>0. /\ TypeOK /\ ChainLinked /\ DeltasExact /\ NoneDue /\ TickAlone
      /\ remaining \in [Watchdogs -> Nat] /\ delta_interval \in [Watchdogs -> Nat]
  BY DEF StructInv, TimeInv, TypeOK
<1>1. PICK k \in Levels : k = nest
  BY BelowTop
<1>2. frame[k].pc = "decrement" /\ frame[k].w = First /\ First \in Watchdogs
  BY <1>0, <1>1, SMT DEF TickleDecrement, TickAlone, StructInv, FramesOK
<1>3. OnChain(First) /\ previous[First] = HEAD
  BY <1>0, <1>2 DEF ChainLinked, First
<1>4. \A l \in Levels : ~Processing(l)
  BY <1>0, <1>1, <1>2, TopTimes DEF Processing
<1>5. \A v \in Watchdogs : OnChain(v) => remaining[v] > 0
  BY <1>0, <1>4 DEF NoneDue
<1>6. remaining[First] = delta_interval[First] + 0
  BY <1>0, <1>2, <1>3 DEF DeltasExact
<1>7. remaining[First] > 0 /\ delta_interval[First] \in Nat
  BY <1>0, <1>2, <1>3, <1>5
<1> QED
  BY <1>1, <1>2, <1>3, <1>5, <1>6, <1>7, SMT

\* A tick is counted in the delta of the first watchdog, for all of them.
LEMMA TickleDecrementTimes ==
  ASSUME StructInv, StructInv', TimeInv, TickleDecrement
  PROVE  TimeInv'
<1> USE WatchdogAssumption
<1>0. /\ TypeOK /\ ChainLinked /\ DeltasExact /\ Ranked /\ SearchValid
      /\ TickAlone /\ IntervalsKept
      /\ remaining \in [Watchdogs -> Nat] /\ delta_interval \in [Watchdogs -> Nat]
      /\ initial \in [Watchdogs -> Nat]
  BY DEF StructInv, TimeInv, TypeOK
<1>1. PICK k \in Levels, w \in Watchdogs : k = nest /\ w = First
  BY BelowTop, BeforeDecrement
<1>2. /\ frame[k].w = w /\ OnChain(w) /\ previous[w] = HEAD
      /\ delta_interval[w] > 0 /\ remaining[w] = delta_interval[w]
      /\ \A v \in Watchdogs : OnChain(v) => remaining[v] > 0
  BY <1>1, BeforeDecrement
<1> DEFINE d == delta_interval[w] - 1
<1>3. d \in Nat
  BY <1>0, <1>2, SMT
<1>4. /\ delta_interval' = [delta_interval EXCEPT ![w] = d]
      /\ remaining' = [v \in Watchdogs |-> Tick(remaining[v])]
      /\ UNCHANGED <<state, initial, next, previous, sync_level>>
      /\ frame[k].pc = "decrement"
      /\ \/ d # 0 /\ LeaveTick
         \/ d = 0 /\ frame' = [frame EXCEPT ![k].pc = "expire"] /\ nest' = nest
  <2>1. frame[nest].w = w /\ delta_interval[w] # 0
    BY <1>0, <1>1, <1>2, SMT
  <2> QED
    BY <1>1, <2>1 DEF TickleDecrement, syncVars
<1>5. /\ delta_interval'[w] = d
      /\ \A v \in Watchdogs : v # w => delta_interval'[v] = delta_interval[v]
      /\ First' = First /\ \A v \in Watchdogs : OnChain(v)' <=> OnChain(v)
  BY <1>0, <1>4 DEF First, OnChain
<1>6. /\ \A v \in Watchdogs : remaining[v] > 0 => remaining'[v] = remaining[v] - 1
      /\ \A v \in Watchdogs : remaining'[v] <= remaining[v]
      /\ \A v \in Watchdogs : remaining[v] = 0 => remaining'[v] = 0
  BY <1>0, <1>4, SMT DEF Tick
<1> HIDE DEF d
<1>7. /\ \A l \in Levels : l # k => frame'[l] = frame[l]
      /\ \/ d # 0 /\ frame'[k] = IdleFrame
         \/ d = 0 /\ frame'[k] = [frame[k] EXCEPT !.pc = "expire"] /\ nest' = k
  BY <1>1, <1>4, BelowTop DEF LeaveTick
<1>8. /\ \A l \in Levels : l # k => ~frame[l].tick
      /\ \A l \in Levels : l # k => frame[l].pc \notin Ticking
      /\ frame[k].tick
  BY <1>0, <1>1, <1>4, TopTimes DEF StructInv, FramesOK, Ticking
<1>9. DeltasExact'
  <2> SUFFICES ASSUME NEW v \in Watchdogs, OnChain(v)'
               PROVE  remaining'[v] = delta_interval'[v]
                        + (IF previous'[v] = HEAD THEN 0
                           ELSE remaining'[previous'[v]])
    BY DEF DeltasExact
  <2>1. OnChain(v) /\ previous' = previous /\ remaining'[v] = remaining[v] - 1
    BY <1>2, <1>4, <1>5, <1>6
  <2>2. CASE v = w
    BY <2>1, <2>2, <1>0, <1>2, <1>5, SMT DEF d
  <2>3. CASE v # w
    <3>1. /\ previous[v] = HEAD \/ (previous[v] \in Watchdogs /\ OnChain(previous[v]))
          /\ next[previous[v]] = v
      BY <2>1, <1>0 DEF ChainLinked
    <3>2. previous[v] # HEAD
      BY <2>3, <3>1, <1>1 DEF First
    <3>3. remaining'[previous[v]] = remaining[previous[v]] - 1
      BY <3>1, <3>2, <1>2, <1>6
    <3>4. remaining[v] = delta_interval[v] + remaining[previous[v]]
      BY <2>1, <3>2, <1>0 DEF DeltasExact
    <3>5. remaining[previous[v]] \in Nat /\ delta_interval[v] \in Nat
      BY <3>1, <3>2, <1>0
    <3> QED
      BY <2>1, <2>3, <3>2, <3>3, <3>4, <3>5, <1>5, SMT
  <2> QED
    BY <2>2, <2>3
<1>10. Ranked'
  BY <1>0, <1>4, <1>5 DEF Ranked
<1>11. SearchValid'
  <2> SUFFICES ASSUME NEW l \in Levels, Resumes(l)' PROVE Found(l)'
    BY DEF SearchValid, Found
  <2>1. l # k /\ frame'[l] = frame[l]
    <3>1. frame'[l].pc = "flash"
      BY DEF Resumes
    <3>2. [frame[k] EXCEPT !.pc = "expire"].pc = "expire"
      BY BelowTop, <1>1 DEF Frame
    <3>3. IdleFrame.pc # "flash"
      BY DEF IdleFrame
    <3>4. l # k
      BY <1>7, <3>1, <3>2, <3>3
    <3> QED
      BY <1>7, <3>4
  <2>2. \A m \in Levels : Inserting(m) => frame'[m] = frame[m]
    BY <1>4, <1>7 DEF Inserting
  <2>3. Resumes(l)
    BY <2>1, <2>2, <1>4, ResumesBack DEF Inserting
  <2>4. Found(l)
    BY <2>3, <1>0 DEF SearchValid, Found
  <2>5. /\ frame[l].w \in Watchdogs /\ frame[l].delta \in Nat
    BY <2>3, BelowTop DEF Resumes, StructInv, FramesOK, Frame
  <2>6. /\ frame[l].after \in Watchdogs /\ remaining[frame[l].after] > 0
        /\ remaining[frame[l].after] \in Nat /\ remaining[frame[l].w] \in Nat
        /\ remaining[frame[l].w] = frame[l].delta + remaining[frame[l].after]
    BY <2>4, <2>5, <1>0, <1>2 DEF Found
  <2>7. remaining[frame[l].w] > 0
    BY <2>5, <2>6, SMT
  <2>8. /\ remaining'[frame[l].w] = remaining[frame[l].w] - 1
        /\ remaining'[frame[l].after] = remaining[frame[l].after] - 1
    BY <2>5, <2>6, <2>7, <1>6
  <2>9. remaining'[frame[l].w] = frame[l].delta + remaining'[frame[l].after]
    BY <2>5, <2>6, <2>8, SMT
  <2> QED
    BY <2>1, <2>4, <2>9, <1>4 DEF Found, OnChain
<1>12. NoneDue'
  <2>1. CASE d # 0
    <3>1. TypeOK' /\ ChainLinked'
      BY DEF StructInv
    <3>2. delta_interval'[First'] # 0
      BY <2>1, <1>1, <1>5
    <3> QED
      BY <3>1, <3>2, <1>9, <1>10, AllHaveTime DEF NoneDue
  <2>2. CASE d = 0
    <3>1. Processing(k)'
      BY <2>2, <1>7, <1>8, BelowTop, SMT DEF Processing, Frame
    <3> QED
      BY <3>1 DEF NoneDue
  <2> QED
    BY <2>1, <2>2
<1>13. TickAlone'
  <2> SUFFICES ASSUME NEW l \in Levels
               PROVE  /\ frame'[l].tick => l = nest'
                      /\ frame'[l].pc \in {"decrement", "expire"} => frame'[l].w = First'
                      /\ frame'[l].pc = "expire" => delta_interval'[frame'[l].w] = 0
    BY DEF TickAlone
  <2>1. CASE l = k
    <3>1. CASE d # 0
      BY <2>1, <3>1, <1>7, SMT DEF IdleFrame
    <3>2. CASE d = 0
      <4>1. frame'[k].w = w /\ nest' = k
        BY <3>2, <1>2, <1>7, BelowTop, SMT DEF Frame
      <4> QED
        BY <2>1, <3>2, <4>1, <1>1, <1>5
    <3> QED
      BY <3>1, <3>2
  <2>2. CASE l # k
    BY <2>2, <1>7, <1>8 DEF Ticking
  <2> QED
    BY <2>1, <2>2
<1>14. IntervalsKept'
  <2>1. ASSUME NEW x \in Watchdogs
        PROVE  /\ initial'[x] \in Intervals \cup {0} /\ remaining'[x] <= initial'[x]
               /\ state'[x] = "INACTIVE" => remaining'[x] = 0
    <3>1. remaining'[x] \in Nat
      BY DEF StructInv, TypeOK
    <3> QED
      BY <3>1, <1>0, <1>4, <1>6, SMT DEF IntervalsKept
  <2>2. ASSUME NEW l \in Levels
        PROVE  /\ frame'[l].pc = "start" => frame'[l].delta \in Intervals
               /\ frame'[l].pc \in {"insert", "enter", "flash"} =>
                    initial'[frame'[l].w] # 0
               /\ frame'[l].pc = "flash" /\ frame'[l].tick =>
                    remaining'[frame'[l].w] > 0
    <3>1. CASE l = k
      <4>1. frame'[k].pc \in {"idle", "expire"}
        BY <1>7, BelowTop, SMT DEF IdleFrame, Frame
      <4> QED
        BY <3>1, <4>1
    <3>2. CASE l # k
      BY <3>2, <1>0, <1>4, <1>7, <1>8 DEF IntervalsKept
    <3> QED
      BY <3>1, <3>2
  <2> QED
    BY <2>1, <2>2 DEF IntervalsKept
<1> QED
  BY <1>9, <1>10, <1>11, <1>12, <1>13, <1>14 DEF TimeInv

\* The steps of _Watchdog_Tickle keep the times.
LEMMA TickleTimes ==
  ASSUME StructInv, StructInv', TimeInv, Tickle
  PROVE  TimeInv'
<1>0. PICK k \in Levels : k = nest
  BY BelowTop
<1>1. frame \in [Levels -> Frame] /\ frame[k] \in Frame
  BY <1>0, BelowTop
<1>2. CASE TickleEmpty
  <2>1. /\ frame[k].pc = "tickle" /\ First = TAIL
        /\ UNCHANGED <<initial, chainVars, syncVars>>
        /\ frame' = [frame EXCEPT ![k] = IdleFrame] /\ nest' # nest
    BY <1>0, <1>2, BelowTop, SMT DEF TickleEmpty, Empty, LeaveTick
  <2> QED
    BY <1>0, <2>1, TickleMoves DEF IdleFrame, Ticking
<1>3. CASE TickleFirst
  <2> DEFINE f == Doing(k, "decrement", First, NULL, 0)
  <2>1. /\ frame[k].pc = "tickle" /\ nest' = nest
        /\ UNCHANGED <<initial, chainVars, syncVars>>
        /\ frame' = [frame EXCEPT ![k] = f]
    BY <1>0, <1>3 DEF TickleFirst
  <2>2. f.pc = "decrement" /\ f.w = First /\ ~Processing(k)
    BY <2>1 DEF Doing, Processing
  <2> HIDE DEF f
  <2> QED
    BY <1>0, <2>1, <2>2, TickleMoves DEF Ticking
<1>4. CASE RoutineReturns
  <2> DEFINE f == [frame[k] EXCEPT !.pc = "more"]
  <2>1. /\ frame[k].pc = "routine" /\ nest' = nest
        /\ UNCHANGED <<initial, chainVars, syncVars>>
        /\ frame' = [frame EXCEPT ![k] = f]
    BY <1>0, <1>1, <1>4 DEF RoutineReturns
  <2>2. f.pc = "more" /\ f.tick = frame[k].tick
    BY <1>1 DEF Frame
  <2> HIDE DEF f
  <2> QED
    BY <1>0, <2>1, <2>2, TickleMoves DEF Ticking, Processing
<1>5. CASE TickleMore
  <2>1. CASE OneExpired
    <3> DEFINE f == Doing(k, "expire", First, NULL, 0)
    <3>1. /\ frame[k].pc = "more" /\ nest' = nest /\ delta_interval[First] = 0
          /\ UNCHANGED <<initial, chainVars, syncVars>>
          /\ frame' = [frame EXCEPT ![k] = f]
      BY <1>0, <1>5, <2>1 DEF TickleMore, OneExpired
    <3>2. f.pc = "expire" /\ f.w = First /\ f.tick = frame[k].tick
      BY DEF Doing
    <3> HIDE DEF f
    <3> QED
      BY <1>0, <3>1, <3>2, TickleMoves DEF Ticking, Processing
  <2>2. CASE ~OneExpired
    <3>1. /\ frame[k].pc = "more" /\ (First = TAIL \/ delta_interval[First] # 0)
          /\ UNCHANGED <<initial, chainVars, syncVars>>
          /\ frame' = [frame EXCEPT ![k] = IdleFrame] /\ nest' # nest
      BY <1>0, <1>5, <2>2, BelowTop, SMT DEF TickleMore, OneExpired, Empty, LeaveTick
    <3> QED
      BY <1>0, <3>1, TickleMoves DEF IdleFrame, Ticking
  <2> QED
    BY <2>1, <2>2
<1> QED
  BY <1>2, <1>3, <1>4, <1>5, TickleDecrementTimes, TickleExpireTimes DEF Tickle

\* The initial state satisfies the invariant.
LEMMA TimeInit == Init => TimeInv
<1> SUFFICES ASSUME Init PROVE TimeInv
  OBVIOUS
<1> USE WatchdogAssumption
<1>1. \A w \in Watchdogs : ~OnChain(w)
  BY DEF Init, OnChain
<1>2. Ranked
  <2>1. [w \in Watchdogs |-> 0] \in [Watchdogs -> Nat]
    OBVIOUS
  <2> QED
    BY <1>1, <2>1 DEF Ranked
<1>3. \A l \in Levels : frame[l] = IdleFrame
  BY DEF Init
<1>4. DeltasExact /\ SearchValid /\ NoneDue
  BY <1>1, <1>3, SMT DEF DeltasExact, SearchValid, Resumes, NoneDue, IdleFrame
<1>5. TickAlone
  BY <1>3, SMT DEF TickAlone, IdleFrame
<1>6. IntervalsKept
  BY <1>3, SMT DEF Init, IntervalsKept, IdleFrame
<1> QED
  BY <1>2, <1>4, <1>5, <1>6 DEF TimeInv

\* Every step keeps the invariant, as long as no handler operates on a
\* watchdog whose insertion it interrupted before the search had begun, and
\* none interrupts the clock tick handler.
LEMMA TimeNext ==
  ASSUME EntryRace = FALSE, TickInterruptible = FALSE, StructInv, TimeInv,
         [Next]_vars
  PROVE  TimeInv'
<1>0. StructInv'
  BY StructNext
<1>1. CASE Call
  <2> SUFFICES ASSUME NEW lv \in Levels, NEW w \in Watchdogs,
                      \/ Cancel(lv, w)
                      \/ \E u \in Intervals : FireAfter(lv, w, u)
                      \/ Reset(lv, w)
                      \/ Deactivate(lv, w)
               PROVE  TimeInv'
    BY <1>1 DEF Call
  <2>1. CASE Cancel(lv, w)
    BY <2>1, CancelTimes
  <2>2. ASSUME NEW u \in Intervals, FireAfter(lv, w, u) PROVE TimeInv'
    BY <2>2, PushTimes DEF FireAfter
  <2>3. CASE Reset(lv, w)
    BY <2>3, PushTimes DEF Reset
  <2>4. CASE Deactivate(lv, w)
    BY <2>4, DeactivateTimes
  <2> QED
    BY <2>1, <2>2, <2>3, <2>4
<1>2. CASE Insert
  <2>1. CASE StartInsert
    BY <2>1, EnterTimes DEF StartInsert
  <2>2. CASE ResetInsert
    BY <2>2, EnterTimes DEF ResetInsert
  <2>3. CASE BeginSearch \/ ContinueSearch
    <3>1. PICK k \in Levels, w \in Watchdogs, after \in Nodes, d \in Nat, r \in Nat :
            /\ k = nest /\ w = frame[k].w /\ Inserting(k)
            /\ state[w] = "BEING_INSERTED"
            /\ after = TAIL \/ (after \in Watchdogs /\ OnChain(after))
            /\ SearchStep(w, after, d) /\ UNCHANGED initial
            /\ remaining' = [remaining EXCEPT ![w] = r]
            /\ r = d + (IF previous[after] = HEAD THEN 0 ELSE remaining[previous[after]])
            /\ r > 0 /\ r <= initial[w]
      BY <2>3, SearchCase
    <3> HIDE DEF Nodes, Levels
    <3> QED
      BY <3>1, SearchTimes
  <2> QED
    BY <1>2, <2>1, <2>2, <2>3, AbortTimes, RestartTimes DEF Insert
<1>3. CASE UNCHANGED vars
  BY <1>3 DEF vars, TimeInv, DeltasExact, Ranked, SearchValid, Resumes, Inserting,
              OnChain, NoneDue, Processing, TickAlone, First, IntervalsKept
<1> QED
  BY <1>0, <1>1, <1>2, <1>3, RemoveDeactivatedTimes, ClockTickTimes, TickleTimes
     DEF Next

\* A search that resumes after _ISR_Flash without being told of a change holds
\* a node of the chain, and what it has left counts from that node; and what
\* every watchdog of the chain has to wait is its delta behind the one before.
\* For any number of watchdogs, any intervals and any depth of nesting.
THEOREM SearchesStayValid ==
  ASSUME EntryRace = FALSE, TickInterruptible = FALSE
  PROVE  Spec => [](SearchValid /\ DeltasExact)
<1>1. StructInv /\ TimeInv /\ [Next]_vars => StructInv' /\ TimeInv'
  BY StructNext, TimeNext
<1>2. TimeInv => SearchValid /\ DeltasExact
  BY DEF TimeInv
<1> QED
  BY <1>1, <1>2, StructInit, TimeInit, PTL DEF Spec

-----------------------------------------------------------------------------
(***************************************************************************)
(* The delta chain implements independent count-down timers.               *)
(***************************************************************************)

TimerStatus == [w \in Watchdogs |-> CASE state[w] = "ACTIVE"    -> "on"
                                      [] state[w] = "REMOVE_IT" -> "muted"
                                      [] OTHER                  -> "off"]
TimerLeft == [w \in Watchdogs |-> IF OnChain(w) THEN remaining[w] ELSE 0]

Counts == INSTANCE IntervalTimers WITH
  Timers <- Watchdogs, status <- TimerStatus, left <- TimerLeft

\* The timer of a watchdog, by the watchdog's state.
LEMMA TimerOf ==
  ASSUME TypeOK
  PROVE  \A w \in Watchdogs :
           /\ TimerStatus[w] = "on" <=> state[w] = "ACTIVE"
           /\ TimerStatus[w] = "muted" <=> state[w] = "REMOVE_IT"
           /\ TimerStatus[w] = "off" <=> ~OnChain(w)
           /\ OnChain(w) => TimerLeft[w] = remaining[w]
           /\ ~OnChain(w) => TimerLeft[w] = 0
<1> SUFFICES ASSUME NEW w \in Watchdogs
             PROVE  /\ TimerStatus[w] = "on" <=> state[w] = "ACTIVE"
                    /\ TimerStatus[w] = "muted" <=> state[w] = "REMOVE_IT"
                    /\ TimerStatus[w] = "off" <=> ~OnChain(w)
                    /\ OnChain(w) => TimerLeft[w] = remaining[w]
                    /\ ~OnChain(w) => TimerLeft[w] = 0
  OBVIOUS
<1>1. state[w] \in States
  BY DEF TypeOK
<1>2. CASE state[w] = "ACTIVE"
  BY <1>2 DEF TimerStatus, TimerLeft, OnChain
<1>3. CASE state[w] = "REMOVE_IT"
  BY <1>3 DEF TimerStatus, TimerLeft, OnChain
<1>4. CASE state[w] \in {"INACTIVE", "BEING_INSERTED"}
  BY <1>4 DEF TimerStatus, TimerLeft, OnChain
<1> QED
  BY <1>1, <1>2, <1>3, <1>4

\* A step that leaves a watchdog's state and time alone leaves its timer alone.
LEMMA SameTimer ==
  ASSUME NEW w \in Watchdogs,
         \/ state'[w] = state[w] /\ (OnChain(w) => remaining'[w] = remaining[w])
         \/ /\ state[w] \in {"INACTIVE", "BEING_INSERTED"}
            /\ state'[w] \in {"INACTIVE", "BEING_INSERTED"}
  PROVE  TimerStatus'[w] = TimerStatus[w] /\ TimerLeft'[w] = TimerLeft[w]
<1>1. CASE state'[w] = state[w] /\ (OnChain(w) => remaining'[w] = remaining[w])
  BY <1>1 DEF TimerStatus, TimerLeft, OnChain
<1>2. CASE /\ state[w] \in {"INACTIVE", "BEING_INSERTED"}
           /\ state'[w] \in {"INACTIVE", "BEING_INSERTED"}
  BY <1>2 DEF TimerStatus, TimerLeft, OnChain
<1> QED
  BY <1>1, <1>2

\* A step that leaves all timers alone stutters.
LEMMA NoTimerMoves ==
  ASSUME \A w \in Watchdogs :
           TimerStatus'[w] = TimerStatus[w] /\ TimerLeft'[w] = TimerLeft[w]
  PROVE  UNCHANGED Counts!timers
<1>1. TimerStatus' = TimerStatus
  <2>1. /\ TimerStatus = [w \in Watchdogs |-> TimerStatus[w]]
        /\ TimerStatus' = [w \in Watchdogs |-> TimerStatus'[w]]
    BY DEF TimerStatus
  <2> QED
    BY <2>1
<1>2. TimerLeft' = TimerLeft
  <2>1. /\ TimerLeft = [w \in Watchdogs |-> TimerLeft[w]]
        /\ TimerLeft' = [w \in Watchdogs |-> TimerLeft'[w]]
    BY DEF TimerLeft
  <2> QED
    BY <2>1
<1> QED
  BY <1>1, <1>2 DEF Counts!timers

\* A step that sets one timer, and leaves the others alone.
LEMMA OneTimerMoves ==
  ASSUME NEW w \in Watchdogs, NEW s, NEW n,
         TimerStatus'[w] = s, TimerLeft'[w] = n,
         \A v \in Watchdogs : v # w =>
           TimerStatus'[v] = TimerStatus[v] /\ TimerLeft'[v] = TimerLeft[v]
  PROVE  /\ TimerStatus' = [TimerStatus EXCEPT ![w] = s]
         /\ TimerLeft' = [TimerLeft EXCEPT ![w] = n]
<1>1. TimerStatus' = [TimerStatus EXCEPT ![w] = s]
  <2>1. /\ TimerStatus = [v \in Watchdogs |-> TimerStatus[v]]
        /\ TimerStatus' = [v \in Watchdogs |-> TimerStatus'[v]]
    BY DEF TimerStatus
  <2> QED
    BY <2>1
<1>2. TimerLeft' = [TimerLeft EXCEPT ![w] = n]
  <2>1. /\ TimerLeft = [v \in Watchdogs |-> TimerLeft[v]]
        /\ TimerLeft' = [v \in Watchdogs |-> TimerLeft'[v]]
    BY DEF TimerLeft
  <2> QED
    BY <2>1
<1> QED
  BY <1>1, <1>2

\* _Watchdog_Remove switches a timer off, or finds it off.
LEMMA RemoveCounts ==
  ASSUME TypeOK, TypeOK', NEW w \in Watchdogs, NEW lv \in Levels, Remove(w, lv)
  PROVE  /\ Counts!Off(w)
         /\ ~OnChain(w) => UNCHANGED Counts!timers
<1>1. /\ state' = [state EXCEPT ![w] = "INACTIVE"]
      /\ remaining' = [remaining EXCEPT ![w] = 0]
      /\ state \in [Watchdogs -> States] /\ remaining \in [Watchdogs -> Nat]
  BY SMTT(30) DEF Remove, TypeOK
<1>2. \A v \in Watchdogs : v # w => state'[v] = state[v] /\ remaining'[v] = remaining[v]
  BY <1>1
<1>3. \A v \in Watchdogs : v # w =>
        TimerStatus'[v] = TimerStatus[v] /\ TimerLeft'[v] = TimerLeft[v]
  BY <1>2, SameTimer
<1>4. state'[w] = "INACTIVE"
  BY <1>1
<1>5. TimerStatus'[w] = "off" /\ TimerLeft'[w] = 0
  BY <1>4 DEF TimerStatus, TimerLeft, OnChain
<1>6. Counts!Off(w)
  BY <1>3, <1>5, OneTimerMoves DEF Counts!Off
<1>7. ASSUME ~OnChain(w) PROVE UNCHANGED Counts!timers
  <2>1. TimerStatus[w] = "off" /\ TimerLeft[w] = 0
    BY <1>7, TimerOf
  <2> QED
    BY <1>3, <1>5, <2>1, NoTimerMoves
<1> QED
  BY <1>6, <1>7

\* ... which is the cancellation of a timer, or nothing.
LEMMA RemoveCancels ==
  ASSUME TypeOK, TypeOK', NEW w \in Watchdogs, NEW lv \in Levels, Remove(w, lv)
  PROVE  [Counts!Next]_(Counts!timers)
<1>1. CASE OnChain(w)
  <2>1. Counts!Cancel(w)
    BY <1>1, RemoveCounts, TimerOf DEF Counts!Cancel
  <2> QED
    BY <2>1 DEF Counts!Next
<1>2. CASE ~OnChain(w)
  BY <1>2, RemoveCounts
<1> QED
  BY <1>1, <1>2

\* Each step of the handler is a step of the timers, or none.
LEMMA CountsNext ==
  ASSUME StructInv, StructInv', TimeInv, [Next]_vars
  PROVE  [Counts!Next]_(Counts!timers)
<1> USE WatchdogAssumption
<1>0. /\ TypeOK /\ TypeOK' /\ IntervalsKept /\ TickAlone /\ DeltasExact /\ ChainLinked
      /\ state \in [Watchdogs -> States] /\ remaining \in [Watchdogs -> Nat]
  BY DEF StructInv, TimeInv, TypeOK
<1>1. CASE UNCHANGED <<state, remaining>>
  <2>1. \A w \in Watchdogs :
          TimerStatus'[w] = TimerStatus[w] /\ TimerLeft'[w] = TimerLeft[w]
    BY <1>1, SameTimer
  <2> QED
    BY <2>1, NoTimerMoves
<1>2. CASE Call
  <2> SUFFICES ASSUME NEW lv \in Levels, NEW w \in Watchdogs,
                      \/ Cancel(lv, w)
                      \/ \E u \in Intervals : FireAfter(lv, w, u)
                      \/ Reset(lv, w)
                      \/ Deactivate(lv, w)
               PROVE  [Counts!Next]_(Counts!timers)
    BY <1>2 DEF Call
  <2>1. CASE Remove(w, lv)
    BY <2>1, <1>0, RemoveCancels
  <2>2. CASE Deactivate(lv, w)
    <3>1. /\ state[w] = "ACTIVE" /\ state' = [state EXCEPT ![w] = "REMOVE_IT"]
          /\ UNCHANGED remaining
      BY <2>2 DEF Deactivate, Deactivated
    <3>2. state'[w] = "REMOVE_IT" /\ \A v \in Watchdogs : v # w => state'[v] = state[v]
      BY <3>1, <1>0
    <3>3. \A v \in Watchdogs : v # w =>
            TimerStatus'[v] = TimerStatus[v] /\ TimerLeft'[v] = TimerLeft[v]
      BY <3>1, <3>2, SameTimer
    <3>4. TimerStatus[w] = "on" /\ TimerLeft[w] = remaining[w]
      BY <3>1, <1>0, TimerOf DEF OnChain
    <3>5. TimerStatus'[w] = "muted" /\ TimerLeft'[w] = remaining[w]
      BY <3>1, <3>2 DEF TimerStatus, TimerLeft, OnChain
    <3>6. TimerStatus' = [TimerStatus EXCEPT ![w] = "muted"]
      BY <3>3, <3>5, OneTimerMoves
    <3>7. TimerLeft' = TimerLeft
      <4>1. \A v \in Watchdogs : TimerLeft'[v] = TimerLeft[v]
        BY <3>3, <3>4, <3>5
      <4>2. /\ TimerLeft = [v \in Watchdogs |-> TimerLeft[v]]
            /\ TimerLeft' = [v \in Watchdogs |-> TimerLeft'[v]]
        BY DEF TimerLeft
      <4> QED
        BY <4>1, <4>2
    <3>8. Counts!Mute(w)
      BY <3>4, <3>6, <3>7 DEF Counts!Mute
    <3> QED
      BY <3>8 DEF Counts!Next
  <2> QED
    BY <2>1, <2>2 DEF Cancel, FireAfter, Reset
<1>3. CASE RemoveDeactivated
  <2>1. PICK k \in Levels, w \in Watchdogs : k = nest /\ w = frame[nest].w
    BY <1>3, BelowTop DEF RemoveDeactivated, StructInv, FramesOK
  <2>2. Remove(w, k)
    BY <1>3, <2>1 DEF RemoveDeactivated
  <2> QED
    BY <2>2, <1>0, RemoveCancels
<1>4. CASE StartInsert \/ ResetInsert
  <2>1. PICK w \in Watchdogs : w = frame[nest].w
    BY <1>4, BelowTop DEF StartInsert, ResetInsert, StructInv, FramesOK, Entering
  <2>2. /\ state[w] = "INACTIVE" /\ state' = [state EXCEPT ![w] = "BEING_INSERTED"]
        /\ UNCHANGED remaining
    BY <1>4, <2>1, BelowTop DEF StartInsert, ResetInsert, EnterInsert, StructInv,
                                EntryExclusive, Entering
  <2>3. state'[w] = "BEING_INSERTED" /\ \A v \in Watchdogs : v # w => state'[v] = state[v]
    BY <2>2, <1>0
  <2>4. \A v \in Watchdogs :
          TimerStatus'[v] = TimerStatus[v] /\ TimerLeft'[v] = TimerLeft[v]
    BY <2>2, <2>3, SameTimer
  <2> QED
    BY <2>4, NoTimerMoves
<1>5. CASE BeginSearch \/ ContinueSearch
  <2>1. PICK k \in Levels, w \in Watchdogs, after \in Nodes, d \in Nat, r \in Nat :
          /\ k = nest /\ w = frame[k].w /\ Inserting(k)
          /\ state[w] = "BEING_INSERTED"
          /\ after = TAIL \/ (after \in Watchdogs /\ OnChain(after))
          /\ SearchStep(w, after, d) /\ UNCHANGED initial
          /\ remaining' = [remaining EXCEPT ![w] = r]
          /\ r = d + (IF previous[after] = HEAD THEN 0 ELSE remaining[previous[after]])
          /\ r > 0 /\ r <= initial[w]
    BY <1>5, SearchCase
  <2>2. remaining'[w] = r /\ \A v \in Watchdogs : v # w => remaining'[v] = remaining[v]
    BY <2>1, <1>0
  <2>3. CASE UNCHANGED state
    <3>1. \A v \in Watchdogs :
            TimerStatus'[v] = TimerStatus[v] /\ TimerLeft'[v] = TimerLeft[v]
      BY <2>1, <2>2, <2>3, SameTimer
    <3> QED
      BY <3>1, NoTimerMoves
  <2>4. CASE state' = [state EXCEPT ![w] = "ACTIVE"]
    <3>1. state'[w] = "ACTIVE" /\ \A v \in Watchdogs : v # w => state'[v] = state[v]
      BY <2>4, <1>0
    <3>2. \A v \in Watchdogs : v # w =>
            TimerStatus'[v] = TimerStatus[v] /\ TimerLeft'[v] = TimerLeft[v]
      BY <2>2, <3>1, SameTimer
    <3>3. TimerStatus'[w] = "on" /\ TimerLeft'[w] = r
      BY <2>2, <3>1 DEF TimerStatus, TimerLeft, OnChain
    <3>4. TimerStatus[w] = "off"
      BY <2>1, <1>0, TimerOf DEF OnChain
    <3>5. initial[w] \in Intervals /\ initial[w] \in Nat
      BY <2>1, <1>0, SMT DEF IntervalsKept, TypeOK
    <3>6. r \in 1 .. initial[w]
      <4>1. r > 0 /\ r <= initial[w]
        BY <2>1
      <4> QED
        BY <3>5, <4>1, SMT
    <3>7. Counts!Arm(w)
      <4>1. /\ TimerStatus' = [TimerStatus EXCEPT ![w] = "on"]
            /\ TimerLeft' = [TimerLeft EXCEPT ![w] = r]
        BY <3>2, <3>3, OneTimerMoves
      <4> QED
        BY <4>1, <3>4, <3>5, <3>6 DEF Counts!Arm
    <3> QED
      BY <3>7 DEF Counts!Next
  <2> QED
    BY <2>1, <2>3, <2>4 DEF SearchStep, Activate
<1>6. CASE TickleDecrement
  <2>1. /\ state' = state /\ remaining' = [v \in Watchdogs |-> Tick(remaining[v])]
        /\ \A v \in Watchdogs : OnChain(v) => remaining[v] > 0
    BY <1>6, BeforeDecrement DEF TickleDecrement
  <2>2. TimerStatus' = TimerStatus
    BY <2>1 DEF TimerStatus
  <2>3. \A v \in Watchdogs : TimerStatus[v] # "off" => TimerLeft[v] > 0
    BY <2>1, <1>0, TimerOf
  <2>4. ASSUME NEW v \in Watchdogs
        PROVE  TimerLeft'[v] = IF TimerStatus[v] = "off" THEN 0 ELSE TimerLeft[v] - 1
    <3>1. CASE OnChain(v)
      <4>1. TimerStatus[v] # "off" /\ TimerLeft[v] = remaining[v]
        BY <3>1, <1>0, TimerOf
      <4>2. remaining'[v] = remaining[v] - 1
        BY <3>1, <2>1, <1>0 DEF Tick
      <4>3. TimerLeft'[v] = remaining'[v]
        BY <3>1, <2>1 DEF TimerLeft, OnChain
      <4> QED
        BY <4>1, <4>2, <4>3
    <3>2. CASE ~OnChain(v)
      <4>1. TimerStatus[v] = "off"
        BY <3>2, <1>0, TimerOf
      <4>2. TimerLeft'[v] = 0
        BY <3>2, <2>1 DEF TimerLeft, OnChain
      <4> QED
        BY <4>1, <4>2
    <3> QED
      BY <3>1, <3>2
  <2>5. TimerLeft' = [v \in Watchdogs |-> IF TimerStatus[v] = "off" THEN 0
                                          ELSE TimerLeft[v] - 1]
    <3>1. TimerLeft' = [v \in Watchdogs |-> TimerLeft'[v]]
      BY DEF TimerLeft
    <3> QED
      BY <2>4, <3>1
  <2>6. Counts!Tick
    BY <2>2, <2>3, <2>5 DEF Counts!Tick
  <2> QED
    BY <2>6 DEF Counts!Next
<1>7. CASE TickleExpire
  <2>1. PICK k \in Levels, w \in Watchdogs : k = nest /\ w = frame[nest].w
    BY <1>7, BelowTop DEF TickleExpire, StructInv, FramesOK
  <2>2. Remove(w, k) /\ frame[k].pc = "expire"
    BY <1>7, <2>1 DEF TickleExpire
  <2>3. CASE state[w] = "ACTIVE"
    <3>1. w = First /\ delta_interval[w] = 0
      BY <2>1, <2>2, <1>0 DEF TickAlone
    <3>2. OnChain(w) /\ previous[w] = HEAD
      BY <2>3, <3>1, <1>0 DEF OnChain, ChainLinked, First
    <3>3. remaining[w] = 0
      BY <3>1, <3>2, <1>0, SMT DEF DeltasExact
    <3>4. TimerStatus[w] = "on" /\ TimerLeft[w] = 0
      BY <2>3, <3>2, <3>3, <1>0, TimerOf
    <3>5. Counts!Fire(w)
      BY <2>2, <3>4, <1>0, RemoveCounts DEF Counts!Fire
    <3> QED
      BY <3>5 DEF Counts!Next
  <2>4. CASE state[w] # "ACTIVE"
    BY <2>2, <1>0, RemoveCancels
  <2> QED
    BY <2>3, <2>4, SMTT(30)
<1>8. CASE AbortInsert \/ RestartSearch \/ ClockTick \/ TickleEmpty \/ TickleFirst
           \/ RoutineReturns \/ TickleMore \/ UNCHANGED vars
  <2>1. UNCHANGED <<state, remaining>>
    BY <1>8 DEF AbortInsert, RestartSearch, ClockTick, TickleEmpty, TickleFirst,
                RoutineReturns, TickleMore, vars, chainVars
  <2> QED
    BY <2>1, <1>1
<1> QED
  BY <1>2, <1>3, <1>4, <1>5, <1>6, <1>7, <1>8 DEF Next, Insert, Tickle

\* The delta chain behaves as a set of independent count-down timers: all that
\* run count each tick together, a timer's routine is called only when its own
\* count has reached zero, and none is started with more than was asked for.
\* For any number of watchdogs, any intervals and any depth of nesting.
THEOREM ChainCountsDown ==
  ASSUME EntryRace = FALSE, TickInterruptible = FALSE
  PROVE  Spec => Counts!Spec
<1>1. Init => Counts!Init
  <2> SUFFICES ASSUME Init PROVE Counts!Init
    OBVIOUS
  <2>1. TimerStatus = [w \in Watchdogs |-> "off"] /\ TimerLeft = [w \in Watchdogs |-> 0]
    BY DEF Init, TimerStatus, TimerLeft, OnChain
  <2> QED
    BY <2>1 DEF Counts!Init
<1>2. StructInv /\ TimeInv /\ [Next]_vars => StructInv' /\ TimeInv'
  BY StructNext, TimeNext
<1>3. StructInv /\ StructInv' /\ TimeInv /\ [Next]_vars
        => [Counts!Next]_(Counts!timers)
  BY CountsNext
<1> QED
  BY <1>1, <1>2, <1>3, StructInit, TimeInit, PTL DEF Spec, Counts!Spec
=============================================================================
