---------------------------- MODULE EventProofs ----------------------------
(***************************************************************************)
(* Proofs about Event, for any number of threads and events and handlers   *)
(* that nest to any depth, the clock tick among them.                      *)
(***************************************************************************)
EXTENDS Event, TLAPS

\* Zenon is tried on every leaf that names no other prover.
USE Zenon

OnTheWay == {"timer", "block", "check"}

FrameType ==
  [pc : Places, op : {"none", "timeout"}, thread : Threads \cup {NULL},
   search : {NULL}, after : {"idle", "blocked"}, timed : {FALSE}, value : {0}]

TypeInv ==
  /\ state \in [Threads -> {"ready", "waiting"}]
  /\ calling \subseteq Threads
  /\ executing \in Threads \cup {NULL}
  /\ nest \in Levels
  /\ frame \in [Levels -> FrameType]
  /\ pending_events \in [Threads -> SUBSET Events]
  /\ condition \in [Threads -> SUBSET Events]
  /\ any \in [Threads -> BOOLEAN]
  /\ Sync_state \in SyncStates

Sat(t) == Satisfies(pending_events[t], condition[t], any[t])

\* _Event_Sync_state says whether the executing thread is on its way to its
\* wait; a handler that found it so is still right about it.
SyncInv ==
  /\ Sync_state # "SYNCHRONIZED" <=> frame[0].pc \in OnTheWay
  /\ frame[0].pc \in OnTheWay => executing \in Threads /\ frame[0].thread = executing
  /\ frame[0].pc \notin {"timeout", "sync", "mark", "expired"}
  /\ frame[0].pc = "idle" => frame[0].thread = NULL
  /\ \A l \in 0..nest :
       /\ frame[l].pc = "idle" => l = 0
       /\ frame[l].pc \in {"sync", "mark"} =>
            Sync_state # "SYNCHRONIZED" /\ frame[l].thread = executing
       /\ l > 0 => frame[l].pc \notin OnTheWay \cup {"blocked"} /\ frame[l].after = "idle"

\* Some level is about to look at the events of t.
Surrendering(t) ==
  \E l \in 0..nest : frame[l].thread = t /\ frame[l].pc = "surrender"

\* While the thread is on its way and has been told nothing, it has no events
\* that a handler is not about to see.
WayInv ==
  Sync_state = "NOTHING_HAPPENED" /\ Sat(executing) => Surrendering(executing)

Inv == TypeInv /\ SyncInv /\ WayInv /\ NoMissedWakeup

LEMMA LevelFacts ==
  ASSUME NEW n \in Levels
  PROVE  n \in Nat /\ 0 \in Levels /\ 0..n \subseteq Levels /\ n \in 0..n /\ 0 \in 0..n
         /\ (n # 0 => n - 1 \in Levels /\ 0..n = 0..(n - 1) \cup {n})
         /\ (n + 1 \in Levels => 0..(n + 1) = 0..n \cup {n + 1})
BY BlockingAssumption, SMT DEF Levels

\* The events of a thread that were taken satisfy its condition no longer.
LEMMA TakenNotSat ==
  ASSUME NEW S, NEW c, NEW b PROVE ~ Satisfies(S \ c, c, b)
BY DEF Satisfies

LEMMA FewerNotSat ==
  ASSUME NEW S, NEW R \in SUBSET S, NEW c, NEW b, Satisfies(R, c, b)
  PROVE  Satisfies(S, c, b)
BY DEF Satisfies

-----------------------------------------------------------------------------
(* The frames. *)

LEMMA GotoFacts ==
  ASSUME TypeInv, NEW p \in Places, Goto(p)
  PROVE  /\ nest' = nest /\ frame' \in [Levels -> FrameType]
         /\ frame'[nest].pc = p
         /\ frame'[nest].thread = frame[nest].thread
         /\ frame'[nest].after = frame[nest].after
         /\ \A l \in Levels : l # nest => frame'[l] = frame[l]
<1> DEFINE f == [frame[nest] EXCEPT !.pc = p]
<1>1. frame[nest] \in FrameType /\ nest \in Levels BY DEF TypeInv
<1>2. /\ f \in FrameType /\ f.pc = p
      /\ f.thread = frame[nest].thread /\ f.after = frame[nest].after
  BY <1>1 DEF FrameType
<1>3. frame' = [frame EXCEPT ![nest] = f] /\ nest' = nest BY DEF Goto
<1> HIDE DEF f
<1> QED BY <1>1, <1>2, <1>3 DEF TypeInv

LEMMA IdleType == IdleFrame \in FrameType /\ IdleFrame.pc = "idle" /\ IdleFrame.thread = NULL
BY DEF IdleFrame, FrameType, Places

LEMMA FinishFacts ==
  ASSUME TypeInv, Finish
  PROVE  /\ nest' \in Levels /\ frame' \in [Levels -> FrameType]
         /\ frame'[nest] = IdleFrame
         /\ \A l \in Levels : l # nest => frame'[l] = frame[l]
         /\ nest = 0 => nest' = 0
         /\ nest # 0 => nest' = nest - 1
<1>1. frame \in [Levels -> FrameType] /\ nest \in Levels BY DEF TypeInv
<1>2. nest \in Nat /\ (nest # 0 => nest - 1 \in Levels) BY <1>1, LevelFacts
<1>3. frame' = [frame EXCEPT ![nest] = IdleFrame]
      /\ nest' = IF nest > 0 THEN nest - 1 ELSE nest
  BY DEF Finish, InHandler
<1> HIDE DEF IdleFrame
<1> QED BY <1>1, <1>2, <1>3, IdleType, SMT

LEMMA BeginFacts ==
  ASSUME TypeInv, NEW lv \in Levels, NEW f \in FrameType, Begin(lv, f)
  PROVE  /\ nest' = lv /\ frame' \in [Levels -> FrameType]
         /\ frame'[lv] = f
         /\ \A l \in Levels : l # lv => frame'[l] = frame[l]
BY DEF Begin, TypeInv

\* Only the innermost level is new; it goes on with the same thread.
LEMMA ServedOn ==
  ASSUME TypeInv, NEW t, BeingServed(t), UNCHANGED <<nest, executing, Sync_state>>,
         frame'[nest].thread = frame[nest].thread, frame'[nest].pc # "blocked",
         \A l \in Levels : l # nest => frame'[l] = frame[l]
  PROVE  BeingServed(t)'
<1>1. 0..nest \subseteq Levels BY LevelFacts DEF TypeInv
<1> QED BY <1>1 DEF BeingServed

\* A handler's level is not that of the thread.
LEMMA AboveZero ==
  ASSUME NEW n \in Nat, NEW lv, lv = n + 1
  PROVE  lv # 0
BY SMT

\* A level below the one that ends is still there after it.
LEMMA LevelBelow ==
  ASSUME NEW l \in Nat, NEW n \in Nat, NEW m \in Nat, l <= n, l # n, n <= m + 1
  PROVE  l \in 0..m
BY SMT

\* The innermost level was about another thread.
LEMMA ServedBelow ==
  ASSUME TypeInv, NEW t, frame[nest].thread # t, nest' \in Nat, nest <= nest' + 1,
         \A l \in Levels : l # nest => frame'[l] = frame[l],
         \E l \in 0..nest : frame[l].thread = t /\ frame[l].pc # "blocked"
  PROVE  BeingServed(t)'
<1>1. PICK l \in 0..nest : frame[l].thread = t /\ frame[l].pc # "blocked" OBVIOUS
<1>2. nest \in Nat /\ 0..nest \subseteq Levels BY LevelFacts DEF TypeInv
<1>3. l # nest /\ l \in Levels BY <1>1, <1>2
<1>4. l \in Nat /\ l <= nest BY <1>1, <1>2, SMT
<1>5. l \in 0..nest' BY <1>2, <1>3, <1>4, LevelBelow
<1> QED BY <1>1, <1>3, <1>5 DEF BeingServed

\* A handler comes on top.
LEMMA ServedUnder ==
  ASSUME TypeInv, NEW t, BeingServed(t), UNCHANGED <<executing, Sync_state>>,
         nest' = nest + 1, nest + 1 \in Levels,
         \A l \in Levels : l # nest + 1 => frame'[l] = frame[l]
  PROVE  BeingServed(t)'
<1>1. nest \in Nat /\ 0..nest \subseteq Levels BY LevelFacts DEF TypeInv
<1>2. ASSUME NEW l \in 0..nest PROVE l \in 0..nest' /\ frame'[l] = frame[l]
  BY <1>1, SMT
<1> QED BY <1>2 DEF BeingServed

\* Between two directives nobody is being served.
LEMMA NobodyServed ==
  ASSUME TypeInv, SyncInv, nest = 0, frame[0].pc \in {"idle", "blocked"}, NEW t \in Threads
  PROVE  ~ BeingServed(t) /\ Sync_state = "SYNCHRONIZED"
<1>1. Sync_state = "SYNCHRONIZED" BY DEF SyncInv, OnTheWay
<1>2. ASSUME NEW l \in 0..nest PROVE l = 0 BY SMT
<1>3. frame[0].pc = "idle" => frame[0].thread # t BY BlockingAssumption DEF SyncInv
<1> QED BY <1>1, <1>2, <1>3 DEF BeingServed

-----------------------------------------------------------------------------
(* The steps. *)

Timing == {"timeout", "sync", "mark", "expired"}

\* A step that only moves the innermost level on
LEMMA GoesOn ==
  ASSUME Inv,
         UNCHANGED <<state, calling, executing, nest, pending_events, condition, any,
                     Sync_state>>,
         frame' \in [Levels -> FrameType],
         frame'[nest].thread = frame[nest].thread,
         \A l \in Levels : l # nest => frame'[l] = frame[l],
         frame[nest].pc \notin {"surrender", "idle"},
         frame'[nest].pc \notin {"blocked", "idle"},
         frame'[nest].pc \in OnTheWay <=> frame[nest].pc \in OnTheWay,
         frame'[nest].pc \in Timing => frame[nest].pc \in Timing,
         frame'[nest].pc \in {"sync", "mark"} =>
           Sync_state # "SYNCHRONIZED" /\ frame[nest].thread = executing,
         nest # 0 => frame'[nest].after = "idle"
  PROVE  Inv'
<1>1. TypeInv /\ SyncInv /\ WayInv /\ NoMissedWakeup BY DEF Inv
<1>2. nest \in Levels /\ 0 \in Levels /\ 0..nest \subseteq Levels /\ nest \in 0..nest
      /\ 0 \in 0..nest /\ nest \in Nat
  BY <1>1, LevelFacts DEF TypeInv
<1>3. TypeInv' BY <1>1 DEF TypeInv
<1>4. SyncInv'
  <2>1. frame'[0].pc \in OnTheWay <=> frame[0].pc \in OnTheWay BY <1>2
  <2>2. frame'[0].thread = frame[0].thread BY <1>2
  <2>3. frame'[0].pc \notin Timing
    <3>1. frame[0].pc \notin Timing BY <1>1 DEF SyncInv, Timing
    <3> QED BY <1>2, <3>1
  <2>4. frame'[0].pc = "idle" => frame'[0].thread = NULL
    <3>1. frame[0].pc = "idle" => frame[0].thread = NULL BY <1>1 DEF SyncInv
    <3> QED BY <1>2, <3>1
  <2>5. ASSUME NEW l \in 0..nest
        PROVE  /\ frame'[l].pc = "idle" => l = 0
               /\ frame'[l].pc \in {"sync", "mark"} =>
                    Sync_state # "SYNCHRONIZED" /\ frame'[l].thread = executing
               /\ l > 0 => frame'[l].pc \notin OnTheWay \cup {"blocked"}
                           /\ frame'[l].after = "idle"
    <3>1. CASE l = nest BY <1>1, <1>2, <3>1, SMT DEF SyncInv
    <3>2. CASE l # nest BY <1>1, <1>2, <3>2 DEF SyncInv
    <3> QED BY <3>1, <3>2
  <2> QED BY <1>1, <2>1, <2>2, <2>3, <2>4, <2>5 DEF SyncInv, Timing
<1>5. WayInv'
  <2>1. ASSUME Surrendering(executing) PROVE Surrendering(executing)'
    <3>1. PICK l \in 0..nest : frame[l].thread = executing /\ frame[l].pc = "surrender"
      BY <2>1 DEF Surrendering
    <3>2. frame'[l] = frame[l] BY <1>2, <3>1
    <3> QED BY <3>1, <3>2 DEF Surrendering
  <2>2. Sat(executing)' = Sat(executing) BY DEF Sat
  <2> QED BY <1>1, <2>1, <2>2 DEF WayInv
<1>6. NoMissedWakeup'
  <2>1. \A t \in Threads : BeingServed(t) => BeingServed(t)' BY <1>1, ServedOn
  <2> QED BY <1>1, <2>1 DEF NoMissedWakeup
<1> QED BY <1>3, <1>4, <1>5, <1>6 DEF Inv

\* Taking a thread out of its wait: what is new is the frame.
LEMMA TakeFrame ==
  ASSUME NEW lv, NEW t \in Threads \cup {NULL}, NEW a \in {"idle", "blocked"},
         Take(lv, "none", t, a)
  PROVE  \E f \in FrameType : /\ Begin(lv, f) /\ f.pc \in {"remove", "unblock"}
                              /\ f.thread = t /\ f.after = a
<1> DEFINE p == IF Timed(t) THEN "remove" ELSE "unblock"
           f == [IdleFrame EXCEPT !.pc = p, !.op = "none", !.thread = t, !.after = a]
<1>1. p \in {"remove", "unblock"} /\ p \in Places BY DEF Places
<1> HIDE DEF p
<1>2. f \in FrameType /\ f.pc = p /\ f.thread = t /\ f.after = a
  BY <1>1 DEF IdleFrame, FrameType
<1>3. Begin(lv, f) BY DEF Take, p
<1> QED BY <1>1, <1>2, <1>3

LEMMA PlainSteps ==
  ASSUME Inv, \/ RemoveTimer /\ UNCHANGED eventVars
              \/ StartTimer("block") /\ UNCHANGED eventVars
              \/ SurrenderEnd \/ TimeoutStatus
              \/ At("timeout") /\ TimeoutTest
              \/ At("sync") /\ TimeoutTest /\ NotSatisfied
  PROVE  Inv'
<1>1. TypeInv /\ SyncInv /\ nest \in Levels /\ nest \in 0..nest /\ frame[nest] \in FrameType
  BY LevelFacts DEF Inv, TypeInv
<1>2. nest # 0 => frame[nest].after = "idle"
  BY <1>1, SMT DEF SyncInv, TypeInv, Levels
<1>3. CASE RemoveTimer /\ UNCHANGED eventVars
  <2>1. frame[nest].pc = "remove" /\ Goto("unblock")
        /\ UNCHANGED <<state, calling, executing, pending_events, condition, any, Sync_state>>
    BY <1>3 DEF RemoveTimer, At, eventVars
  <2> QED BY <1>1, <1>2, <2>1, GotoFacts, GoesOn DEF Places, OnTheWay, Timing
<1>4. CASE StartTimer("block") /\ UNCHANGED eventVars
  <2>1. frame[nest].pc = "timer" /\ Goto("block")
        /\ UNCHANGED <<state, calling, executing, pending_events, condition, any, Sync_state>>
    BY <1>4 DEF StartTimer, At, eventVars
  <2> QED BY <1>1, <1>2, <2>1, GotoFacts, GoesOn DEF Places, OnTheWay, Timing
<1>5. CASE TimeoutStatus
  <2>1. frame[nest].pc = "expired" /\ Goto("unblock")
        /\ UNCHANGED <<state, calling, executing, pending_events, condition, any, Sync_state>>
    BY <1>5 DEF TimeoutStatus, At, eventVars
  <2> QED BY <1>1, <1>2, <2>1, GotoFacts, GoesOn DEF Places, OnTheWay, Timing
<1>6. CASE At("timeout") /\ TimeoutTest
  <2>1. /\ frame[nest].pc = "timeout"
        /\ Goto(IF StillBlocking(frame[nest].thread) THEN "sync" ELSE "expired")
        /\ UNCHANGED <<state, calling, executing, pending_events, condition, any, Sync_state>>
    BY <1>6 DEF TimeoutTest, At, eventVars
  <2>2. CASE StillBlocking(frame[nest].thread)
    <3>1. Goto("sync") /\ Sync_state # "SYNCHRONIZED" /\ executing = frame[nest].thread
      BY <2>1, <2>2 DEF StillBlocking
    <3> QED BY <1>1, <1>2, <2>1, <3>1, GotoFacts, GoesOn DEF Places, OnTheWay, Timing
  <2>3. CASE ~ StillBlocking(frame[nest].thread)
    <3>1. Goto("expired") BY <2>1, <2>3
    <3> QED BY <1>1, <1>2, <2>1, <3>1, GotoFacts, GoesOn DEF Places, OnTheWay, Timing
  <2> QED BY <2>2, <2>3
<1>7. CASE At("sync") /\ TimeoutTest /\ NotSatisfied
  <2>1. frame[nest].pc = "sync" /\ Goto("mark")
        /\ UNCHANGED <<state, calling, executing, pending_events, condition, any, Sync_state>>
    BY <1>7 DEF TimeoutTest, At, eventVars
  <2>2. Sync_state # "SYNCHRONIZED" /\ frame[nest].thread = executing
    BY <1>1, <2>1 DEF SyncInv
  <2> QED BY <1>1, <1>2, <2>1, <2>2, GotoFacts, GoesOn DEF Places, OnTheWay, Timing
<1>8. CASE SurrenderEnd
  <2>1. frame[nest].pc = "flash" /\ Take(nest, "none", frame[nest].thread, "idle")
        /\ UNCHANGED <<state, calling, executing, pending_events, condition, any, Sync_state>>
    BY <1>8 DEF SurrenderEnd, At, eventVars
  <2>2. frame[nest].thread \in Threads \cup {NULL} BY <1>1 DEF FrameType
  <2>3. PICK f \in FrameType : /\ Begin(nest, f) /\ f.pc \in {"remove", "unblock"}
                               /\ f.thread = frame[nest].thread /\ f.after = "idle"
    BY <2>1, <2>2, TakeFrame, SMT
  <2>4. /\ nest' = nest /\ frame' \in [Levels -> FrameType] /\ frame'[nest] = f
        /\ \A l \in Levels : l # nest => frame'[l] = frame[l]
    BY <1>1, <2>3, BeginFacts
  <2> QED BY <2>1, <2>3, <2>4, GoesOn DEF OnTheWay, Timing
<1> QED BY <1>3, <1>4, <1>5, <1>6, <1>7, <1>8

\* Another level that is about to give its events still is.
LEMMA SurrenderingBelow ==
  ASSUME TypeInv, NEW t, Surrendering(t),
         frame[nest].pc # "surrender" \/ frame[nest].thread # t,
         nest' \in Nat, nest <= nest' + 1,
         \A l \in Levels : l # nest => frame'[l] = frame[l]
  PROVE  \E l \in 0..nest' : frame'[l].thread = t /\ frame'[l].pc = "surrender"
<1>1. PICK l \in 0..nest : frame[l].thread = t /\ frame[l].pc = "surrender"
  BY DEF Surrendering
<1>2. nest \in Nat /\ 0..nest \subseteq Levels BY LevelFacts DEF TypeInv
<1>3. l # nest BY <1>1
<1>4. l \in Levels /\ l \in Nat /\ l <= nest BY <1>2, SMT
<1>5. l \in 0..nest' BY <1>2, <1>3, <1>4, LevelBelow
<1> QED BY <1>1, <1>3, <1>4, <1>5

\* The innermost level is over.
LEMMA EndSync ==
  ASSUME TypeInv, SyncInv, Finish, UNCHANGED executing, frame[nest].pc \notin OnTheWay,
         Sync_state' # "SYNCHRONIZED" <=> Sync_state # "SYNCHRONIZED"
  PROVE  SyncInv'
<1>1. /\ nest' \in Levels /\ frame'[nest] = IdleFrame
      /\ \A l \in Levels : l # nest => frame'[l] = frame[l]
      /\ nest = 0 => nest' = 0
      /\ nest # 0 => nest' = nest - 1
  BY FinishFacts
<1>2. nest \in Levels /\ 0 \in Levels /\ 0..nest \subseteq Levels /\ nest \in Nat /\ nest \in 0..nest
  BY LevelFacts DEF TypeInv
<1> HIDE DEF IdleFrame
<1>3. CASE nest = 0
  <2>1. frame'[0] = IdleFrame /\ nest' = 0 BY <1>1, <1>3
  <2>2. Sync_state = "SYNCHRONIZED" BY <1>3 DEF SyncInv
  <2>3. IdleFrame.pc \notin OnTheWay BY IdleType DEF OnTheWay
  <2> QED BY <2>1, <2>2, <2>3, IdleType, SMT DEF SyncInv
<1>4. CASE nest # 0
  <2>1. frame'[0] = frame[0] BY <1>1, <1>2, <1>4
  <2>2. ASSUME NEW l \in 0..nest' PROVE l \in 0..nest /\ frame'[l] = frame[l]
    <3>1. l \in 0..nest /\ l # nest BY <1>1, <1>2, <1>4, SMT
    <3> QED BY <1>1, <1>2, <3>1
  <2> QED BY <2>1, <2>2 DEF SyncInv
<1> QED BY <1>3, <1>4

\* A level that is over and has not taken events leaves the others as served as
\* they were.
LEMMA EndOthers ==
  ASSUME Inv, Finish, UNCHANGED <<state, executing, condition, any>>,
         NEW t \in Threads, t # frame[nest].thread,
         pending_events'[t] = pending_events[t],
         Sync_state = "SATISFIED" /\ executing = t => Sync_state' = "SATISFIED",
         state'[t] = "waiting", Sat(t)'
  PROVE  BeingServed(t)'
<1>1. TypeInv /\ NoMissedWakeup BY DEF Inv
<1>2. Sat(t) /\ state[t] = "waiting" BY DEF Sat
<1>3. BeingServed(t) BY <1>1, <1>2 DEF NoMissedWakeup, Sat
<1>4. nest' \in Levels /\ (nest = 0 => nest' = 0) /\ (nest # 0 => nest' = nest - 1)
      /\ \A l \in Levels : l # nest => frame'[l] = frame[l]
  BY <1>1, FinishFacts
<1>5. nest \in Nat /\ nest' \in Nat /\ nest <= nest' + 1
  BY <1>1, <1>4, LevelFacts, SMT DEF TypeInv
<1>6. CASE \E l \in 0..nest : frame[l].thread = t /\ frame[l].pc # "blocked"
  BY <1>1, <1>4, <1>5, <1>6, ServedBelow
<1>7. CASE Sync_state = "SATISFIED" /\ executing = t BY <1>7 DEF BeingServed
<1> QED BY <1>3, <1>6, <1>7 DEF BeingServed

LEMMA UnblockStep == ASSUME Inv, Unblock, UNCHANGED eventVars PROVE Inv'
<1> DEFINE x == frame[nest].thread
<1>1. TypeInv /\ SyncInv /\ WayInv /\ NoMissedWakeup BY DEF Inv
<1>2. nest \in Levels /\ 0 \in Levels /\ 0..nest \subseteq Levels /\ nest \in Nat /\ nest \in 0..nest
      /\ 0 \in 0..nest
  BY <1>1, LevelFacts DEF TypeInv
<1>3. /\ frame[nest].pc = "unblock" /\ state' = [state EXCEPT ![x] = "ready"]
      /\ UNCHANGED <<calling, executing, pending_events, condition, any, Sync_state>>
      /\ IF frame[nest].after = "idle" THEN Finish ELSE Goto(frame[nest].after)
  BY DEF Unblock, At, eventVars
<1>4. /\ state' \in [Threads -> {"ready", "waiting"}]
      /\ \A t \in Threads : state'[t] = "waiting" => t # x /\ state[t] = "waiting"
  BY <1>1, <1>3 DEF TypeInv
<1>5. frame[nest].after \in {"idle", "blocked"} BY <1>1, <1>2 DEF TypeInv, FrameType
<1>6. \A t \in Threads : Sat(t)' = Sat(t) BY <1>3 DEF Sat
<1>7. /\ nest' \in Levels /\ frame' \in [Levels -> FrameType]
      /\ \A l \in Levels : l # nest => frame'[l] = frame[l]
      /\ nest' \in Nat /\ nest <= nest' + 1
  <2>1. CASE Finish
    <3>1. /\ nest' \in Levels /\ frame' \in [Levels -> FrameType]
          /\ \A l \in Levels : l # nest => frame'[l] = frame[l]
          /\ nest = 0 => nest' = 0
          /\ nest # 0 => nest' = nest - 1
      BY <1>1, <2>1, FinishFacts
    <3>2. nest' \in Nat /\ nest <= nest' + 1
      <4>1. CASE nest = 0 BY <3>1, <4>1, SMT
      <4>2. CASE nest # 0 BY <1>2, <3>1, <4>2, SMT
      <4> QED BY <4>1, <4>2
    <3> QED BY <3>1, <3>2
  <2>2. CASE Goto("blocked")
    <3>1. /\ nest' = nest /\ frame' \in [Levels -> FrameType]
          /\ \A l \in Levels : l # nest => frame'[l] = frame[l]
      BY <1>1, <2>2, GotoFacts DEF Places
    <3> QED BY <1>2, <3>1, SMT
  <2> QED BY <1>3, <1>5, <2>1, <2>2
<1>8. TypeInv' BY <1>1, <1>3, <1>4, <1>7 DEF TypeInv
<1>9. SyncInv'
  <2>1. CASE frame[nest].after = "idle"
    BY <1>1, <1>3, <2>1, EndSync DEF OnTheWay
  <2>2. CASE frame[nest].after # "idle"
    <3>1. nest = 0 /\ Goto("blocked") BY <1>1, <1>2, <1>3, <1>5, <2>2, SMT DEF SyncInv
    <3>2. nest' = 0 /\ frame'[0].pc = "blocked" BY <1>1, <3>1, GotoFacts DEF Places
    <3>3. Sync_state = "SYNCHRONIZED" BY <1>1, <1>3, <3>1 DEF SyncInv, OnTheWay
    <3> QED BY <1>3, <3>2, <3>3, SMT DEF SyncInv, OnTheWay
  <2> QED BY <2>1, <2>2
<1>10. WayInv'
  <2>1. Surrendering(executing) => Surrendering(executing)'
    BY <1>1, <1>3, <1>7, SurrenderingBelow DEF Surrendering
  <2>2. Sat(executing)' = Sat(executing) BY <1>3 DEF Sat
  <2> QED BY <1>1, <1>3, <2>1, <2>2 DEF WayInv
<1>11. NoMissedWakeup'
  <2> SUFFICES ASSUME NEW t \in Threads, state'[t] = "waiting", Sat(t)'
               PROVE  BeingServed(t)'
    BY DEF NoMissedWakeup, Sat
  <2>1. BeingServed(t) /\ t # x BY <1>1, <1>4, <1>6 DEF NoMissedWakeup, Sat
  <2>2. CASE \E l \in 0..nest : frame[l].thread = t /\ frame[l].pc # "blocked"
    BY <1>1, <1>7, <2>1, <2>2, ServedBelow
  <2>3. CASE Sync_state = "SATISFIED" /\ executing = t BY <1>3, <2>3 DEF BeingServed
  <2> QED BY <2>1, <2>2, <2>3 DEF BeingServed
<1> QED BY <1>8, <1>9, <1>10, <1>11 DEF Inv

\* A thread on its way to its wait is at level 0.
LEMMA OnItsWayAtZero ==
  ASSUME Inv, frame[nest].pc \in OnTheWay
  PROVE  nest = 0 /\ executing \in Threads /\ frame[0].thread = executing
         /\ Sync_state # "SYNCHRONIZED"
<1>1. nest \in Nat /\ nest \in 0..nest BY LevelFacts DEF Inv, TypeInv
<1>2. nest = 0 BY <1>1, SMT DEF Inv, SyncInv
<1> QED BY <1>2 DEF Inv, SyncInv

LEMMA BlockStep == ASSUME Inv, Block("check"), UNCHANGED eventVars PROVE Inv'
<1>1. TypeInv /\ SyncInv /\ WayInv /\ NoMissedWakeup /\ 0 \in Levels
  BY LevelFacts DEF Inv, TypeInv
<1>2. /\ frame[nest].pc = "block" /\ Goto("check")
      /\ state' = [state EXCEPT ![executing] = "waiting"]
      /\ UNCHANGED <<calling, executing, pending_events, condition, any, Sync_state>>
  BY DEF Block, At, eventVars
<1>3. nest = 0 /\ executing \in Threads /\ frame[0].thread = executing
      /\ Sync_state # "SYNCHRONIZED"
  BY <1>2, OnItsWayAtZero DEF OnTheWay
<1>4. /\ nest' = 0 /\ frame' \in [Levels -> FrameType]
      /\ frame'[0].pc = "check" /\ frame'[0].thread = executing
      /\ \A l \in Levels : l # 0 => frame'[l] = frame[l]
  BY <1>1, <1>2, <1>3, GotoFacts DEF Places
<1>5. TypeInv' BY <1>1, <1>2, <1>3, <1>4 DEF TypeInv
<1>6. SyncInv' BY <1>1, <1>2, <1>3, <1>4, SMT DEF SyncInv, OnTheWay
<1>7. WayInv'
  <2>1. ~ Surrendering(executing) BY <1>2, <1>3, SMT DEF Surrendering
  <2>2. Sat(executing)' = Sat(executing) BY <1>2 DEF Sat
  <2> QED BY <1>1, <1>2, <2>1, <2>2 DEF WayInv
<1>8. NoMissedWakeup'
  <2> SUFFICES ASSUME NEW t \in Threads, state'[t] = "waiting", Sat(t)'
               PROVE  BeingServed(t)'
    BY DEF NoMissedWakeup, Sat
  <2>1. CASE t = executing
    <3>1. 0 \in 0..nest' /\ frame'[0].thread = t /\ frame'[0].pc # "blocked" BY <1>4, <2>1, SMT
    <3> QED BY <3>1 DEF BeingServed
  <2>2. CASE t # executing
    <3>1. state[t] = "waiting" /\ Sat(t) BY <1>1, <1>2, <1>3, <2>2 DEF TypeInv, Sat
    <3>2. BeingServed(t) BY <1>1, <3>1 DEF NoMissedWakeup, Sat
    <3> QED BY <1>3, <2>2, <3>2, SMT DEF BeingServed
  <2> QED BY <2>1, <2>2
<1> QED BY <1>5, <1>6, <1>7, <1>8 DEF Inv

LEMMA SeizeCheckStep == ASSUME Inv, SeizeCheck PROVE Inv'
<1>1. TypeInv /\ SyncInv /\ WayInv /\ NoMissedWakeup /\ 0 \in Levels /\ frame[0] \in FrameType
  BY LevelFacts DEF Inv, TypeInv
<1>2. /\ frame[nest].pc = "check" /\ Sync_state' = "SYNCHRONIZED"
      /\ UNCHANGED <<state, calling, executing, pending_events, condition, any>>
  BY DEF SeizeCheck, At
<1>3. nest = 0 /\ executing \in Threads /\ frame[0].thread = executing
      /\ Sync_state # "SYNCHRONIZED"
  BY <1>2, OnItsWayAtZero DEF OnTheWay
<1>4. \/ Sync_state = "NOTHING_HAPPENED" /\ Goto("blocked")
      \/ Begin(0, [frame[0] EXCEPT !.pc = "unblock", !.after = "blocked"])
      \/ Take(0, "none", executing, "blocked")
  BY <1>3 DEF SeizeCheck
<1>5. ASSUME nest' = 0, frame' \in [Levels -> FrameType],
             frame'[0].pc \in {"blocked", "remove", "unblock"}
      PROVE  TypeInv' /\ SyncInv' /\ WayInv'
  <2>1. TypeInv' BY <1>1, <1>2, <1>5 DEF TypeInv, SyncStates
  <2>2. SyncInv' BY <1>2, <1>5, SMT DEF SyncInv, OnTheWay
  <2>3. WayInv' BY <1>2 DEF WayInv
  <2> QED BY <2>1, <2>2, <2>3
<1>6. ASSUME NEW t \in Threads, t # executing, state'[t] = "waiting" PROVE ~ Sat(t)'
  <2>1. ~ BeingServed(t) BY <1>3, <1>6, SMT DEF BeingServed
  <2>2. Sat(t)' = Sat(t) /\ state[t] = "waiting" BY <1>2, <1>6 DEF Sat
  <2> QED BY <1>1, <2>1, <2>2 DEF NoMissedWakeup, Sat
<1>7. CASE Sync_state = "NOTHING_HAPPENED" /\ Goto("blocked")
  <2>1. nest' = 0 /\ frame' \in [Levels -> FrameType] /\ frame'[0].pc = "blocked"
    BY <1>1, <1>3, <1>7, GotoFacts DEF Places
  <2>2. ~ Surrendering(executing) BY <1>2, <1>3, SMT DEF Surrendering
  <2>3. ASSUME NEW t \in Threads, t = executing PROVE ~ Sat(t)'
    BY <1>1, <1>2, <1>7, <2>2, <2>3 DEF WayInv, Sat
  <2>4. NoMissedWakeup' BY <1>6, <2>3 DEF NoMissedWakeup, Sat
  <2> QED BY <1>5, <2>1, <2>4 DEF Inv
<1>8. ASSUME NEW f \in FrameType, Begin(0, f), f.pc \in {"remove", "unblock"},
             f.thread = executing
      PROVE  Inv'
  <2>1. nest' = 0 /\ frame' \in [Levels -> FrameType] /\ frame'[0] = f
    BY <1>1, <1>8, BeginFacts
  <2>2. BeingServed(executing)' BY <1>2, <1>8, <2>1, SMT DEF BeingServed
  <2>3. NoMissedWakeup' BY <1>2, <1>6, <2>2 DEF NoMissedWakeup, Sat
  <2> QED BY <1>5, <1>8, <2>1, <2>3 DEF Inv
<1>9. CASE Begin(0, [frame[0] EXCEPT !.pc = "unblock", !.after = "blocked"])
  <2> DEFINE f == [frame[0] EXCEPT !.pc = "unblock", !.after = "blocked"]
  <2>1. f \in FrameType /\ f.pc = "unblock" /\ f.thread = executing
    BY <1>1, <1>3 DEF FrameType, Places
  <2> HIDE DEF f
  <2> QED BY <1>8, <1>9, <2>1 DEF f
<1>10. CASE Take(0, "none", executing, "blocked")
  BY <1>3, <1>8, <1>10, TakeFrame, SMT
<1> QED BY <1>4, <1>7, <1>9, <1>10

LEMMA SurrenderStep == ASSUME Inv, Surrender PROVE Inv'
<1> DEFINE x == frame[nest].thread
           ok == Satisfies(pending_events[x], condition[x], any[x])
<1>1. TypeInv /\ SyncInv /\ WayInv /\ NoMissedWakeup BY DEF Inv
<1>2. nest \in Levels /\ 0 \in Levels /\ nest \in Nat /\ nest \in 0..nest
      /\ x \in Threads \cup {NULL}
  BY <1>1, LevelFacts DEF TypeInv, FrameType
<1>3. /\ frame[nest].pc = "surrender"
      /\ UNCHANGED <<state, calling, executing, condition, any>>
      /\ \/ ok /\ state[x] = "waiting" /\ Seized(x, condition[x]) /\ Goto("flash")
            /\ UNCHANGED Sync_state
         \/ ok /\ OnItsWay(x) /\ Seized(x, condition[x]) /\ Sync_state' = "SATISFIED" /\ Finish
         \/ /\ ~ ok \/ (state[x] # "waiting" /\ ~ OnItsWay(x))
            /\ Finish /\ UNCHANGED <<pending_events, Sync_state>>
  BY DEF Surrender, At, Told
<1>4. /\ pending_events' \in [Threads -> SUBSET Events]
      /\ \A t \in Threads : pending_events'[t] \subseteq pending_events[t]
      /\ \A t \in Threads : t # x => pending_events'[t] = pending_events[t]
  <2> DEFINE p == pending_events[x] \ condition[x]
  <2>1. UNCHANGED pending_events \/ pending_events' = [pending_events EXCEPT ![x] = p]
    BY <1>3 DEF Seized
  <2>2. x \in Threads => p \in SUBSET Events /\ p \subseteq pending_events[x]
    BY <1>1 DEF TypeInv
  <2> HIDE DEF p
  <2> QED BY <1>1, <2>1, <2>2, SMT DEF TypeInv
<1>5. ASSUME NEW t \in Threads, t = x, Seized(x, condition[x]) PROVE ~ Sat(t)'
  <2>1. pending_events'[t] = pending_events[t] \ condition[t]
    BY <1>1, <1>5 DEF Seized, TypeInv
  <2> QED BY <1>3, <2>1, TakenNotSat DEF Sat
<1>6. ASSUME NEW t \in Threads, Sat(t)' PROVE Sat(t)
  BY <1>3, <1>4, <1>6, FewerNotSat DEF Sat
<1>7. CASE ok /\ state[x] = "waiting" /\ Seized(x, condition[x]) /\ Goto("flash")
           /\ UNCHANGED Sync_state
  <2>1. /\ nest' = nest /\ frame' \in [Levels -> FrameType] /\ frame'[nest].pc = "flash"
        /\ frame'[nest].thread = x /\ frame'[nest].after = frame[nest].after
        /\ \A l \in Levels : l # nest => frame'[l] = frame[l]
    BY <1>1, <1>7, GotoFacts DEF Places
  <2>2. TypeInv' BY <1>1, <1>3, <1>4, <1>7, <2>1 DEF TypeInv
  <2>3. SyncInv'
    <3>1. frame[0].pc \in OnTheWay <=> frame'[0].pc \in OnTheWay
      BY <1>2, <1>3, <2>1 DEF OnTheWay
    <3>2. frame'[0].thread = frame[0].thread
          /\ (frame'[0].pc = frame[0].pc \/ (nest = 0 /\ frame'[0].pc = "flash"))
      BY <1>2, <2>1
    <3>3. ASSUME NEW l \in 0..nest
          PROVE  /\ frame'[l].pc = "idle" => l = 0
                 /\ frame'[l].pc \in {"sync", "mark"} =>
                      Sync_state # "SYNCHRONIZED" /\ frame'[l].thread = executing
                 /\ l > 0 => frame'[l].pc \notin OnTheWay \cup {"blocked"}
                             /\ frame'[l].after = "idle"
      <4>1. CASE l = nest BY <1>1, <1>2, <2>1, <4>1 DEF SyncInv, OnTheWay
      <4>2. CASE l # nest
        <5>1. l \in Levels BY <1>2, LevelFacts
        <5> QED BY <1>1, <2>1, <4>2, <5>1 DEF SyncInv
      <4> QED BY <4>1, <4>2
    <3> QED BY <1>1, <1>3, <1>7, <2>1, <3>1, <3>2, <3>3 DEF SyncInv
  <2>4. WayInv'
    <3>1. SUFFICES ASSUME Sync_state = "NOTHING_HAPPENED", Sat(executing)'
                   PROVE  Surrendering(executing)'
      BY <1>3, <1>7 DEF WayInv
    <3>2. PICK e \in Threads : e = executing BY <1>1, <3>1 DEF SyncInv
    <3>3. Sat(executing) /\ executing # x
      <4>1. Sat(e)' BY <1>3, <3>1, <3>2 DEF Sat
      <4>2. Sat(e) /\ e # x BY <1>5, <1>6, <1>7, <4>1
      <4> QED BY <3>2, <4>2
    <3>4. Surrendering(executing) BY <1>1, <3>1, <3>3 DEF WayInv
    <3> QED BY <1>1, <1>2, <1>3, <2>1, <3>3, <3>4, SurrenderingBelow, SMT DEF Surrendering
  <2>5. NoMissedWakeup'
    <3> SUFFICES ASSUME NEW t \in Threads, state'[t] = "waiting", Sat(t)'
                 PROVE  BeingServed(t)'
      BY DEF NoMissedWakeup, Sat
    <3>1. BeingServed(t) BY <1>1, <1>3, <1>6 DEF NoMissedWakeup, Sat
    <3> QED BY <1>1, <1>3, <1>7, <2>1, <3>1, ServedOn
  <2> QED BY <2>2, <2>3, <2>4, <2>5 DEF Inv
<1>8. CASE Finish /\ \/ Seized(x, condition[x]) /\ OnItsWay(x) /\ Sync_state' = "SATISFIED"
                     \/ /\ ~ ok \/ (state[x] # "waiting" /\ ~ OnItsWay(x))
                        /\ UNCHANGED Sync_state
  <2>1. /\ nest' \in Levels /\ frame' \in [Levels -> FrameType]
        /\ \A l \in Levels : l # nest => frame'[l] = frame[l]
        /\ nest = 0 => nest' = 0
        /\ nest # 0 => nest' = nest - 1
    BY <1>1, <1>8, FinishFacts
  <2>2. nest' \in Nat /\ nest <= nest' + 1
    <3>1. CASE nest = 0 BY <2>1, <3>1, SMT
    <3>2. CASE nest # 0 BY <1>2, <2>1, <3>2, SMT
    <3> QED BY <3>1, <3>2
  <2>3. Sync_state' \in SyncStates
        /\ (Sync_state' # "SYNCHRONIZED" <=> Sync_state # "SYNCHRONIZED")
    BY <1>1, <1>8 DEF TypeInv, SyncStates, OnItsWay
  <2>4. TypeInv' BY <1>1, <1>3, <1>4, <2>1, <2>3 DEF TypeInv
  <2>5. SyncInv' BY <1>1, <1>3, <1>8, <2>3, EndSync DEF OnTheWay
  <2>6. WayInv'
    <3>1. SUFFICES ASSUME Sync_state' = "NOTHING_HAPPENED", Sat(executing)'
                   PROVE  Surrendering(executing)'
      BY <1>3 DEF WayInv
    <3>2. Sync_state = "NOTHING_HAPPENED" /\ executing \in Threads
          /\ (~ ok \/ (state[x] # "waiting" /\ ~ OnItsWay(x)))
      BY <1>1, <1>8, <3>1 DEF SyncInv
    <3>3. Sat(executing)
      <4>1. PICK e \in Threads : e = executing BY <3>2
      <4>2. Sat(e)' BY <1>3, <3>1, <4>1 DEF Sat
      <4> QED BY <1>6, <4>1, <4>2
    <3>4. executing # x BY <3>2, <3>3 DEF Sat, OnItsWay
    <3>5. Surrendering(executing) BY <1>1, <3>2, <3>3 DEF WayInv
    <3> QED BY <1>1, <1>3, <2>1, <2>2, <3>4, <3>5, SurrenderingBelow DEF Surrendering
  <2>7. NoMissedWakeup'
    <3> SUFFICES ASSUME NEW t \in Threads, state'[t] = "waiting", Sat(t)'
                 PROVE  BeingServed(t)'
      BY DEF NoMissedWakeup, Sat
    <3>1. CASE t = x
      <4>1. Sat(x) /\ state[x] = "waiting" BY <1>3, <1>6, <3>1
      <4>2. ~ Seized(x, condition[x]) BY <1>5, <3>1
      <4> QED BY <1>8, <4>1, <4>2 DEF Sat
    <3>2. CASE t # x
      BY <1>3, <1>4, <1>8, <3>2, EndOthers
    <3> QED BY <3>1, <3>2
  <2> QED BY <2>4, <2>5, <2>6, <2>7 DEF Inv
<1> QED BY <1>3, <1>7, <1>8

\* _Event_Timeout ends without taking part in it: the thread is on its way, and
\* will see what happened.
LEMMA TimeoutEnds ==
  ASSUME Inv, \/ At("sync") /\ TimeoutTest /\ ~ NotSatisfied
              \/ TimeoutMark
  PROVE  Inv'
<1> DEFINE x == frame[nest].thread
<1>1. TypeInv /\ SyncInv /\ WayInv /\ NoMissedWakeup BY DEF Inv
<1>2. nest \in Levels /\ 0 \in Levels /\ nest \in Nat /\ nest \in 0..nest
  BY <1>1, LevelFacts DEF TypeInv
<1>3. /\ frame[nest].pc \in {"sync", "mark"} /\ Finish
      /\ UNCHANGED <<state, calling, executing, pending_events, condition, any>>
      /\ \/ Sync_state = "SATISFIED" /\ UNCHANGED Sync_state
         \/ Sync_state' = "TIMEOUT"
  BY DEF TimeoutTest, TimeoutMark, At, NotSatisfied, eventVars
<1>4. Sync_state # "SYNCHRONIZED" /\ x = executing /\ nest # 0
      /\ frame[0].thread = executing /\ frame[0].pc \in OnTheWay
  BY <1>1, <1>2, <1>3 DEF SyncInv
<1>5. /\ nest' \in Levels /\ frame' \in [Levels -> FrameType] /\ nest' = nest - 1
      /\ \A l \in Levels : l # nest => frame'[l] = frame[l]
  BY <1>1, <1>3, <1>4, FinishFacts
<1>6. TypeInv' BY <1>1, <1>3, <1>5 DEF TypeInv, SyncStates
<1>7. SyncInv' BY <1>1, <1>3, <1>4, EndSync DEF OnTheWay
<1>8. WayInv' BY <1>3 DEF WayInv
<1>9. NoMissedWakeup'
  <2> SUFFICES ASSUME NEW t \in Threads, state'[t] = "waiting", Sat(t)'
               PROVE  BeingServed(t)'
    BY DEF NoMissedWakeup, Sat
  <2>1. CASE t = x
    <3>1. 0 \in 0..nest' /\ frame'[0] = frame[0] BY <1>2, <1>4, <1>5, SMT
    <3>2. frame[0].thread = t /\ frame[0].pc # "blocked" BY <1>4, <2>1 DEF OnTheWay
    <3> QED BY <3>1, <3>2 DEF BeingServed
  <2>2. CASE t # x BY <1>3, <1>4, <2>2, EndOthers
  <2> QED BY <2>1, <2>2
<1> QED BY <1>6, <1>7, <1>8, <1>9 DEF Inv

LEMMA DispatchStep ==
  ASSUME Inv, Dispatch \/ Return, UNCHANGED eventVars
  PROVE  Inv'
<1>1. TypeInv /\ SyncInv /\ WayInv /\ NoMissedWakeup /\ 0 \in Levels
  BY LevelFacts DEF Inv, TypeInv
<1>2. UNCHANGED <<state, nest, pending_events, condition, any, Sync_state>> /\ nest = 0
      /\ frame[0].pc \in {"idle", "blocked"} /\ calling' \subseteq Threads
  BY <1>1 DEF Dispatch, Return, Returning, eventVars, TypeInv
<1>3. \A t \in Threads : ~ BeingServed(t) /\ Sync_state = "SYNCHRONIZED"
  BY <1>1, <1>2, NobodyServed
<1>4. Sync_state = "SYNCHRONIZED" BY <1>1, <1>2 DEF SyncInv, OnTheWay
<1>5. executing' \in Threads \cup {NULL} BY <1>1 DEF Dispatch, Return, TypeInv
<1>6. frame' \in [Levels -> FrameType] /\ frame'[0].pc \in {"idle", "blocked"}
      /\ (frame'[0].pc = "idle" => frame'[0].thread = NULL)
  <2>1. CASE Dispatch
    <3>1. frame' = [frame EXCEPT ![0] = IdleFrame] BY <2>1 DEF Dispatch
    <3> HIDE DEF IdleFrame
    <3> QED BY <1>1, <3>1, IdleType DEF TypeInv
  <2>2. CASE Return BY <1>1, <1>2, <2>2 DEF Return, TypeInv, SyncInv
  <2> QED BY <2>1, <2>2
<1>7. TypeInv' BY <1>1, <1>2, <1>5, <1>6 DEF TypeInv
<1>8. SyncInv' BY <1>2, <1>4, <1>6, SMT DEF SyncInv, OnTheWay
<1>9. WayInv' BY <1>2, <1>4 DEF WayInv
<1>10. NoMissedWakeup' BY <1>1, <1>2, <1>3 DEF NoMissedWakeup
<1> QED BY <1>7, <1>8, <1>9, <1>10 DEF Inv

\* A handler starts: a send, or the clock tick.
LEMMA HandlerStarts ==
  ASSUME Inv, nest + 1 \in Levels, NEW f \in FrameType, Begin(nest + 1, f),
         UNCHANGED <<state, calling, executing, condition, any, Sync_state>>,
         pending_events' \in [Threads -> SUBSET Events],
         f.pc \in {"timeout", "surrender"}, f.after = "idle",
         \A t \in Threads : \/ pending_events'[t] = pending_events[t]
                            \/ f.thread = t /\ f.pc = "surrender"
  PROVE  Inv'
<1>1. TypeInv /\ SyncInv /\ WayInv /\ NoMissedWakeup BY DEF Inv
<1>2. nest \in Levels /\ 0 \in Levels /\ nest \in Nat /\ 0..nest \subseteq Levels
      /\ 0..(nest + 1) = 0..nest \cup {nest + 1}
  BY <1>1, LevelFacts DEF TypeInv
<1>3. /\ nest' = nest + 1 /\ frame' \in [Levels -> FrameType] /\ frame'[nest + 1] = f
      /\ \A l \in Levels : l # nest + 1 => frame'[l] = frame[l]
  BY <1>1, BeginFacts
<1>4. \A l \in 0..nest : frame'[l] = frame[l] /\ l \in 0..nest' BY <1>2, <1>3, SMT
<1>5. nest + 1 \in 0..nest' /\ frame'[0] = frame[0] BY <1>2, <1>3, SMT
<1>6. TypeInv' BY <1>1, <1>3 DEF TypeInv
<1>7. SyncInv'
  <2>1. ASSUME NEW l \in 0..nest'
        PROVE  /\ frame'[l].pc = "idle" => l = 0
               /\ frame'[l].pc \in {"sync", "mark"} =>
                    Sync_state # "SYNCHRONIZED" /\ frame'[l].thread = executing
               /\ l > 0 => frame'[l].pc \notin OnTheWay \cup {"blocked"}
                           /\ frame'[l].after = "idle"
    <3>1. CASE l = nest + 1 BY <1>3, <3>1 DEF OnTheWay
    <3>2. CASE l \in 0..nest BY <1>1, <1>4, <3>2 DEF SyncInv
    <3> QED BY <1>2, <1>3, <3>1, <3>2
  <2> QED BY <1>1, <1>5, <2>1 DEF SyncInv
<1>8. WayInv'
  <2>1. SUFFICES ASSUME Sync_state = "NOTHING_HAPPENED", Sat(executing)'
                 PROVE  Surrendering(executing)'
    BY DEF WayInv
  <2>2. PICK e \in Threads : e = executing BY <1>1, <2>1 DEF SyncInv
  <2>3. CASE f.thread = e /\ f.pc = "surrender"
    BY <1>3, <1>5, <2>2, <2>3 DEF Surrendering
  <2>4. CASE pending_events'[e] = pending_events[e]
    <3>1. Sat(executing) BY <2>1, <2>2, <2>4 DEF Sat
    <3>2. Surrendering(executing) BY <1>1, <2>1, <3>1 DEF WayInv
    <3> QED BY <1>4, <3>2 DEF Surrendering
  <2> QED BY <2>3, <2>4
<1>9. NoMissedWakeup'
  <2> SUFFICES ASSUME NEW t \in Threads, state'[t] = "waiting", Sat(t)'
               PROVE  BeingServed(t)'
    BY DEF NoMissedWakeup, Sat
  <2>1. CASE f.thread = t /\ f.pc = "surrender"
    BY <1>3, <1>5, <2>1 DEF BeingServed
  <2>2. CASE pending_events'[t] = pending_events[t]
    <3>1. BeingServed(t) BY <1>1, <2>2 DEF NoMissedWakeup, Sat
    <3> QED BY <1>1, <1>3, <3>1, ServedUnder
  <2> QED BY <2>1, <2>2
<1> QED BY <1>6, <1>7, <1>8, <1>9 DEF Inv

\* A thread between two directives starts one.
LEMMA DirectiveStarts ==
  ASSUME Inv, nest = 0, frame[0].pc = "idle", NEW f \in FrameType, Begin(0, f),
         UNCHANGED <<state, executing>>, calling' \subseteq Threads,
         pending_events' \in [Threads -> SUBSET Events],
         condition' \in [Threads -> SUBSET Events], any' \in [Threads -> BOOLEAN],
         \/ /\ f.pc = "surrender" /\ UNCHANGED Sync_state
         \/ /\ f.pc \in {"timer", "block"} /\ Sync_state' = "NOTHING_HAPPENED"
            /\ executing \in Threads /\ f.thread = executing /\ ~ Sat(executing)',
         \A t \in Threads : \/ f.thread = t
                            \/ Sat(t)' => Sat(t)
  PROVE  Inv'
<1>1. TypeInv /\ SyncInv /\ WayInv /\ NoMissedWakeup /\ 0 \in Levels
  BY LevelFacts DEF Inv, TypeInv
<1>2. nest' = 0 /\ frame' \in [Levels -> FrameType] /\ frame'[0] = f
  BY <1>1, BeginFacts
<1>3. Sync_state = "SYNCHRONIZED" BY <1>1 DEF SyncInv, OnTheWay
<1>4. TypeInv' BY <1>1, <1>2 DEF TypeInv, SyncStates
<1>5. SyncInv' BY <1>2, <1>3, SMT DEF SyncInv, OnTheWay
<1>6. WayInv' BY <1>3 DEF WayInv
<1>7. NoMissedWakeup'
  <2> SUFFICES ASSUME NEW t \in Threads, state'[t] = "waiting", Sat(t)'
               PROVE  BeingServed(t)'
    BY DEF NoMissedWakeup, Sat
  <2>1. CASE f.thread = t BY <1>2, <2>1, SMT DEF BeingServed
  <2>2. CASE Sat(t)
    <3>1. BeingServed(t) BY <1>1, <2>2 DEF NoMissedWakeup, Sat
    <3> QED BY <1>1, <3>1, NobodyServed
  <2> QED BY <2>1, <2>2
<1> QED BY <1>4, <1>5, <1>6, <1>7 DEF Inv

LEMMA CallsFacts ==
  ASSUME Inv, NEW lv \in Levels, Calls(lv)
  PROVE  \/ lv = 0 /\ nest = 0 /\ frame[0].pc = "idle" /\ executing \in Threads
         \/ lv = nest + 1 /\ nest + 1 \in Levels /\ lv # 0
<1>1. nest \in Nat BY LevelFacts DEF Inv, TypeInv
<1> QED BY <1>1, SMT DEF Calls, Inv, TypeInv

LEMMA TickStep == ASSUME Inv, NEW t \in Threads, Tick(t) PROVE Inv'
<1> DEFINE f == [IdleFrame EXCEPT !.pc = "timeout", !.op = "timeout", !.thread = t]
<1>1. /\ Begin(nest + 1, f) /\ Calls(nest + 1)
      /\ UNCHANGED <<state, calling, executing, pending_events, condition, any, Sync_state>>
  BY DEF Tick, Expire, eventVars
<1>2. f \in FrameType /\ f.pc = "timeout" /\ f.after = "idle"
  BY DEF IdleFrame, FrameType, Places
<1> HIDE DEF f
<1>3. nest + 1 \in Levels
  <2>1. nest \in Nat BY LevelFacts DEF Inv, TypeInv
  <2> QED BY <1>1, <2>1, SMT DEF Calls
<1> QED BY <1>1, <1>2, <1>3, HandlerStarts DEF Inv, TypeInv

LEMMA SendStep ==
  ASSUME Inv, NEW lv \in Levels, NEW t \in Threads, NEW e \in Events, Send(lv, t, e)
  PROVE  Inv'
<1> DEFINE f == [IdleFrame EXCEPT !.pc = "surrender", !.thread = t]
           p == pending_events[t] \cup {e}
<1>1. /\ Calls(lv) /\ Begin(lv, f)
      /\ pending_events' = [pending_events EXCEPT ![t] = p]
      /\ UNCHANGED <<state, calling, executing, condition, any, Sync_state>>
  BY DEF Send
<1>2. f \in FrameType /\ f.pc = "surrender" /\ f.after = "idle" /\ f.thread = t
  BY DEF IdleFrame, FrameType, Places
<1>3. TypeInv /\ p \in SUBSET Events BY DEF Inv, TypeInv
<1> HIDE DEF f, p
<1>4. /\ pending_events' \in [Threads -> SUBSET Events]
      /\ \A x \in Threads : x # t => pending_events'[x] = pending_events[x]
  BY <1>1, <1>3 DEF TypeInv
<1>5. CASE lv = nest + 1 /\ nest + 1 \in Levels
  BY <1>1, <1>2, <1>4, <1>5, HandlerStarts
<1>6. CASE lv = 0 /\ nest = 0 /\ frame[0].pc = "idle"
  <2>1. \A x \in Threads : f.thread = x \/ (Sat(x)' => Sat(x)) BY <1>1, <1>2, <1>4 DEF Sat
  <2> QED BY <1>1, <1>2, <1>3, <1>4, <1>6, <2>1, DirectiveStarts DEF TypeInv
<1> QED BY <1>1, <1>5, <1>6, CallsFacts

LEMMA ReceiveStep ==
  ASSUME Inv, NEW c \in SUBSET Events, NEW anyOf \in BOOLEAN, NEW wait \in BOOLEAN,
         NEW timed \in BOOLEAN, Receive(c, anyOf, wait, timed)
  PROVE  Inv'
<1> DEFINE now(t) == Satisfies(pending_events[t], c, anyOf)
<1>1. TypeInv /\ SyncInv /\ WayInv /\ NoMissedWakeup /\ 0 \in Levels
  BY LevelFacts DEF Inv, TypeInv
<1>2. Calls(0) /\ UNCHANGED <<state, executing>> BY DEF Receive
<1>3. nest = 0 /\ frame[0].pc = "idle" /\ executing \in Threads
  BY <1>1, <1>2, CallsFacts
<1>4. PICK t \in Threads : t = executing BY <1>3
<1>5. CASE UNCHANGED <<calling, nest, frame, condition, any, Sync_state>>
           /\ (Seized(t, c) \/ UNCHANGED pending_events)
  <2>1. /\ pending_events' \in [Threads -> SUBSET Events]
        /\ \A x \in Threads : pending_events'[x] \subseteq pending_events[x]
    <3> DEFINE p == pending_events[t] \ c
    <3>1. UNCHANGED pending_events \/ pending_events' = [pending_events EXCEPT ![t] = p]
      BY <1>5 DEF Seized
    <3>2. p \in SUBSET Events /\ p \subseteq pending_events[t] BY <1>1 DEF TypeInv
    <3> HIDE DEF p
    <3> QED BY <1>1, <3>1, <3>2 DEF TypeInv
  <2>2. Sync_state = "SYNCHRONIZED" BY <1>1, <1>3 DEF SyncInv, OnTheWay
  <2>3. TypeInv' BY <1>1, <1>2, <1>5, <2>1 DEF TypeInv
  <2>4. SyncInv' BY <1>1, <1>2, <1>5 DEF SyncInv
  <2>5. WayInv' BY <1>5, <2>2 DEF WayInv
  <2>6. NoMissedWakeup'
    <3> SUFFICES ASSUME NEW x \in Threads, state'[x] = "waiting", Sat(x)'
                 PROVE  BeingServed(x)'
      BY DEF NoMissedWakeup, Sat
    <3>1. Sat(x) BY <1>5, <2>1, FewerNotSat DEF Sat
    <3>2. BeingServed(x) BY <1>1, <1>2, <3>1 DEF NoMissedWakeup, Sat
    <3> QED BY <1>1, <1>3, <3>2, NobodyServed
  <2> QED BY <2>3, <2>4, <2>5, <2>6 DEF Inv
<1>6. CASE /\ ~ now(t) /\ Sync_state' = "NOTHING_HAPPENED"
           /\ condition' = [condition EXCEPT ![t] = c]
           /\ any' = [any EXCEPT ![t] = anyOf]
           /\ calling' = calling \cup {t} /\ UNCHANGED pending_events
           /\ Begin(0, [IdleFrame EXCEPT !.thread = t, !.pc = IF timed THEN "timer" ELSE "block"])
  <2> DEFINE f == [IdleFrame EXCEPT !.thread = t, !.pc = IF timed THEN "timer" ELSE "block"]
  <2>1. f \in FrameType /\ f.pc \in {"timer", "block"} /\ f.thread = t
    BY DEF IdleFrame, FrameType, Places
  <2> HIDE DEF f
  <2>2. condition' \in [Threads -> SUBSET Events] /\ any' \in [Threads -> BOOLEAN]
        /\ condition'[t] = c /\ any'[t] = anyOf
        /\ \A x \in Threads : x # t => condition'[x] = condition[x] /\ any'[x] = any[x]
    BY <1>1, <1>6 DEF TypeInv
  <2>3. ~ Sat(executing)' BY <1>2, <1>4, <1>6, <2>2 DEF Sat
  <2>4. \A x \in Threads : f.thread = x \/ (Sat(x)' => Sat(x)) BY <1>6, <2>1, <2>2 DEF Sat
  <2>5. Begin(0, f) BY <1>6 DEF f
  <2>6. calling' \subseteq Threads /\ pending_events' \in [Threads -> SUBSET Events]
    BY <1>1, <1>6 DEF TypeInv
  <2> QED BY <1>2, <1>3, <1>4, <1>6, <2>1, <2>2, <2>3, <2>4, <2>5, <2>6, DirectiveStarts
<1> QED BY <1>4, <1>5, <1>6 DEF Receive

-----------------------------------------------------------------------------
LEMMA InvAtStart == ASSUME Init PROVE Inv
<1>1. nest = 0 /\ 0 \in Levels /\ frame = [l \in Levels |-> IdleFrame]
  BY BlockingAssumption, SMT DEF Init, ThreadInit, Levels
<1> HIDE DEF IdleFrame
<1>2. frame \in [Levels -> FrameType] /\ frame[0].pc = "idle" /\ frame[0].thread = NULL
  BY <1>1, IdleType
<1>3. TypeInv BY <1>1, <1>2 DEF Init, ThreadInit, TypeInv, SyncStates
<1>4. SyncInv BY <1>1, <1>2, SMT DEF Init, SyncInv, OnTheWay
<1>5. WayInv BY DEF Init, WayInv
<1>6. NoMissedWakeup BY DEF Init, ThreadInit, NoMissedWakeup
<1> QED BY <1>3, <1>4, <1>5, <1>6 DEF Inv

LEMMA InvKept == ASSUME Inv, [Next]_vars PROVE Inv'
<1>1. CASE EventStep
  BY <1>1, PlainSteps, UnblockStep, BlockStep, SeizeCheckStep, SurrenderStep, TimeoutEnds
  DEF EventStep, SeizeBlock, TimeoutTest
<1>2. CASE (Dispatch \/ Return) /\ UNCHANGED eventVars BY <1>2, DispatchStep
<1>3. CASE \E t \in Threads : Tick(t) BY <1>3, TickStep
<1>4. CASE \E c \in SUBSET Events \ {{}}, anyOf, wait, timed \in BOOLEAN :
             (timed => wait) /\ Receive(c, anyOf, wait, timed)
  BY <1>4, ReceiveStep
<1>5. CASE \E lv \in Levels, t \in Threads, e \in Events : Send(lv, t, e) BY <1>5, SendStep
<1>6. CASE UNCHANGED vars
  BY <1>6 DEF vars, threadVars, eventVars, Inv, TypeInv, SyncInv, WayInv, Sat, Surrendering,
     NoMissedWakeup, BeingServed
<1> QED BY <1>1, <1>2, <1>3, <1>4, <1>5, <1>6 DEF Next

\* No thread sleeps in rtems_event_receive while the events it waits for are
\* pending, however deep the handlers that send them nest and wherever they, or
\* the time-out, interrupt _Event_Seize and _Event_Surrender.
THEOREM WakeupNotMissed == Spec => []NoMissedWakeup
<1>1. Init => Inv BY InvAtStart
<1>2. Inv /\ [Next]_vars => Inv' BY InvKept
<1>3. Inv => NoMissedWakeup BY DEF Inv
<1> QED BY <1>1, <1>2, <1>3, PTL DEF Spec
-----------------------------------------------------------------------------
(* What a receive that waited returns. *)

Marked == {"flash", "remove", "unblock"}
Leaving == {"timer", "block"}

\* If the call of t returns success, it returns events that t asked for.
Good(t) ==
  return_code[t] = "SUCCESSFUL" =>
    Satisfies(event_out[t], condition[t], any[t]) /\ event_out[t] \subseteq condition[t]

\* Some level has taken events for t, or its time-out, and is about to wake it.
Waking(t) == \E l \in 0..nest : frame[l].thread = t /\ frame[l].pc \in Marked

\* The wait of t is over, or it is settled how it ends.
Settled(t) ==
  \/ state[t] = "ready" /\ ~ (executing = t /\ frame[0].pc \in Leaving)
  \/ Sync_state = "SATISFIED" /\ executing = t
  \/ Waking(t)

ReturnTypes ==
  /\ return_code \in [Threads -> Statuses]
  /\ event_out \in [Threads -> SUBSET Events]

\* The executing thread is ready, except at the end of _Event_Seize.
ExecInv ==
  /\ executing \in Threads /\ state[executing] = "waiting" =>
       frame[0].pc \in {"check", "blocked"} \/ frame[0].after = "blocked"
  /\ frame[0].after = "blocked" => frame[0].pc \in {"remove", "unblock", "blocked"}

SettledInv == \A t \in calling : Settled(t) => Good(t)

ReturnInv == ReturnTypes /\ ExecInv /\ SettledInv

LEMMA WakingAgo ==
  ASSUME TypeInv, NEW t, nest' \in Nat, nest' <= nest,
         \A l \in Levels : l # nest => frame'[l] = frame[l],
         nest' = nest /\ frame'[nest].thread = t /\ frame'[nest].pc \in Marked =>
           frame[nest].thread = t /\ frame[nest].pc \in Marked,
         Waking(t)'
  PROVE  Waking(t)
<1>1. PICK l \in 0..nest' : frame'[l].thread = t /\ frame'[l].pc \in Marked BY DEF Waking
<1>2. nest \in Nat /\ 0..nest \subseteq Levels BY LevelFacts DEF TypeInv
<1>3. l \in 0..nest /\ l \in Levels BY <1>2, SMT
<1>4. frame[l].thread = t /\ frame[l].pc \in Marked
  <2>1. CASE l = nest
    <3>1. nest' = nest BY <1>2, <2>1, SMT
    <3> QED BY <1>1, <2>1, <3>1
  <2>2. CASE l # nest BY <1>1, <1>3, <2>2
  <2> QED BY <2>1, <2>2
<1> QED BY <1>3, <1>4 DEF Waking

LEMMA SettledKept ==
  ASSUME TypeInv, SettledInv, calling' \subseteq calling, UNCHANGED <<condition, any>>,
         \A t \in Threads :
           Settled(t)' => \/ Good(t)'
                          \/ /\ Settled(t)
                             /\ return_code'[t] = return_code[t]
                             /\ event_out'[t] = event_out[t]
  PROVE  SettledInv'
BY DEF TypeInv, SettledInv, Good

\* The innermost level goes on; if it takes events or the time-out for its
\* thread now, then those it asked for.
LEMMA MovesOn ==
  ASSUME Inv, ReturnInv, ReturnTypes',
         UNCHANGED <<state, calling, executing, nest, condition, any, Sync_state>>,
         frame'[nest].thread = frame[nest].thread,
         frame'[nest].after = frame[nest].after,
         \A l \in Levels : l # nest => frame'[l] = frame[l],
         frame[nest].pc \notin {"check", "blocked"},
         frame[nest].pc \in Leaving => frame'[nest].pc \in Leaving,
         frame[nest].pc \in {"remove", "unblock"} => frame'[nest].pc \in {"remove", "unblock"},
         \A t \in Threads :
           \/ return_code'[t] = return_code[t] /\ event_out'[t] = event_out[t]
              /\ (frame[nest].thread # t \/ (frame'[nest].pc \in Marked => frame[nest].pc \in Marked))
           \/ Good(t)'
  PROVE  ReturnInv'
<1>1. TypeInv /\ SettledInv /\ ExecInv /\ nest \in Levels /\ nest \in Nat /\ 0 \in Levels
  BY LevelFacts DEF Inv, ReturnInv, TypeInv
<1>2. ExecInv' BY <1>1 DEF ExecInv
<1>3. ASSUME NEW t \in Threads, Settled(t)', ~ Good(t)'
      PROVE  Settled(t) /\ return_code'[t] = return_code[t] /\ event_out'[t] = event_out[t]
  <2>1. return_code'[t] = return_code[t] /\ event_out'[t] = event_out[t]
        /\ (frame[nest].thread # t \/ (frame'[nest].pc \in Marked => frame[nest].pc \in Marked))
    BY <1>3
  <2>2. CASE Waking(t)'
    <3>1. nest' \in Nat /\ nest' <= nest BY <1>1, SMT
    <3>2. frame'[nest].thread = t /\ frame'[nest].pc \in Marked =>
            frame[nest].thread = t /\ frame[nest].pc \in Marked
      BY <2>1
    <3>3. Waking(t) BY <1>1, <2>2, <3>1, <3>2, WakingAgo
    <3> QED BY <2>1, <3>3 DEF Settled
  <2>3. CASE state[t] = "ready" /\ ~ (executing = t /\ frame'[0].pc \in Leaving)
    <3>1. frame[0].pc \in Leaving => frame'[0].pc \in Leaving BY <1>1
    <3> QED BY <2>1, <2>3, <3>1 DEF Settled
  <2>4. CASE Sync_state = "SATISFIED" /\ executing = t BY <2>1, <2>4 DEF Settled
  <2> QED BY <1>3, <2>2, <2>3, <2>4 DEF Settled
<1>4. SettledInv' BY <1>1, <1>3, SettledKept
<1> QED BY <1>2, <1>4 DEF ReturnInv
\* The innermost level is over: it has woken its thread, or taken events for it
\* while it was on its way to its wait, or has done nothing for it.
LEMMA Ends ==
  ASSUME Inv, ReturnInv, ReturnTypes', Finish,
         UNCHANGED <<calling, executing, condition, any>>,
         frame[nest].pc \notin {"timer", "block", "check", "blocked"},
         frame[0].after = "blocked" => nest # 0,
         \A t \in Threads :
           \/ state'[t] = state[t]
           \/ frame[nest].thread = t /\ frame[nest].pc = "unblock" /\ state'[t] = "ready",
         \A t \in Threads :
           \/ return_code'[t] = return_code[t] /\ event_out'[t] = event_out[t]
              /\ (Sync_state' = "SATISFIED" /\ executing = t => Sync_state = "SATISFIED")
           \/ Good(t)'
  PROVE  ReturnInv'
<1>1. TypeInv /\ SettledInv /\ ExecInv /\ nest \in Levels /\ nest \in Nat /\ 0 \in Levels
      /\ nest \in 0..nest
  BY LevelFacts DEF Inv, ReturnInv, TypeInv
<1>2. /\ nest' \in Levels /\ frame'[nest] = IdleFrame
      /\ \A l \in Levels : l # nest => frame'[l] = frame[l]
      /\ nest = 0 => nest' = 0
      /\ nest # 0 => nest' = nest - 1
  BY <1>1, FinishFacts
<1> HIDE DEF IdleFrame
<1>3. nest' \in Nat /\ nest' <= nest
  <2>1. CASE nest = 0 BY <1>2, <2>1, SMT
  <2>2. CASE nest # 0 BY <1>1, <1>2, <2>2, SMT
  <2> QED BY <2>1, <2>2
<1>4. frame'[nest].pc = "idle" /\ frame'[nest].after = "idle"
  BY <1>2, IdleType, SMT DEF IdleFrame
<1>5. ExecInv'
  <2>1. executing \in Threads /\ state'[executing] = "waiting" => state[executing] = "waiting"
    OBVIOUS
  <2>2. CASE nest = 0 BY <1>1, <1>4, <2>1, <2>2 DEF ExecInv
  <2>3. CASE nest # 0
    <3>1. frame'[0] = frame[0] BY <1>1, <1>2, <2>3
    <3> QED BY <1>1, <2>1, <3>1 DEF ExecInv
  <2> QED BY <2>2, <2>3
<1>6. ASSUME NEW t \in Threads, Settled(t)', ~ Good(t)'
      PROVE  Settled(t) /\ return_code'[t] = return_code[t] /\ event_out'[t] = event_out[t]
  <2>1. return_code'[t] = return_code[t] /\ event_out'[t] = event_out[t]
        /\ (Sync_state' = "SATISFIED" /\ executing = t => Sync_state = "SATISFIED")
    BY <1>6
  <2>2. CASE Waking(t)'
    <3>1. Waking(t) BY <1>1, <1>2, <1>3, <1>4, <2>2, WakingAgo DEF Marked
    <3> QED BY <2>1, <3>1 DEF Settled
  <2>3. CASE state'[t] = "ready" /\ ~ (executing = t /\ frame'[0].pc \in Leaving)
    <3>1. frame[0].pc \in Leaving => frame'[0].pc \in Leaving BY <1>1, <1>2 DEF Leaving
    <3>2. CASE state'[t] = state[t] BY <2>1, <2>3, <3>1, <3>2 DEF Settled
    <3>3. CASE frame[nest].thread = t /\ frame[nest].pc = "unblock"
      BY <1>1, <2>1, <3>3 DEF Settled, Waking, Marked
    <3> QED BY <3>2, <3>3
  <2>4. CASE Sync_state' = "SATISFIED" /\ executing = t BY <2>1, <2>4 DEF Settled
  <2> QED BY <1>6, <2>2, <2>3, <2>4 DEF Settled
<1>7. SettledInv' BY <1>1, <1>6, SettledKept
<1> QED BY <1>5, <1>7 DEF ReturnInv

\* The events that _Event_Surrender takes are what the thread asked for.
LEMMA GoodEvents ==
  ASSUME TypeInv, ReturnTypes, NEW x,
         Satisfies(pending_events[x], condition[x], any[x]),
         Seized(x, condition[x]), UNCHANGED <<condition, any>>
  PROVE  /\ event_out' \in [Threads -> SUBSET Events]
         /\ \A t \in Threads : (event_out'[t] = event_out[t] /\ t # x) \/ Good(t)'
<1> DEFINE e == pending_events[x] \cap condition[x]
<1>1. event_out' = [event_out EXCEPT ![x] = e] BY DEF Seized
<1>2. Satisfies(e, condition[x], any[x]) /\ e \subseteq condition[x]
  BY DEF Satisfies
<1>3. x \in Threads => e \in SUBSET Events BY DEF TypeInv
<1> HIDE DEF e
<1>4. event_out' \in [Threads -> SUBSET Events]
      /\ \A t \in Threads : t # x => event_out'[t] = event_out[t]
  BY <1>1, <1>3 DEF ReturnTypes
<1>5. ASSUME NEW t \in Threads, t = x PROVE Good(t)'
  <2>1. event_out'[t] = e BY <1>1, <1>5 DEF ReturnTypes
  <2> QED BY <1>2, <1>5, <2>1 DEF Good
<1> QED BY <1>4, <1>5

LEMMA SurrenderReturn == ASSUME Inv, ReturnInv, Surrender PROVE ReturnInv'
<1> DEFINE x == frame[nest].thread
           ok == Satisfies(pending_events[x], condition[x], any[x])
<1>1. TypeInv /\ ReturnTypes /\ ExecInv /\ nest \in Levels
  BY DEF Inv, ReturnInv, TypeInv
<1>2. /\ frame[nest].pc = "surrender"
      /\ UNCHANGED <<state, return_code, calling, executing, condition, any>>
      /\ \/ ok /\ Seized(x, condition[x]) /\ Goto("flash") /\ UNCHANGED Sync_state
         \/ ok /\ OnItsWay(x) /\ Seized(x, condition[x]) /\ Finish
         \/ Finish /\ UNCHANGED <<event_out, Sync_state>>
  BY DEF Surrender, At
<1> HIDE DEF ok
<1>3. frame[0].after = "blocked" => nest # 0 BY <1>1, <1>2 DEF ExecInv
<1>4. CASE Finish /\ UNCHANGED <<event_out, Sync_state>>
  <2>1. ReturnTypes' BY <1>1, <1>2, <1>4 DEF ReturnTypes
  <2> QED BY <1>2, <1>3, <1>4, <2>1, Ends
<1>5. CASE ok /\ Seized(x, condition[x])
           /\ ((Goto("flash") /\ UNCHANGED Sync_state) \/ (Finish /\ OnItsWay(x)))
  <2>1. /\ event_out' \in [Threads -> SUBSET Events]
        /\ \A t \in Threads : (event_out'[t] = event_out[t] /\ t # x) \/ Good(t)'
    BY <1>1, <1>2, <1>5, GoodEvents DEF ok
  <2>2. ReturnTypes' BY <1>1, <1>2, <2>1 DEF ReturnTypes
  <2>3. CASE Goto("flash") /\ UNCHANGED Sync_state
    <3>1. /\ nest' = nest /\ frame'[nest].pc = "flash" /\ frame'[nest].thread = x
          /\ frame'[nest].after = frame[nest].after
          /\ \A l \in Levels : l # nest => frame'[l] = frame[l]
      BY <1>1, <2>3, GotoFacts DEF Places
    <3>2. \A t \in Threads :
            \/ return_code'[t] = return_code[t] /\ event_out'[t] = event_out[t]
               /\ frame[nest].thread # t
            \/ Good(t)'
      BY <1>2, <2>1
    <3> QED BY <1>2, <2>2, <2>3, <3>1, <3>2, MovesOn DEF Leaving
  <2>4. CASE Finish /\ OnItsWay(x)
    <3>1. \A t \in Threads :
            \/ return_code'[t] = return_code[t] /\ event_out'[t] = event_out[t] /\ executing # t
            \/ Good(t)'
      BY <1>2, <2>1, <2>4 DEF OnItsWay
    <3> QED BY <1>2, <1>3, <2>2, <2>4, <3>1, Ends
  <2> QED BY <1>5, <2>3, <2>4
<1> QED BY <1>2, <1>4, <1>5

LEMMA PlainReturn ==
  ASSUME Inv, ReturnInv,
         \/ RemoveTimer /\ UNCHANGED eventVars
         \/ StartTimer("block") /\ UNCHANGED eventVars
         \/ SurrenderEnd \/ TimeoutStatus
         \/ At("timeout") /\ TimeoutTest
         \/ At("sync") /\ TimeoutTest /\ NotSatisfied
  PROVE  ReturnInv'
<1>1. TypeInv /\ ReturnTypes /\ ExecInv /\ nest \in Levels /\ frame[nest] \in FrameType
      /\ 0 \in Levels
  BY LevelFacts DEF Inv, ReturnInv, TypeInv
<1>2. ASSUME NEW p \in Places, Goto(p), UNCHANGED <<state, calling, executing, condition, any, Sync_state>>,
             UNCHANGED <<return_code, event_out>>,
             frame[nest].pc \notin {"check", "blocked"},
             frame[nest].pc \in Leaving => p \in Leaving,
             frame[nest].pc \in {"remove", "unblock"} => p \in {"remove", "unblock"},
             p \in Marked => frame[nest].pc \in Marked
      PROVE  ReturnInv'
  <2>1. /\ nest' = nest /\ frame'[nest].pc = p /\ frame'[nest].thread = frame[nest].thread
        /\ frame'[nest].after = frame[nest].after
        /\ \A l \in Levels : l # nest => frame'[l] = frame[l]
    BY <1>1, <1>2, GotoFacts
  <2>2. ReturnTypes' BY <1>1, <1>2 DEF ReturnTypes
  <2>3. frame'[nest].pc \in Marked => frame[nest].pc \in Marked BY <1>2, <2>1
  <2>4. UNCHANGED <<state, calling, executing, nest, condition, any, Sync_state>> BY <1>2, <2>1
  <2> QED BY <1>2, <2>1, <2>2, <2>3, <2>4, MovesOn
<1>3. CASE RemoveTimer /\ UNCHANGED eventVars
  BY <1>2, <1>3 DEF RemoveTimer, At, eventVars, Places, Leaving, Marked
<1>4. CASE StartTimer("block") /\ UNCHANGED eventVars
  BY <1>2, <1>4 DEF StartTimer, At, eventVars, Places, Leaving, Marked
<1>5. CASE At("timeout") /\ TimeoutTest
  <2>1. /\ frame[nest].pc = "timeout" /\ (Goto("sync") \/ Goto("expired"))
        /\ UNCHANGED <<state, calling, executing, condition, any, Sync_state>>
        /\ UNCHANGED <<return_code, event_out>>
    BY <1>5 DEF TimeoutTest, At, eventVars
  <2> QED BY <1>2, <2>1 DEF Places, Leaving, Marked
<1>6. CASE At("sync") /\ TimeoutTest /\ NotSatisfied
  <2>1. /\ frame[nest].pc = "sync" /\ Goto("mark")
        /\ UNCHANGED <<state, calling, executing, condition, any, Sync_state>>
        /\ UNCHANGED <<return_code, event_out>>
    BY <1>6 DEF TimeoutTest, At, eventVars
  <2> QED BY <1>2, <2>1 DEF Places, Leaving, Marked
<1>7. CASE TimeoutStatus
  <2> DEFINE x == frame[nest].thread
  <2>1. /\ frame[nest].pc = "expired" /\ Goto("unblock")
        /\ return_code' = [return_code EXCEPT ![x] = "TIMEOUT"]
        /\ UNCHANGED <<state, calling, executing, condition, any, Sync_state, event_out>>
    BY <1>7 DEF TimeoutStatus, At, eventVars, TimeoutCode
  <2>2. /\ ReturnTypes'
        /\ \A t \in Threads : t # x => return_code'[t] = return_code[t]
        /\ \A t \in Threads : t = x => return_code'[t] = "TIMEOUT"
    BY <1>1, <2>1 DEF ReturnTypes, Statuses
  <2>3. /\ nest' = nest /\ frame'[nest].pc = "unblock" /\ frame'[nest].thread = x
        /\ frame'[nest].after = frame[nest].after
        /\ \A l \in Levels : l # nest => frame'[l] = frame[l]
    BY <1>1, <2>1, GotoFacts DEF Places
  <2>4. \A t \in Threads :
          \/ return_code'[t] = return_code[t] /\ event_out'[t] = event_out[t] /\ x # t
          \/ Good(t)'
    BY <2>1, <2>2 DEF Good
  <2> QED BY <2>1, <2>2, <2>3, <2>4, MovesOn DEF Leaving
<1>8. CASE SurrenderEnd
  <2>1. frame[nest].pc = "flash" /\ Take(nest, "none", frame[nest].thread, "idle")
        /\ UNCHANGED <<state, return_code, calling, executing, condition, any, event_out, Sync_state>>
    BY <1>8 DEF SurrenderEnd, At, eventVars
  <2>2. frame[nest].thread \in Threads \cup {NULL} BY <1>1 DEF FrameType
  <2>3. PICK f \in FrameType : /\ Begin(nest, f) /\ f.pc \in {"remove", "unblock"}
                               /\ f.thread = frame[nest].thread /\ f.after = "idle"
    BY <2>1, <2>2, TakeFrame, SMT
  <2>4. /\ nest' = nest /\ frame'[nest] = f
        /\ \A l \in Levels : l # nest => frame'[l] = frame[l]
    BY <1>1, <2>3, BeginFacts
  <2>5. frame[nest].after = "idle"
    <3>1. nest \in Nat /\ nest \in 0..nest BY <1>1, LevelFacts
    <3>2. CASE nest = 0 BY <1>1, <2>1, <3>2 DEF ExecInv, FrameType
    <3>3. CASE nest # 0 BY <3>1, <3>3, SMT DEF Inv, SyncInv
    <3> QED BY <3>2, <3>3
  <2>6. ReturnTypes' BY <1>1, <2>1 DEF ReturnTypes
  <2> QED BY <2>1, <2>3, <2>4, <2>5, <2>6, MovesOn DEF Leaving, Marked
<1> QED BY <1>3, <1>4, <1>5, <1>6, <1>7, <1>8
LEMMA UnblockReturn == ASSUME Inv, ReturnInv, Unblock, UNCHANGED eventVars PROVE ReturnInv'
<1> DEFINE x == frame[nest].thread
<1>1. TypeInv /\ ReturnTypes /\ ExecInv /\ SettledInv /\ nest \in Levels /\ nest \in Nat /\ 0 \in Levels
      /\ nest \in 0..nest /\ frame[nest].after \in {"idle", "blocked"}
  BY LevelFacts DEF Inv, ReturnInv, TypeInv, FrameType
<1>2. /\ frame[nest].pc = "unblock" /\ state' = [state EXCEPT ![x] = "ready"]
      /\ UNCHANGED <<calling, executing, condition, any, Sync_state, return_code, event_out>>
      /\ IF frame[nest].after = "idle" THEN Finish ELSE Goto(frame[nest].after)
  BY DEF Unblock, At, eventVars
<1>3. \A t \in Threads : state'[t] = state[t] \/ (x = t /\ state'[t] = "ready")
  BY <1>1, <1>2 DEF TypeInv
<1>4. ReturnTypes' BY <1>1, <1>2 DEF ReturnTypes
<1>5. CASE frame[nest].after = "idle"
  BY <1>2, <1>3, <1>4, <1>5, Ends
<1>6. CASE frame[nest].after = "blocked"
  <2>1. Goto("blocked") /\ nest = 0 BY <1>1, <1>2, <1>6, SMT DEF Inv, SyncInv
  <2>2. nest' = 0 /\ frame'[0].pc = "blocked" BY <1>1, <2>1, GotoFacts DEF Places
  <2>3. ExecInv' BY <2>2 DEF ExecInv
  <2>4. ASSUME NEW t \in Threads, Settled(t)' PROVE Settled(t)
    <3>1. ~ Waking(t)' BY <2>2, SMT DEF Waking, Marked
    <3>2. CASE state'[t] = "ready"
      <4>1. CASE x = t BY <1>1, <1>2, <4>1 DEF Settled, Waking, Marked
      <4>2. CASE x # t
        <5>1. state[t] = "ready" /\ frame[0].pc \notin Leaving
          BY <1>2, <1>3, <2>1, <3>2, <4>2 DEF Leaving
        <5> QED BY <5>1 DEF Settled
      <4> QED BY <4>1, <4>2
    <3>3. CASE Sync_state = "SATISFIED" /\ executing = t BY <3>3 DEF Settled
    <3> QED BY <1>2, <2>4, <3>1, <3>2, <3>3 DEF Settled
  <2>5. SettledInv' BY <1>1, <1>2, <2>4, SettledKept
  <2> QED BY <1>4, <2>3, <2>5 DEF ReturnInv
<1> QED BY <1>1, <1>5, <1>6

LEMMA BlockReturn == ASSUME Inv, ReturnInv, Block("check"), UNCHANGED eventVars PROVE ReturnInv'
<1>1. TypeInv /\ ReturnTypes /\ ExecInv /\ SettledInv /\ 0 \in Levels
  BY LevelFacts DEF Inv, ReturnInv, TypeInv
<1>2. /\ frame[nest].pc = "block" /\ Goto("check")
      /\ state' = [state EXCEPT ![executing] = "waiting"]
      /\ UNCHANGED <<calling, executing, condition, any, Sync_state, return_code, event_out>>
  BY DEF Block, At, eventVars
<1>3. nest = 0 /\ executing \in Threads BY <1>2, OnItsWayAtZero DEF OnTheWay
<1>4. nest' = 0 /\ frame'[0].pc = "check" /\ frame'[0].after = frame[0].after
  BY <1>1, <1>2, <1>3, GotoFacts DEF Places
<1>5. ReturnTypes' BY <1>1, <1>2 DEF ReturnTypes
<1>6. ExecInv' BY <1>1, <1>2, <1>3, <1>4 DEF ExecInv
<1>7. ASSUME NEW t \in Threads, Settled(t)' PROVE Settled(t)
  <2>1. ~ Waking(t)' BY <1>4, SMT DEF Waking, Marked
  <2>2. CASE state'[t] = "ready"
    <3>1. state[t] = "ready" /\ executing # t BY <1>1, <1>2, <1>3, <2>2 DEF TypeInv
    <3> QED BY <3>1 DEF Settled
  <2>3. CASE Sync_state = "SATISFIED" /\ executing = t BY <2>3 DEF Settled
  <2> QED BY <1>2, <1>7, <2>1, <2>2, <2>3 DEF Settled
<1>8. SettledInv' BY <1>1, <1>2, <1>7, SettledKept
<1> QED BY <1>5, <1>6, <1>8 DEF ReturnInv

LEMMA SeizeCheckReturn == ASSUME Inv, ReturnInv, SeizeCheck PROVE ReturnInv'
<1>1. TypeInv /\ ReturnTypes /\ ExecInv /\ SettledInv /\ 0 \in Levels /\ frame[0] \in FrameType
  BY LevelFacts DEF Inv, ReturnInv, TypeInv
<1>2. /\ frame[nest].pc = "check" /\ Sync_state' = "SYNCHRONIZED"
      /\ UNCHANGED <<state, calling, executing, condition, any, event_out>>
  BY DEF SeizeCheck, At
<1>3. nest = 0 /\ executing \in Threads /\ frame[0].thread = executing
      /\ Sync_state # "SYNCHRONIZED"
  BY <1>2, OnItsWayAtZero DEF OnTheWay
<1>4. \/ Goto("blocked") /\ UNCHANGED return_code
      \/ /\ Begin(0, [frame[0] EXCEPT !.pc = "unblock", !.after = "blocked"])
         /\ return_code' = [return_code EXCEPT ![executing] = "TIMEOUT"]
      \/ Sync_state = "SATISFIED" /\ Take(0, "none", executing, "blocked") /\ UNCHANGED return_code
  BY <1>3 DEF SeizeCheck, TimeoutCode
<1>5. ASSUME NEW t \in Threads, Settled(t)', ~ Waking(t)' PROVE Settled(t)
  <2>1. state[t] = "ready" /\ frame[0].pc = "check" BY <1>2, <1>3, <1>5 DEF Settled
  <2> QED BY <2>1 DEF Settled, Leaving
<1>6. CASE Goto("blocked") /\ UNCHANGED return_code
  <2>1. nest' = 0 /\ frame'[0].pc = "blocked"
    BY <1>1, <1>3, <1>6, GotoFacts DEF Places
  <2>2. ExecInv' /\ ReturnTypes' BY <1>1, <1>2, <1>6, <2>1 DEF ExecInv, ReturnTypes
  <2>3. \A t \in Threads : ~ Waking(t)' BY <2>1, SMT DEF Waking, Marked
  <2>4. SettledInv' BY <1>1, <1>2, <1>5, <1>6, <2>3, SettledKept
  <2> QED BY <2>2, <2>4 DEF ReturnInv
<1>7. ASSUME NEW f \in FrameType, Begin(0, f), f.pc \in {"remove", "unblock"},
             f.thread = executing, f.after = "blocked", ReturnTypes',
             \A t \in Threads : t # executing => return_code'[t] = return_code[t],
             Good(executing)' \/ (Sync_state = "SATISFIED" /\ UNCHANGED return_code)
      PROVE  ReturnInv'
  <2>1. nest' = 0 /\ frame'[0] = f BY <1>1, <1>7, BeginFacts
  <2>2. ExecInv' BY <1>7, <2>1 DEF ExecInv
  <2>3. ASSUME NEW t \in Threads, Settled(t)', ~ Good(t)'
        PROVE  Settled(t) /\ return_code'[t] = return_code[t] /\ event_out'[t] = event_out[t]
    <3>1. CASE t = executing
      <4>1. ~ Good(executing)' BY <1>2, <2>3, <3>1 DEF Good
      <4> QED BY <1>2, <1>7, <3>1, <4>1 DEF Settled
    <3>2. CASE t # executing
      <4>1. ~ Waking(t)' BY <1>7, <2>1, <3>2, SMT DEF Waking
      <4> QED BY <1>2, <1>5, <1>7, <2>3, <3>2, <4>1
    <3> QED BY <3>1, <3>2
  <2>4. SettledInv' BY <1>1, <1>2, <2>3, SettledKept
  <2> QED BY <1>7, <2>2, <2>4 DEF ReturnInv
<1>8. CASE /\ Begin(0, [frame[0] EXCEPT !.pc = "unblock", !.after = "blocked"])
           /\ return_code' = [return_code EXCEPT ![executing] = "TIMEOUT"]
  <2> DEFINE f == [frame[0] EXCEPT !.pc = "unblock", !.after = "blocked"]
  <2>1. f \in FrameType /\ f.pc = "unblock" /\ f.thread = executing /\ f.after = "blocked"
    BY <1>1, <1>3 DEF FrameType, Places
  <2> HIDE DEF f
  <2>2. /\ ReturnTypes' /\ return_code'[executing] = "TIMEOUT"
        /\ \A t \in Threads : t # executing => return_code'[t] = return_code[t]
    BY <1>1, <1>2, <1>3, <1>8 DEF ReturnTypes, Statuses
  <2>3. Good(executing)' BY <1>2, <2>2 DEF Good
  <2>4. Begin(0, f) BY <1>8 DEF f
  <2> QED BY <1>7, <2>1, <2>2, <2>3, <2>4
<1>9. CASE Sync_state = "SATISFIED" /\ Take(0, "none", executing, "blocked") /\ UNCHANGED return_code
  <2>1. ReturnTypes' BY <1>1, <1>2, <1>9 DEF ReturnTypes
  <2>2. PICK f \in FrameType : /\ Begin(0, f) /\ f.pc \in {"remove", "unblock"}
                               /\ f.thread = executing /\ f.after = "blocked"
    BY <1>3, <1>9, TakeFrame, SMT
  <2> QED BY <1>7, <1>9, <2>1, <2>2
<1> QED BY <1>4, <1>6, <1>8, <1>9
LEMMA TimeoutReturn ==
  ASSUME Inv, ReturnInv,
         \/ At("sync") /\ TimeoutTest /\ ~ NotSatisfied
         \/ TimeoutMark
  PROVE  ReturnInv'
<1>1. TypeInv /\ SyncInv /\ ReturnTypes BY DEF Inv, ReturnInv
<1>2. /\ frame[nest].pc \in {"sync", "mark"} /\ Finish
      /\ UNCHANGED <<state, return_code, calling, executing, condition, any, event_out>>
      /\ Sync_state' = "SATISFIED" => Sync_state = "SATISFIED"
  BY DEF TimeoutTest, TimeoutMark, At, NotSatisfied, eventVars
<1>3. nest # 0 BY <1>1, <1>2 DEF SyncInv
<1>4. ReturnTypes' BY <1>1, <1>2 DEF ReturnTypes
<1> QED BY <1>2, <1>3, <1>4, Ends

LEMMA DispatchReturn ==
  ASSUME Inv, ReturnInv, Dispatch \/ Return, UNCHANGED eventVars
  PROVE  ReturnInv'
<1>1. TypeInv /\ SyncInv /\ ReturnTypes /\ ExecInv /\ SettledInv /\ 0 \in Levels
  BY LevelFacts DEF Inv, ReturnInv, TypeInv
<1>2. /\ UNCHANGED <<state, nest, condition, any, Sync_state, return_code, event_out>>
      /\ nest = 0 /\ frame[0].pc \in {"idle", "blocked"} /\ calling' \subseteq calling
  BY DEF Dispatch, Return, Returning, eventVars
<1>3. Sync_state = "SYNCHRONIZED" BY <1>1, <1>2 DEF SyncInv, OnTheWay
<1>4. frame'[0].pc \in {"idle", "blocked"}
  <2>1. CASE Dispatch
    <3>1. frame' = [frame EXCEPT ![0] = IdleFrame] BY <2>1 DEF Dispatch
    <3> HIDE DEF IdleFrame
    <3> QED BY <1>1, <3>1, IdleType DEF TypeInv
  <2>2. CASE Return BY <1>2, <2>2 DEF Return
  <2> QED BY <2>1, <2>2
<1>5. ExecInv'
  <2>1. CASE Dispatch
    <3>1. frame' = [frame EXCEPT ![0] = IdleFrame] BY <2>1 DEF Dispatch
    <3>2. IdleFrame.after = "idle" BY DEF IdleFrame
    <3> HIDE DEF IdleFrame
    <3>3. frame'[0].after = "idle" BY <1>1, <3>1, <3>2 DEF TypeInv
    <3>4. executing' \in Threads => state[executing'] = "ready"
      BY <2>1, BlockingAssumption DEF Dispatch
    <3> QED BY <1>2, <3>3, <3>4 DEF ExecInv
  <2>2. CASE Return BY <1>1, <2>2 DEF Return, ExecInv
  <2> QED BY <2>1, <2>2
<1>6. ASSUME NEW t \in Threads, Settled(t)' PROVE Settled(t)
  <2>1. ~ Waking(t)' BY <1>2, <1>4, SMT DEF Waking, Marked
  <2>2. state[t] = "ready" BY <1>2, <1>3, <1>6, <2>1 DEF Settled
  <2> QED BY <1>2, <2>2 DEF Settled, Leaving
<1>7. SettledInv' BY <1>1, <1>2, <1>6, SettledKept
<1>8. ReturnTypes' BY <1>1, <1>2 DEF ReturnTypes
<1> QED BY <1>5, <1>7, <1>8 DEF ReturnInv

\* A handler, or a directive of the executing thread that does not wait, starts.
LEMMA Starts ==
  ASSUME Inv, ReturnInv, NEW lv \in Levels, NEW f \in FrameType, Begin(lv, f),
         UNCHANGED <<state, calling, executing, condition, any, Sync_state>>,
         UNCHANGED <<return_code, event_out>>,
         f.pc \in {"timeout", "surrender"}, f.after = "idle",
         \/ lv = nest + 1
         \/ lv = 0 /\ nest = 0 /\ frame[0].pc = "idle"
  PROVE  ReturnInv'
<1>0. nest \in Nat BY LevelFacts DEF Inv, TypeInv
<1>1. TypeInv /\ ReturnTypes /\ ExecInv /\ SettledInv /\ 0 \in Levels /\ nest \in Nat
      /\ 0..nest \subseteq Levels
  BY LevelFacts DEF Inv, ReturnInv, TypeInv
<1>2. /\ nest' = lv /\ frame'[lv] = f
      /\ \A l \in Levels : l # lv => frame'[l] = frame[l]
  BY <1>1, BeginFacts
<1>3. ReturnTypes' BY <1>1 DEF ReturnTypes
<1>4. ExecInv'
  <2>1. CASE lv = nest + 1
    <3>1. lv # 0 BY <1>0, <2>1, AboveZero
    <3>2. frame'[0] = frame[0] BY <1>1, <1>2, <3>1
    <3> QED BY <1>1, <3>2 DEF ExecInv
  <2>2. CASE lv = 0 /\ frame[0].pc = "idle" BY <1>1, <1>2, <2>2 DEF ExecInv
  <2> QED BY <2>1, <2>2
<1>5. ASSUME NEW t \in Threads, Settled(t)' PROVE Settled(t)
  <2>1. CASE Waking(t)'
    <3>1. PICK l \in 0..nest' : frame'[l].thread = t /\ frame'[l].pc \in Marked
      BY <2>1 DEF Waking
    <3>2. l # lv BY <1>2, <3>1 DEF Marked
    <3>3. l \in 0..nest BY <1>1, <1>2, <3>2, SMT
    <3>4. frame'[l] = frame[l] BY <1>1, <1>2, <3>2, <3>3
    <3> QED BY <3>1, <3>3, <3>4 DEF Settled, Waking
  <2>2. CASE state[t] = "ready" /\ ~ (executing = t /\ frame'[0].pc \in Leaving)
    <3>1. CASE lv = nest + 1
      <4>1. lv # 0 BY <1>0, <3>1, AboveZero
      <4>2. frame'[0] = frame[0] BY <1>1, <1>2, <4>1
      <4> QED BY <2>2, <4>2 DEF Settled
    <3>2. CASE frame[0].pc = "idle" BY <2>2, <3>2 DEF Settled, Leaving
    <3> QED BY <3>1, <3>2
  <2>3. CASE Sync_state = "SATISFIED" /\ executing = t BY <2>3 DEF Settled
  <2> QED BY <1>5, <2>1, <2>2, <2>3 DEF Settled
<1>6. SettledInv' BY <1>1, <1>5, SettledKept
<1> QED BY <1>3, <1>4, <1>6 DEF ReturnInv

LEMMA TickReturn == ASSUME Inv, ReturnInv, NEW t \in Threads, Tick(t) PROVE ReturnInv'
<1> DEFINE f == [IdleFrame EXCEPT !.pc = "timeout", !.op = "timeout", !.thread = t]
<1>1. /\ Begin(nest + 1, f) /\ Calls(nest + 1)
      /\ UNCHANGED <<state, calling, executing, condition, any, Sync_state, return_code, event_out>>
  BY DEF Tick, Expire, eventVars
<1>2. f \in FrameType /\ f.pc = "timeout" /\ f.after = "idle"
  BY DEF IdleFrame, FrameType, Places
<1> HIDE DEF f
<1>3. nest + 1 \in Levels
  <2>1. nest \in Nat BY LevelFacts DEF Inv, TypeInv
  <2> QED BY <1>1, <2>1, SMT DEF Calls
<1> QED BY <1>1, <1>2, <1>3, Starts

LEMMA SendReturn ==
  ASSUME Inv, ReturnInv, NEW lv \in Levels, NEW t \in Threads, NEW e \in Events, Send(lv, t, e)
  PROVE  ReturnInv'
<1> DEFINE f == [IdleFrame EXCEPT !.pc = "surrender", !.thread = t]
<1>1. /\ Calls(lv) /\ Begin(lv, f)
      /\ UNCHANGED <<state, calling, executing, condition, any, Sync_state, return_code, event_out>>
  BY DEF Send
<1>2. f \in FrameType /\ f.pc = "surrender" /\ f.after = "idle"
  BY DEF IdleFrame, FrameType, Places
<1> HIDE DEF f
<1> QED BY <1>1, <1>2, CallsFacts, Starts

LEMMA ReceiveReturn ==
  ASSUME Inv, ReturnInv, NEW c \in SUBSET Events, NEW anyOf \in BOOLEAN, NEW wait \in BOOLEAN,
         NEW timed \in BOOLEAN, Receive(c, anyOf, wait, timed)
  PROVE  ReturnInv'
<1>1. TypeInv /\ SyncInv /\ ReturnTypes /\ ExecInv /\ SettledInv /\ 0 \in Levels
  BY LevelFacts DEF Inv, ReturnInv, TypeInv
<1>2. /\ nest = 0 /\ frame[0].pc = "idle" /\ executing \notin calling
      /\ UNCHANGED <<state, timer, executing>>
  BY LevelFacts, SMT DEF Receive, Calls, Inv, TypeInv
<1>3. PICK t \in Threads : t = executing
  BY <1>1, CallsFacts DEF Receive
<1>4. Sync_state = "SYNCHRONIZED" BY <1>1, <1>2 DEF SyncInv, OnTheWay
<1>5. state[executing] = "ready"
  <2>1. frame[0].after # "blocked" BY <1>1, <1>2 DEF ExecInv
  <2> QED BY <1>1, <1>2, <1>3, <2>1 DEF ExecInv, TypeInv
<1>6. /\ ReturnTypes'
      /\ \A u \in Threads : u # t =>
           return_code'[u] = return_code[u] /\ event_out'[u] = event_out[u]
  <2> DEFINE e == pending_events[t] \cap c
             r == IF Satisfies(pending_events[t], c, anyOf) \/ wait THEN "SUCCESSFUL" ELSE "UNSATISFIED"
  <2>1. return_code' = [return_code EXCEPT ![t] = r] BY <1>3 DEF Receive
  <2>2. UNCHANGED event_out \/ event_out' = [event_out EXCEPT ![t] = e]
    BY <1>3 DEF Receive, Seized
  <2>3. e \in SUBSET Events /\ r \in Statuses BY DEF Statuses
  <2> HIDE DEF e, r
  <2> QED BY <1>1, <2>1, <2>2, <2>3 DEF ReturnTypes
<1>7. CASE UNCHANGED <<calling, nest, frame, condition, any, Sync_state>>
  <2>1. ExecInv' BY <1>1, <1>2, <1>7 DEF ExecInv
  <2>2. \A u \in calling : u # t /\ u \in Threads BY <1>1, <1>2, <1>3 DEF TypeInv
  <2>3. \A u \in calling : Settled(u)' => Settled(u) BY <1>2, <1>7 DEF Settled, Waking
  <2>4. \A u \in calling : Good(u) => Good(u)' BY <1>6, <1>7, <2>2 DEF Good
  <2>5. SettledInv' BY <1>1, <1>7, <2>3, <2>4 DEF SettledInv
  <2> QED BY <1>6, <2>1, <2>5 DEF ReturnInv
<1>8. CASE /\ Sync_state' = "NOTHING_HAPPENED"
           /\ condition' = [condition EXCEPT ![t] = c]
           /\ any' = [any EXCEPT ![t] = anyOf]
           /\ calling' = calling \cup {t}
           /\ Begin(0, [IdleFrame EXCEPT !.thread = t, !.pc = IF timed THEN "timer" ELSE "block"])
  <2> DEFINE f == [IdleFrame EXCEPT !.thread = t, !.pc = IF timed THEN "timer" ELSE "block"]
  <2>1. f \in FrameType /\ f.pc \in {"timer", "block"} /\ f.thread = t /\ f.after = "idle"
    BY DEF IdleFrame, FrameType, Places
  <2> HIDE DEF f
  <2>2. Begin(0, f) BY <1>8 DEF f
  <2>3. nest' = 0 /\ frame'[0] = f BY <1>1, <2>1, <2>2, BeginFacts
  <2>4. ExecInv' BY <1>2, <1>3, <1>5, <2>1, <2>3 DEF ExecInv
  <2>5. \A u \in Threads : ~ Waking(u)' BY <2>1, <2>3, SMT DEF Waking, Marked
  <2>6. ASSUME NEW u \in calling', Settled(u)' PROVE Good(u)'
    <3>1. u \in Threads BY <1>1, <1>8 DEF TypeInv
    <3>2. u # t BY <1>2, <1>3, <1>8, <2>1, <2>3, <2>5, <2>6, <3>1 DEF Settled, Leaving
    <3>3. state[u] = "ready" BY <1>2, <1>8, <2>5, <2>6, <3>1 DEF Settled
    <3>4. u \in calling /\ Good(u) BY <1>1, <1>2, <1>8, <3>2, <3>3 DEF SettledInv, Settled, Leaving
    <3>5. condition'[u] = condition[u] /\ any'[u] = any[u] BY <1>1, <1>8, <3>1, <3>2 DEF TypeInv
    <3> QED BY <1>6, <3>1, <3>2, <3>4, <3>5 DEF Good
  <2>7. SettledInv' BY <2>6 DEF SettledInv
  <2> QED BY <1>6, <2>4, <2>7 DEF ReturnInv
<1> QED BY <1>3, <1>7, <1>8 DEF Receive

LEMMA ReturnAtStart == ASSUME Init PROVE ReturnInv
<1>1. frame = [l \in Levels |-> IdleFrame] /\ 0 \in Levels
  BY BlockingAssumption, SMT DEF Init, ThreadInit, Levels
<1>2. frame[0].after = "idle" BY <1>1 DEF IdleFrame
<1>3. ExecInv BY <1>2 DEF Init, ThreadInit, ExecInv
<1>4. ReturnTypes BY DEF Init, ThreadInit, ReturnTypes, Statuses
<1>5. SettledInv BY DEF Init, ThreadInit, SettledInv
<1> QED BY <1>3, <1>4, <1>5 DEF ReturnInv

LEMMA ReturnKept == ASSUME Inv, ReturnInv, [Next]_vars PROVE ReturnInv'
<1>1. CASE EventStep
  BY <1>1, PlainReturn, UnblockReturn, BlockReturn, SeizeCheckReturn, SurrenderReturn, TimeoutReturn
  DEF EventStep, SeizeBlock, TimeoutTest
<1>2. CASE (Dispatch \/ Return) /\ UNCHANGED eventVars BY <1>2, DispatchReturn
<1>3. CASE \E t \in Threads : Tick(t) BY <1>3, TickReturn
<1>4. CASE \E c \in SUBSET Events \ {{}}, anyOf, wait, timed \in BOOLEAN :
             (timed => wait) /\ Receive(c, anyOf, wait, timed)
  BY <1>4, ReceiveReturn
<1>5. CASE \E lv \in Levels, t \in Threads, e \in Events : Send(lv, t, e) BY <1>5, SendReturn
<1>6. CASE UNCHANGED vars
  BY <1>6 DEF vars, threadVars, eventVars, ReturnInv, ReturnTypes, ExecInv, SettledInv, Settled,
     Waking, Good
<1> QED BY <1>1, <1>2, <1>3, <1>4, <1>5, <1>6 DEF Next

\* A rtems_event_receive that waited and returns RTEMS_SUCCESSFUL returns events
\* that satisfy what it asked for, and no others, whoever sent them and wherever
\* the sends and the time-out interrupted _Event_Seize.
THEOREM WaitReturnsCondition == Spec => []ReturnsCondition
<1>1. Init => Inv /\ ReturnInv BY InvAtStart, ReturnAtStart
<1>2. Inv /\ ReturnInv /\ [Next]_vars => Inv' /\ ReturnInv' BY InvKept, ReturnKept
<1>3. Inv /\ ReturnInv => ReturnsCondition
  <2> SUFFICES ASSUME Inv, ReturnInv, Returning PROVE Good(executing)
    BY DEF ReturnsCondition, Good
  <2>1. TypeInv /\ ExecInv /\ SettledInv BY DEF Inv, ReturnInv
  <2>2. frame[0].pc = "idle" /\ executing \in calling /\ executing \in Threads
    BY <2>1 DEF Returning, TypeInv
  <2>3. state[executing] = "ready" BY <2>1, <2>2 DEF ExecInv, TypeInv
  <2> QED BY <2>1, <2>2, <2>3 DEF SettledInv, Settled, Leaving
<1> QED BY <1>1, <1>2, <1>3, PTL DEF Spec
=============================================================================
