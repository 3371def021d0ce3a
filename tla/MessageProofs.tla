--------------------------- MODULE MessageProofs ---------------------------
(***************************************************************************)
(* Proofs about CoreMessage, for any number of threads, messages and       *)
(* buffers, and handlers that send to any depth of nesting.  That buffers  *)
(* are accounted for needs the increment of number_of_pending_messages to  *)
(* be one instruction; that a delete leaves nobody waiting does not.       *)
(***************************************************************************)
EXTENDS CoreMessage, FiniteSetTheorems, NaturalsInduction, SequenceTheorems, TLAPS

\* Zenon is tried on every leaf that names no other prover.
USE Zenon

\* The places of a call that has a buffer, and those of a thread on its way to
\* the thread queue.
Held == {"count", "link", "free"}
Waits == {"block", "timer", "enqueue", "flash"}

\* f has the fields of a frame, and its thread, once unblocked, does not lead
\* it to a buffer.
IsFrame(f) ==
  /\ f \in [pc : Places \ {"store"}, op : {f.op}, thread : {f.thread},
            search : {f.search}, after : {f.after}, timed : {f.timed},
            value : {f.value}]
  /\ f.after \in {"idle", "dequeued", "blocked"}

FrameInv ==
  /\ nest \in Levels
  /\ frame = [l \in Levels |-> frame[l]]
  /\ \A l \in Levels : IsFrame(frame[l])
  /\ \A l \in Levels : l > nest => frame[l].pc = "idle"
  /\ \A l \in Levels : l > 0 => frame[l].pc \notin Waits

MessageTypes ==
  /\ Pending \in Seq(Nat)
  /\ message \in [Levels -> Nat]
  /\ number \in Nat
  /\ Inactive \in Nat

IInv == FrameInv /\ MessageTypes /\ BuffersAccounted

-----------------------------------------------------------------------------
LEMMA IdleIsFrame == IsFrame(IdleFrame) /\ IdleFrame.pc = "idle"
  BY DEF IsFrame, IdleFrame, Places

\* A frame that goes on.
LEMMA MovedFrame ==
  ASSUME NEW f, IsFrame(f), NEW pc \in Places \ {"store"}, NEW t,
         NEW after \in {"idle", "dequeued", "blocked"}
  PROVE  /\ IsFrame([f EXCEPT !.pc = pc]) /\ [f EXCEPT !.pc = pc].pc = pc
         /\ IsFrame([f EXCEPT !.pc = pc, !.after = after])
         /\ [f EXCEPT !.pc = pc, !.after = after].pc = pc
         /\ IsFrame([f EXCEPT !.pc = pc, !.search = t])
         /\ [f EXCEPT !.pc = pc, !.search = t].pc = pc
  BY DEF IsFrame

\* A step that changes the frame of one level.
LEMMA FrameChanged ==
  ASSUME FrameInv, NEW lv \in Levels, NEW f, IsFrame(f),
         frame' = [frame EXCEPT ![lv] = f],
         nest' \in Levels,
         \A l \in Levels : l > nest' /\ l # lv => l > nest,
         lv > nest' => f.pc = "idle",
         lv > 0 => f.pc \notin Waits
  PROVE  /\ FrameInv'
         /\ frame'[lv] = f
         /\ \A l \in Levels : l # lv => frame'[l] = frame[l]
<1>1. frame' = [l \in Levels |-> IF l = lv THEN f ELSE frame[l]]
  BY DEF FrameInv
<1>2. frame'[lv] = f /\ \A l \in Levels : l # lv => frame'[l] = frame[l]
  BY <1>1
<1>3. frame' = [l \in Levels |-> frame'[l]]
  BY <1>1
<1>4. \A l \in Levels : IsFrame(frame'[l])
  BY <1>2 DEF FrameInv
<1>5. \A l \in Levels : l > nest' => frame'[l].pc = "idle"
  BY <1>2 DEF FrameInv
<1>6. \A l \in Levels : l > 0 => frame'[l].pc \notin Waits
  BY <1>2 DEF FrameInv
<1>7. \A l \in Levels : IsFrame(frame[l])'
  BY <1>4 DEF IsFrame
<1> QED
  BY <1>2, <1>3, <1>5, <1>6, <1>7 DEF FrameInv, Levels

\* ... none of whose places is one with a buffer.
Quiet == UNCHANGED <<number, Pending, Inactive>> /\ message' \in [Levels -> Nat]

LEMMA QuietFrame ==
  ASSUME IInv, NEW lv \in Levels, NEW f, IsFrame(f), f.pc \notin Held,
         frame[lv].pc \notin Held,
         frame' = [frame EXCEPT ![lv] = f],
         nest' \in Levels,
         \A l \in Levels : l > nest' /\ l # lv => l > nest,
         lv > nest' => f.pc = "idle",
         lv > 0 => f.pc \notin Waits,
         Quiet
  PROVE  IInv'
<1>1. FrameInv' /\ frame'[lv] = f /\ \A l \in Levels : l # lv => frame'[l] = frame[l]
  BY FrameChanged DEF IInv
<1>2. frame[lv].pc # "store" /\ f.pc # "store"
  BY DEF IInv, FrameInv, IsFrame
<1>3. Holding' = Holding /\ Counted' = Counted
  BY <1>1, <1>2, SMT DEF Holding, Counted, Held, Levels
<1> QED
  BY <1>1, <1>3 DEF IInv, MessageTypes, BuffersAccounted, Quiet

LEMMA LevelFacts ==
  ASSUME IInv
  PROVE  /\ nest \in Levels /\ nest \in Nat /\ 0 \in Levels
         /\ Levels \subseteq Nat
         /\ IsFrame(frame[nest]) /\ IsFrame(frame[0])
         /\ nest + 1 \in Levels => frame[nest + 1].pc = "idle"
         /\ frame[nest].pc \in Waits => nest = 0
  BY BlockingAssumption, SMT DEF IInv, FrameInv, Levels

\* The innermost level moves on, or ends.
LEMMA QuietGoto ==
  ASSUME IInv, NEW pc \in Places \ {"store"}, pc \notin Held,
         frame[nest].pc \notin Held,
         Goto(pc), pc \in Waits => nest = 0, Quiet
  PROVE  IInv'
<1> DEFINE f == [frame[nest] EXCEPT !.pc = pc]
<1>1. IsFrame(f) /\ f.pc = pc
  BY MovedFrame, LevelFacts, ZenonT(30)
<1>2. frame' = [frame EXCEPT ![nest] = f] /\ nest' = nest
  BY DEF Goto
<1> HIDE DEF f
<1>3. /\ nest \in Levels /\ nest' \in Levels /\ ~(nest > nest')
      /\ \A l \in Levels : l > nest' /\ l # nest => l > nest
      /\ nest > 0 => f.pc \notin Waits
  BY <1>1, <1>2, LevelFacts, SMT
<1> QED
  BY <1>1, <1>2, <1>3, QuietFrame

LEMMA FinishLevel ==
  ASSUME IInv, Finish
  PROVE  nest' \in Levels /\ \A l \in Levels : l > nest' /\ l # nest => l > nest
<1>1. CASE InHandler
  BY <1>1, LevelFacts, BlockingAssumption, SMT DEF Finish, InHandler, Levels
<1>2. CASE ~InHandler
  BY <1>2, LevelFacts DEF Finish
<1> QED
  BY <1>1, <1>2

LEMMA QuietFinish ==
  ASSUME IInv, Finish, frame[nest].pc \notin Held, Quiet
  PROVE  IInv'
<1>1. nest' \in Levels /\ \A l \in Levels : l > nest' /\ l # nest => l > nest
  BY FinishLevel
<1>2. frame' = [frame EXCEPT ![nest] = IdleFrame]
  BY DEF Finish
<1>3. "idle" \notin Held /\ "idle" \notin Waits
  BY DEF Held, Waits
<1> QED
  BY <1>1, <1>2, <1>3, IdleIsFrame, LevelFacts, QuietFrame

\* A call begins, or replaces its frame.
LEMMA QuietBegin ==
  ASSUME IInv, NEW lv \in Levels, NEW f, IsFrame(f), f.pc \notin Held,
         frame[lv].pc \notin Held, lv = nest \/ lv = nest + 1,
         Begin(lv, f), lv > 0 => f.pc \notin Waits, Quiet
  PROVE  IInv'
<1>1. \A l \in Levels : l > lv => l > nest
  BY LevelFacts, SMT DEF Levels
<1>2. frame' = [frame EXCEPT ![lv] = f] /\ nest' = lv
  BY DEF Begin
<1>3. nest' \in Levels /\ ~(lv > nest') /\ \A l \in Levels : l > nest' /\ l # lv => l > nest
  BY <1>1, <1>2, LevelFacts, SMT
<1> QED
  BY <1>2, <1>3, QuietFrame

LEMMA CallsLevel ==
  ASSUME IInv, NEW lv \in Nat, Calls(lv)
  PROVE  /\ lv \in Levels /\ frame[lv].pc = "idle"
         /\ lv = nest \/ lv = nest + 1
         /\ lv = 0 => nest = 0
  BY LevelFacts, SMT DEF Calls

-----------------------------------------------------------------------------
\* A thread is taken out of its wait.
LEMMA QuietTake ==
  ASSUME IInv, NEW lv \in Levels, NEW op, NEW t,
         NEW after \in {"idle", "dequeued", "blocked"},
         frame[lv].pc \notin Held, lv = nest \/ lv = nest + 1,
         Take(lv, op, t, after), Quiet
  PROVE  IInv'
<1> DEFINE pc == IF Timed(t) THEN "remove" ELSE "unblock"
<1> DEFINE f == [IdleFrame EXCEPT !.pc = pc, !.op = op, !.thread = t, !.after = after]
<1>1. pc \in Places \ {"store"} /\ pc \notin Held /\ pc \notin Waits
  BY DEF Places, Held, Waits
<1>2. Begin(lv, f)
  BY DEF Take
<1> HIDE DEF pc
<1>3. IsFrame(f) /\ f.pc \notin Held /\ f.pc \notin Waits
  BY <1>1 DEF IsFrame, IdleFrame
<1> HIDE DEF f
<1> QED
  BY <1>2, <1>3, QuietBegin

LEMMA QuietDequeue ==
  ASSUME IInv, NEW lv \in Levels, NEW op,
         frame[lv].pc \notin Held, lv = nest \/ lv = nest + 1,
         Dequeue(lv, op), Quiet
  PROVE  IInv'
<1>1. CASE First # NULL /\ Take(lv, op, First, "dequeued")
  BY <1>1, QuietTake
<1>2. ASSUME NEW t, Begin(lv, [IdleFrame EXCEPT !.pc = "dequeued", !.op = op, !.thread = t])
      PROVE  IInv'
  <2> DEFINE f == [IdleFrame EXCEPT !.pc = "dequeued", !.op = op, !.thread = t]
  <2>1. "dequeued" \notin Held /\ "dequeued" \notin Waits
    BY DEF Held, Waits
  <2>2. IsFrame(f) /\ f.pc \notin Held /\ f.pc \notin Waits
    BY <2>1 DEF IsFrame, IdleFrame, Places
  <2>3. Begin(lv, f)
    BY <1>2
  <2> HIDE DEF f
  <2> QED
    BY <2>2, <2>3, QuietBegin
<1> QED
  BY <1>1, <1>2 DEF Dequeue

-----------------------------------------------------------------------------
\* The steps of the thread queue.
LEMMA SynchronizeQuiet ==
  ASSUME IInv, Synchronize, nest = 0, frame[0].pc \notin Held, Quiet
  PROVE  IInv'
<1>1. CASE Take(0, "none", executing, "blocked")
  BY <1>1, QuietTake, LevelFacts
<1>2. CASE Begin(0, [frame[0] EXCEPT !.pc = "unblock", !.after = "blocked"])
  <2> DEFINE f == [frame[0] EXCEPT !.pc = "unblock", !.after = "blocked"]
  <2>1. IsFrame(f) /\ f.pc = "unblock"
    BY MovedFrame, LevelFacts, ZenonT(30) DEF Places
  <2>2. "unblock" \notin Held /\ "unblock" \notin Waits
    BY DEF Held, Waits
  <2>3. Begin(0, f)
    BY <1>2
  <2> HIDE DEF f
  <2> QED
    BY <2>1, <2>2, <2>3, QuietBegin, LevelFacts
<1> QED
  BY <1>1, <1>2 DEF Synchronize

LEMMA LinkQuiet ==
  ASSUME IInv, NEW q, Link(q), frame[nest].pc \notin Held, Quiet
  PROVE  IInv'
<1>1. Goto("blocked")
  BY DEF Link
<1>2. "blocked" \notin Held /\ "blocked" \notin Waits /\ "blocked" \in Places \ {"store"}
  BY DEF Held, Waits, Places
<1> QED
  BY <1>1, <1>2, QuietGoto

LEMMA SearchQuiet ==
  ASSUME IInv, NEW i, Search(i), nest = 0, frame[0].pc \notin Held, Quiet
  PROVE  IInv'
<1>1. PICK at : \/ Synchronize
                \/ Link(Placed(at))
                \/ Begin(0, [frame[0] EXCEPT !.pc = "flash",
                                             !.search = Leader(MyHeader, at)])
  BY DEF Search
<1>2. CASE Synchronize
  BY <1>2, SynchronizeQuiet
<1>3. CASE Link(Placed(at))
  BY <1>3, LinkQuiet
<1>4. CASE Begin(0, [frame[0] EXCEPT !.pc = "flash", !.search = Leader(MyHeader, at)])
  <2> DEFINE f == [frame[0] EXCEPT !.pc = "flash", !.search = Leader(MyHeader, at)]
  <2>1. "flash" \notin Held
    BY DEF Held
  <2>2. IsFrame(f) /\ f.pc \notin Held
    BY <2>1, LevelFacts DEF IsFrame, Places
  <2>3. Begin(0, f) /\ 0 \in Levels /\ ~(0 > 0)
    BY <1>4, LevelFacts, SMT
  <2> HIDE DEF f
  <2> QED
    BY <2>2, <2>3, QuietBegin
<1> QED
  BY <1>1, <1>2, <1>3, <1>4

\* The steps of EnqueueFifo, EnqueuePriority and ResumeSearch.
LEMMA EnqueueQuiet ==
  ASSUME IInv, EnqueueBegin \/ EnqueueFifo \/ EnqueuePriority \/ ResumeSearch, Quiet
  PROVE  IInv'
<1>1. frame[nest].pc \in Waits /\ nest = 0 /\ frame[nest].pc \notin Held
  BY LevelFacts DEF EnqueueBegin, EnqueueFifo, EnqueuePriority, ResumeSearch,
     Block, StartTimer, At, Waits, Held
<1>2. ASSUME NEW pc \in {"timer", "enqueue"}, Goto(pc)
      PROVE  IInv'
  <2>1. pc \in Places \ {"store"} /\ pc \notin Held
    BY DEF Places, Held
  <2> QED
    BY <1>1, <1>2, <2>1, QuietGoto
<1>3. CASE EnqueueBegin
  BY <1>2, <1>3 DEF EnqueueBegin, Block, StartTimer
<1>4. CASE EnqueueFifo
  <2>1. PICK q : Synchronize \/ Link(q)
    BY <1>4 DEF EnqueueFifo
  <2> QED
    BY <1>1, <2>1, SynchronizeQuiet, LinkQuiet
<1>5. CASE EnqueuePriority
  <2>1. PICK i : Search(i)
    BY <1>5 DEF EnqueuePriority
  <2> QED
    BY <1>1, <2>1, SearchQuiet
<1>6. CASE ResumeSearch
  <2>1. Goto("enqueue") \/ \E i : Search(i)
    BY <1>6 DEF ResumeSearch
  <2> QED
    BY <1>1, <1>2, <2>1, SearchQuiet
<1> QED
  BY <1>3, <1>4, <1>5, <1>6

LEMMA TqStepQuiet ==
  ASSUME IInv, TqStep, Quiet
  PROVE  IInv'
<1>1. CASE RemoveTimer \/ Unblock \/ TimeoutTest \/ TimeoutMark \/ TimeoutStatus
  <2>1. frame[nest].pc \notin Held
    BY <1>1 DEF RemoveTimer, Unblock, TimeoutTest, TimeoutMark, TimeoutStatus, At, Held
  <2>2. PICK pc \in {"unblock", "sync", "expired", "mark", "extract", "idle",
                     "dequeued", "blocked"} : Goto(pc) \/ Finish
    BY <1>1, LevelFacts DEF RemoveTimer, Unblock, TimeoutTest, TimeoutMark,
       TimeoutStatus, IsFrame
  <2>3. pc \in Places \ {"store"} /\ pc \notin Held /\ pc \notin Waits
    BY DEF Places, Held, Waits
  <2> QED
    BY <2>1, <2>2, <2>3, QuietGoto, QuietFinish
<1>2. CASE ExtractStep
  <2>1. frame[nest].pc \notin Held
    BY <1>2 DEF ExtractStep, At, Held
  <2>2. PICK op, t : Take(nest, op, t, "idle") \/ Finish
    BY <1>2 DEF ExtractStep, Extract
  <2> QED
    BY <2>1, <2>2, QuietTake, QuietFinish, LevelFacts
<1> QED
  BY <1>1, <1>2, EnqueueQuiet DEF TqStep

LEMMA TqNextQuiet ==
  ASSUME IInv, TqNext, UNCHANGED messageVars
  PROVE  IInv'
<1>1. Quiet
  BY DEF Quiet, messageVars, IInv, MessageTypes
<1>2. CASE Dispatch
  <2>1. /\ nest = 0 /\ frame[0].pc \notin Held
        /\ frame' = [frame EXCEPT ![0] = IdleFrame] /\ nest' = nest
    BY <1>2 DEF Dispatch, Held
  <2>2. Begin(0, IdleFrame) /\ IdleFrame.pc \notin Held
    BY <2>1, IdleIsFrame DEF Begin, Held
  <2> QED
    BY <1>1, <2>1, <2>2, IdleIsFrame, QuietBegin, LevelFacts, SMT
<1>3. ASSUME UNCHANGED <<nest, frame>>
      PROVE  IInv'
  BY <1>1, <1>3 DEF IInv, FrameInv, MessageTypes, BuffersAccounted, Holding, Counted,
     Quiet, IsFrame
<1>4. CASE Return
  BY <1>3, <1>4 DEF Return
<1>5. ASSUME NEW t \in Threads, Expire(t)
      PROVE  IInv'
  <2> DEFINE f == [IdleFrame EXCEPT !.pc = "timeout", !.op = "timeout", !.thread = t]
  <2>1. IsFrame(f) /\ f.pc \notin Held /\ f.pc \notin Waits
    BY DEF IsFrame, IdleFrame, Places, Held, Waits
  <2>2. Begin(nest + 1, f) /\ Calls(nest + 1)
    BY <1>5 DEF Expire
  <2> HIDE DEF f
  <2>3. nest + 1 \in Levels /\ frame[nest + 1].pc \notin Held
    BY <2>2, LevelFacts DEF Calls, Held
  <2> QED
    BY <1>1, <2>1, <2>2, <2>3, QuietBegin
<1>6. ASSUME NEW t \in Threads, Restart(t)
      PROVE  IInv'
  <2> DEFINE f == [IdleFrame EXCEPT !.pc = "extract", !.thread = t]
  <2>1. IsFrame(f) /\ f.pc \notin Held
    BY DEF IsFrame, IdleFrame, Places, Held
  <2>2. Begin(0, f) /\ Calls(0)
    BY <1>6 DEF Restart
  <2> HIDE DEF f
  <2>3. 0 \in Levels /\ nest = 0 /\ frame[0].pc \notin Held /\ ~(0 > 0)
    BY <2>2, LevelFacts, SMT DEF Calls, Held
  <2> QED
    BY <1>1, <2>1, <2>2, <2>3, QuietBegin
<1>7. ASSUME NEW t \in Threads, NEW p \in Priorities, ChangePriority(t, p)
      PROVE  IInv'
  BY <1>3, <1>7 DEF ChangePriority, threadVars
<1> QED
  BY <1>1, <1>2, <1>4, <1>5, <1>6, <1>7, TqStepQuiet DEF TqNext

-----------------------------------------------------------------------------
\* A level leaves or joins a set of levels.
LEMMA OneLevel ==
  ASSUME NEW S \in SUBSET Levels, NEW T \in SUBSET Levels, NEW lv \in Levels,
         \A l \in Levels : l # lv => (l \in S <=> l \in T)
  PROVE  /\ Cardinality(S) \in Nat /\ Cardinality(T) \in Nat
         /\ (lv \in S <=> lv \in T) => Cardinality(T) = Cardinality(S)
         /\ lv \in S /\ lv \notin T => Cardinality(T) = Cardinality(S) - 1
         /\ lv \notin S /\ lv \in T => Cardinality(T) = Cardinality(S) + 1
<1>1. IsFiniteSet(Levels)
  BY FS_Interval, BlockingAssumption, SMT DEF Levels
<1>2. IsFiniteSet(S) /\ IsFiniteSet(T)
  BY <1>1, FS_Subset
<1>3. Cardinality(S) \in Nat /\ Cardinality(T) \in Nat
  BY <1>2, FS_CardinalityType
<1>4. (lv \in S <=> lv \in T) => S = T
  BY SMT
<1>5. ASSUME lv \in S, lv \notin T PROVE Cardinality(T) = Cardinality(S) - 1
  <2>1. T = S \ {lv}
    BY <1>5
  <2> QED
    BY <1>2, <1>5, <2>1, FS_RemoveElement
<1>6. ASSUME lv \notin S, lv \in T PROVE Cardinality(T) = Cardinality(S) + 1
  <2>1. T = S \cup {lv}
    BY <1>6
  <2> QED
    BY <1>2, <1>6, <2>1, FS_AddElement
<1> QED
  BY <1>3, <1>4, <1>5, <1>6

\* The levels that hold a buffer, and that have counted a message, after a step
\* that changes the frame of level lv.
LEMMA HoldersChange ==
  ASSUME IInv, FrameInv', NEW lv \in Levels,
         \A l \in Levels : l # lv => frame'[l] = frame[l]
  PROVE  /\ Cardinality(Holding) \in Nat /\ Cardinality(Counted) \in Nat
         /\ Cardinality(Holding') \in Nat /\ Cardinality(Counted') \in Nat
         /\ frame[lv].pc \in Held /\ frame'[lv].pc \in Held =>
              Cardinality(Holding') = Cardinality(Holding)
         /\ frame[lv].pc \in Held /\ frame'[lv].pc \notin Held =>
              Cardinality(Holding') = Cardinality(Holding) - 1
         /\ frame[lv].pc \notin Held /\ frame'[lv].pc \in Held =>
              Cardinality(Holding') = Cardinality(Holding) + 1
         /\ frame[lv].pc # "link" /\ frame'[lv].pc # "link" =>
              Cardinality(Counted') = Cardinality(Counted)
         /\ frame[lv].pc = "link" /\ frame'[lv].pc # "link" =>
              Cardinality(Counted') = Cardinality(Counted) - 1
         /\ frame[lv].pc # "link" /\ frame'[lv].pc = "link" =>
              Cardinality(Counted') = Cardinality(Counted) + 1
<1>1. \A l \in Levels : frame[l].pc # "store" /\ frame'[l].pc # "store"
  BY DEF IInv, FrameInv, IsFrame
<1>2. /\ Holding \in SUBSET Levels /\ Holding' \in SUBSET Levels
      /\ Counted \in SUBSET Levels /\ Counted' \in SUBSET Levels
  BY DEF Holding, Counted, Levels
<1>3. /\ \A l \in Levels : l # lv => (l \in Holding <=> l \in Holding')
      /\ \A l \in Levels : l # lv => (l \in Counted <=> l \in Counted')
  BY DEF Holding, Counted, Levels
<1>4. /\ lv \in Holding <=> frame[lv].pc \in Held
      /\ lv \in Holding' <=> frame'[lv].pc \in Held
      /\ lv \in Counted <=> frame[lv].pc = "link"
      /\ lv \in Counted' <=> frame'[lv].pc = "link"
  BY <1>1 DEF Holding, Counted, Levels, Held
<1>5. /\ Cardinality(Holding) \in Nat /\ Cardinality(Holding') \in Nat
      /\ (lv \in Holding <=> lv \in Holding') =>
           Cardinality(Holding') = Cardinality(Holding)
      /\ lv \in Holding /\ lv \notin Holding' =>
           Cardinality(Holding') = Cardinality(Holding) - 1
      /\ lv \notin Holding /\ lv \in Holding' =>
           Cardinality(Holding') = Cardinality(Holding) + 1
  BY <1>2, <1>3, OneLevel, SMT
<1>6. /\ Cardinality(Counted) \in Nat /\ Cardinality(Counted') \in Nat
      /\ (lv \in Counted <=> lv \in Counted') =>
           Cardinality(Counted') = Cardinality(Counted)
      /\ lv \in Counted /\ lv \notin Counted' =>
           Cardinality(Counted') = Cardinality(Counted) - 1
      /\ lv \notin Counted /\ lv \in Counted' =>
           Cardinality(Counted') = Cardinality(Counted) + 1
  BY <1>2, <1>3, OneLevel
<1> QED
  BY <1>4, <1>5, <1>6

\* Between calls no level has a buffer.
LEMMA NobodyHolds ==
  ASSUME IInv, Calls(0)
  PROVE  /\ nest = 0 /\ frame[0].pc = "idle"
         /\ Cardinality(Holding) = 0 /\ Cardinality(Counted) = 0
         /\ number = Len(Pending) /\ Inactive + Len(Pending) = MaximumPending
<1>1. nest = 0 /\ frame[0].pc = "idle"
  BY LevelFacts, SMT DEF Calls
<1>2. \A l \in Levels : frame[l].pc = "idle"
  BY <1>1, SMT DEF IInv, FrameInv, Levels
<1>3. Holding = {} /\ Counted = {}
  BY <1>2 DEF Holding, Counted
<1>4. Len(Pending) \in Nat /\ number \in Nat /\ Inactive \in Nat
  BY SMT DEF IInv, MessageTypes
<1>5. Cardinality(Holding) = 0 /\ Cardinality(Counted) = 0
  BY <1>3, FS_EmptySet
<1> QED
  BY <1>1, <1>4, <1>5, SMT DEF IInv, BuffersAccounted

-----------------------------------------------------------------------------
\* The calls that take, move and give back buffers.

LEMMA SeizeStep ==
  ASSUME IInv, NEW wait \in BOOLEAN, NEW timed \in BOOLEAN, Seize(wait, timed)
  PROVE  IInv'
<1>1. /\ nest = 0 /\ frame[0].pc = "idle" /\ frame[0].pc \notin Held
      /\ number = Len(Pending) /\ Inactive + Len(Pending) = MaximumPending
      /\ Cardinality(Holding) = 0 /\ Cardinality(Counted) = 0
  BY NobodyHolds DEF Seize, Held
<1>2. CASE SomePending
  <2> DEFINE f == [IdleFrame EXCEPT !.pc = "free", !.op = "receive", !.thread = executing]
  <2>1. IsFrame(f) /\ f.pc = "free" /\ f.pc \in Held
    BY DEF IsFrame, IdleFrame, Places, Held
  <2>2. /\ number' = number - 1 /\ Pending' = Tail(Pending) /\ Inactive' = Inactive
        /\ message' = [message EXCEPT ![0] = Head(Pending)]
        /\ frame' = [frame EXCEPT ![0] = f] /\ nest' = 0
    BY <1>2 DEF Seize, Begin
  <2> HIDE DEF f
  <2>3. 0 \in Levels /\ ~(0 > 0) /\ nest' \in Levels /\ ~(0 > nest')
        /\ \A l \in Levels : l > nest' /\ l # 0 => l > nest
    BY <1>1, <2>2, LevelFacts, SMT
  <2>4. FrameInv' /\ frame'[0] = f /\ \A l \in Levels : l # 0 => frame'[l] = frame[l]
    BY <2>1, <2>2, <2>3, FrameChanged DEF IInv
  <2>5. Cardinality(Holding') = 1 /\ Cardinality(Counted') = 0
    BY <1>1, <2>1, <2>3, <2>4, HoldersChange, SMT
  <2>6. Pending \in Seq(Nat) /\ Pending # << >> /\ number \in Nat /\ Inactive \in Nat
    BY <1>1, <1>2 DEF IInv, MessageTypes, SomePending
  <2>7. /\ Pending' \in Seq(Nat) /\ Len(Pending') = Len(Pending) - 1
        /\ Head(Pending) \in Nat /\ Len(Pending) \in Nat \ {0}
    BY <2>2, <2>6, SMT
  <2>8. MessageTypes'
    <3>1. message' \in [Levels -> Nat]
      BY <2>2, <2>3, <2>7 DEF IInv, MessageTypes
    <3>2. number' \in Nat
      BY <1>1, <2>2, <2>7, SMT
    <3> QED
      BY <2>2, <2>6, <2>7, <3>1, <3>2 DEF MessageTypes
  <2>9. BuffersAccounted'
    BY <1>1, <2>2, <2>5, <2>6, <2>7, SMT DEF BuffersAccounted
  <2> QED
    BY <2>4, <2>8, <2>9 DEF IInv
<1>3. CASE ~SomePending
  <2>1. Quiet
    BY <1>3 DEF Seize, Quiet, IInv, MessageTypes
  <2>2. CASE EnterWait(timed)
    <3> DEFINE f == [IdleFrame EXCEPT !.pc = "block", !.thread = executing, !.timed = timed]
    <3>1. IsFrame(f) /\ f.pc \notin Held
      BY DEF IsFrame, IdleFrame, Places, Held
    <3>2. Begin(0, f) /\ 0 \in Levels /\ ~(0 > 0)
      BY <2>2, LevelFacts, SMT DEF EnterWait
    <3> HIDE DEF f
    <3> QED
      BY <1>1, <2>1, <3>1, <3>2, QuietBegin
  <2>3. CASE UNCHANGED <<nest, frame>>
    BY <2>1, <2>3 DEF IInv, FrameInv, MessageTypes, BuffersAccounted, Holding, Counted,
       Quiet, IsFrame
  <2> QED
    BY <1>3, <2>2, <2>3 DEF Seize
<1> QED
  BY <1>2, <1>3

\* The innermost level ends, or goes on, and one of the numbers changes.
LEMMA Ends ==
  ASSUME IInv, Done, frame[nest].pc \in Held
  PROVE  /\ FrameInv' /\ message' \in [Levels -> Nat]
         /\ Cardinality(Holding) \in Nat /\ Cardinality(Counted) \in Nat
         /\ Cardinality(Holding') \in Nat /\ Cardinality(Counted') \in Nat
         /\ Cardinality(Holding') = Cardinality(Holding) - 1
         /\ frame[nest].pc # "link" => Cardinality(Counted') = Cardinality(Counted)
         /\ frame[nest].pc = "link" => Cardinality(Counted') = Cardinality(Counted) - 1
<1>1. nest' \in Levels /\ \A l \in Levels : l > nest' /\ l # nest => l > nest
  BY FinishLevel DEF Done
<1>2. frame' = [frame EXCEPT ![nest] = IdleFrame]
  BY DEF Done, Finish
<1>3. IdleFrame.pc \notin Held /\ IdleFrame.pc \notin Waits /\ IdleFrame.pc # "link"
  BY IdleIsFrame DEF Held, Waits
<1>4. /\ FrameInv' /\ frame'[nest] = IdleFrame
      /\ \A l \in Levels : l # nest => frame'[l] = frame[l]
  BY <1>1, <1>2, <1>3, IdleIsFrame, LevelFacts, FrameChanged, ZenonT(30) DEF IInv
<1>5. message' \in [Levels -> Nat]
  BY DEF Done, IInv, MessageTypes
<1> QED
  BY <1>3, <1>4, <1>5, HoldersChange, LevelFacts

LEMMA GoesOn ==
  ASSUME IInv, NEW pc \in Held, Goto(pc)
  PROVE  /\ FrameInv'
         /\ Cardinality(Holding) \in Nat /\ Cardinality(Counted) \in Nat
         /\ Cardinality(Holding') \in Nat /\ Cardinality(Counted') \in Nat
         /\ frame[nest].pc \in Held => Cardinality(Holding') = Cardinality(Holding)
         /\ frame[nest].pc \notin Held => Cardinality(Holding') = Cardinality(Holding) + 1
         /\ frame[nest].pc # "link" /\ pc # "link" =>
              Cardinality(Counted') = Cardinality(Counted)
         /\ frame[nest].pc # "link" /\ pc = "link" =>
              Cardinality(Counted') = Cardinality(Counted) + 1
<1> DEFINE f == [frame[nest] EXCEPT !.pc = pc]
<1>1. pc \in Places \ {"store"} /\ pc \notin Waits
  BY DEF Places, Held, Waits
<1>2. IsFrame(f) /\ f.pc = pc
  BY <1>1, LevelFacts, MovedFrame, ZenonT(30)
<1>3. frame' = [frame EXCEPT ![nest] = f] /\ nest' = nest
  BY DEF Goto
<1> HIDE DEF f
<1>4. /\ nest \in Levels /\ nest' \in Levels /\ ~(nest > nest')
      /\ \A l \in Levels : l > nest' /\ l # nest => l > nest
  BY <1>3, LevelFacts, SMT
<1>5. FrameInv' /\ frame'[nest] = f /\ \A l \in Levels : l # nest => frame'[l] = frame[l]
  BY <1>1, <1>2, <1>3, <1>4, FrameChanged DEF IInv
<1> QED
  BY <1>2, <1>4, <1>5, HoldersChange

LEMMA SeizeEndStep ==
  ASSUME IInv, SeizeEnd
  PROVE  IInv'
<1>1. frame[nest].pc = "free" /\ frame[nest].pc \in Held /\ Done
      /\ Inactive' = Inactive + 1 /\ number' = number /\ Pending' = Pending
  BY DEF SeizeEnd, At, Held
<1>2. /\ Len(Pending) \in Nat /\ Inactive \in Nat /\ number \in Nat
      /\ Pending \in Seq(Nat)
  BY SMT DEF IInv, MessageTypes
<1>3. /\ FrameInv' /\ message' \in [Levels -> Nat]
      /\ Cardinality(Holding) \in Nat
      /\ Cardinality(Holding') = Cardinality(Holding) - 1
      /\ Cardinality(Counted') = Cardinality(Counted)
  BY <1>1, Ends
<1> QED
  BY <1>1, <1>2, <1>3, SMT DEF IInv, MessageTypes, BuffersAccounted

LEMMA SubmitAllocateStep ==
  ASSUME IInv, SubmitAllocate
  PROVE  IInv'
<1>1. /\ frame[nest].pc = "client" /\ frame[nest].pc \notin Held
      /\ number' = number /\ Pending' = Pending
  BY DEF SubmitAllocate, At, Held
<1>2. /\ Len(Pending) \in Nat /\ Inactive \in Nat /\ number \in Nat
      /\ Pending \in Seq(Nat)
  BY SMT DEF IInv, MessageTypes
<1>3. CASE NoBuffer /\ Done /\ UNCHANGED Inactive
  <2>1. Quiet
    BY <1>1, <1>3 DEF Quiet, Done, IInv, MessageTypes
  <2> QED
    BY <1>1, <1>3, <2>1, QuietFinish DEF Done
<1>4. CASE ~NoBuffer /\ Inactive' = Inactive - 1 /\ Goto("count") /\ UNCHANGED message
  <2>1. "count" \in Held
    BY DEF Held
  <2>2. /\ FrameInv' /\ Cardinality(Holding) \in Nat
        /\ Cardinality(Holding') = Cardinality(Holding) + 1
        /\ Cardinality(Counted') = Cardinality(Counted)
    BY <1>1, <1>4, <2>1, GoesOn
  <2>3. Inactive' \in Nat /\ Inactive' + 1 = Inactive
    BY <1>2, <1>4, SMT DEF NoBuffer
  <2>4. Inactive + Len(Pending) + Cardinality(Holding) = MaximumPending
    BY DEF IInv, BuffersAccounted
  <2>8. number = Len(Pending) + Cardinality(Counted)
    BY DEF IInv, BuffersAccounted
  <2>5. Inactive' + Len(Pending) + Cardinality(Holding') = MaximumPending
    <3>1. ASSUME NEW a \in Nat, NEW b \in Nat, NEW c \in Nat
          PROVE  a + b + (c + 1) = (a + 1) + b + c
      BY SMT
    <3>2. Inactive' + Len(Pending) + (Cardinality(Holding) + 1)
            = (Inactive' + 1) + Len(Pending) + Cardinality(Holding)
      BY <1>2, <2>2, <2>3, <3>1, SMT
    <3> QED
      BY <2>2, <2>3, <2>4, <3>2
  <2>6. BuffersAccounted'
    BY <1>1, <2>2, <2>5, <2>8 DEF BuffersAccounted
  <2>7. MessageTypes'
    BY <1>1, <1>4, <2>3 DEF IInv, MessageTypes
  <2> QED
    BY <2>2, <2>6, <2>7 DEF IInv
<1> QED
  BY <1>3, <1>4 DEF SubmitAllocate

LEMMA SubmitCountStep ==
  ASSUME IInv, SubmitCount, AtomicIncrement
  PROVE  IInv'
<1>1. frame[nest].pc # "store"
  BY LevelFacts DEF IsFrame
<1>2. /\ frame[nest].pc = "count" /\ frame[nest].pc \in Held /\ "link" \in Held
      /\ number' = number + 1 /\ Goto("link")
      /\ UNCHANGED <<Pending, Inactive, message>>
  BY <1>1 DEF SubmitCount, At, Held
<1>3. /\ Len(Pending) \in Nat /\ Inactive \in Nat /\ number \in Nat
  BY SMT DEF IInv, MessageTypes
<1>4. /\ FrameInv' /\ Cardinality(Counted) \in Nat
      /\ Cardinality(Holding') = Cardinality(Holding)
      /\ Cardinality(Counted') = Cardinality(Counted) + 1
  BY <1>2, GoesOn
<1> QED
  BY <1>2, <1>3, <1>4, SMT DEF IInv, MessageTypes, BuffersAccounted

LEMMA SubmitLinkStep ==
  ASSUME IInv, SubmitLink
  PROVE  IInv'
<1>1. /\ frame[nest].pc = "link" /\ frame[nest].pc \in Held /\ Done
      /\ Pending' = Linked(frame[nest].op, message[nest])
      /\ number' = number /\ Inactive' = Inactive
  BY DEF SubmitLink, At, Held
<1>2. /\ Len(Pending) \in Nat /\ Inactive \in Nat /\ number \in Nat
      /\ Pending \in Seq(Nat) /\ message[nest] \in Nat
  BY LevelFacts, SMT DEF IInv, MessageTypes
<1>3. ASSUME NEW m \in Nat
      PROVE  /\ InFront(Pending, m) \in Seq(Nat) /\ Len(InFront(Pending, m)) = Len(Pending) + 1
             /\ Behind(Pending, m) \in Seq(Nat) /\ Len(Behind(Pending, m)) = Len(Pending) + 1
  BY <1>2, SMT DEF InFront, Behind
<1>4. Pending' \in Seq(Nat) /\ Len(Pending') = Len(Pending) + 1
  BY <1>1, <1>2, <1>3 DEF Linked
<1>5. /\ FrameInv' /\ message' \in [Levels -> Nat]
      /\ Cardinality(Holding) \in Nat /\ Cardinality(Counted) \in Nat
      /\ Cardinality(Holding') = Cardinality(Holding) - 1
      /\ Cardinality(Counted') = Cardinality(Counted) - 1
  BY <1>1, Ends
<1>6. /\ Inactive + Len(Pending) + Cardinality(Holding) = MaximumPending
      /\ number = Len(Pending) + Cardinality(Counted)
  BY DEF IInv, BuffersAccounted
<1>7. /\ Inactive + Len(Pending') + Cardinality(Holding') = MaximumPending
      /\ number = Len(Pending') + Cardinality(Counted')
  BY <1>2, <1>4, <1>5, <1>6, SMT
<1>8. BuffersAccounted'
  BY <1>1, <1>7 DEF BuffersAccounted
<1>9. MessageTypes'
  BY <1>1, <1>2, <1>4, <1>5 DEF MessageTypes
<1> QED
  BY <1>5, <1>8, <1>9 DEF IInv

LEMMA FlushSupportStep ==
  ASSUME IInv, Calls(0), FlushSupport, UNCHANGED <<nest, frame, message>>
  PROVE  IInv'
<1>1. /\ Inactive + Len(Pending) = MaximumPending
      /\ Cardinality(Holding) = 0 /\ Cardinality(Counted) = 0
  BY NobodyHolds
<1>2. Len(Pending) \in Nat /\ Inactive \in Nat
  BY SMT DEF IInv, MessageTypes
<1>3. FrameInv' /\ Holding' = Holding /\ Counted' = Counted
  BY DEF IInv, FrameInv, IsFrame, Holding, Counted
<1>4. /\ Inactive' = Inactive + Len(Pending) /\ Pending' = << >> /\ number' = 0
      /\ Len(Pending') = 0 /\ Pending' \in Seq(Nat)
  BY SMT DEF FlushSupport
<1> QED
  BY <1>1, <1>2, <1>3, <1>4, SMT DEF IInv, MessageTypes, BuffersAccounted

LEMMA CreateStep ==
  ASSUME IInv, Create
  PROVE  IInv'
<1>1. Cardinality(Holding) = 0 /\ Cardinality(Counted) = 0
  BY NobodyHolds DEF Create
<1>2. FrameInv' /\ Holding' = Holding /\ Counted' = Counted
  BY DEF Create, tqVars, threadVars, IInv, FrameInv, IsFrame, Holding, Counted
<1>3. /\ Inactive' = MaximumPending /\ Pending' = << >> /\ number' = 0
      /\ Len(Pending') = 0 /\ Pending' \in Seq(Nat) /\ message' = message
  BY SMT DEF Create
<1> QED
  BY <1>1, <1>2, <1>3, CoreMessageAssumption, SMT DEF IInv, MessageTypes, BuffersAccounted

-----------------------------------------------------------------------------
\* The calls that only look for a thread, and the steps that hand it something.

LEMMA CallStep ==
  ASSUME IInv, NEW lv \in Levels, NEW op, Calls(lv), Dequeue(lv, op), Quiet
  PROVE  IInv'
<1>1. frame[lv].pc \notin Held /\ (lv = nest \/ lv = nest + 1)
  BY LevelFacts, CallsLevel DEF Held
<1> QED
  BY <1>1, QuietDequeue

LEMMA HandStep ==
  ASSUME IInv, SubmitHand \/ SubmitTest \/ BroadcastCopy \/ BroadcastNext
               \/ BroadcastEnd \/ DeleteStatus \/ DeleteNext \/ DeleteEnd
  PROVE  IInv'
<1>1. frame[nest].pc \notin Held
  BY DEF SubmitHand, SubmitTest, BroadcastCopy, BroadcastNext, BroadcastEnd,
     DeleteStatus, DeleteNext, DeleteEnd, At, Held
<1>2. message' = message \/ Done
  BY SMTT(30) DEF SubmitHand, SubmitTest, BroadcastCopy, BroadcastNext, BroadcastEnd,
     DeleteStatus, DeleteNext, DeleteEnd, messageVars
<1>3. UNCHANGED <<number, Pending, Inactive>>
  BY DEF SubmitHand, SubmitTest, BroadcastCopy, BroadcastNext, BroadcastEnd,
     DeleteStatus, DeleteNext, DeleteEnd, messageVars
<1>4. Quiet
  BY <1>2, <1>3, SMTT(30) DEF Quiet, Done, IInv, MessageTypes
<1>5. Finish \/ Goto("client") \/ (\E op : Dequeue(nest, op))
  BY DEF SubmitHand, SubmitTest, BroadcastCopy, BroadcastNext, BroadcastEnd,
     DeleteStatus, DeleteNext, DeleteEnd, Done
<1>6. "client" \in Places \ {"store"} /\ "client" \notin Held /\ "client" \notin Waits
  BY DEF Places, Held, Waits
<1> QED
  BY <1>1, <1>4, <1>5, <1>6, QuietFinish, QuietGoto, QuietDequeue, LevelFacts, SMTT(30)

LEMMA IInvInit == Init => IInv
<1> SUFFICES ASSUME Init PROVE IInv
  OBVIOUS
<1>1. 0 \in Levels
  BY BlockingAssumption, SMT DEF Levels
<1>2. nest = 0 /\ frame = [l \in Levels |-> IdleFrame]
  BY DEF Init, TqInit, ThreadInit
<1>3. \A l \in Levels : frame[l] = IdleFrame /\ frame[l].pc = "idle" /\ IsFrame(frame[l])
  BY <1>2, IdleIsFrame
<1>4. FrameInv
  BY <1>1, <1>2, <1>3 DEF FrameInv, Waits
<1>5. Holding = {} /\ Counted = {}
  BY <1>3 DEF Holding, Counted
<1>6. Cardinality(Holding) = 0 /\ Cardinality(Counted) = 0
  BY <1>5, FS_EmptySet
<1>7. MessageTypes /\ Len(Pending) = 0
  BY CoreMessageAssumption, SMT DEF Init, MessageTypes
<1> QED
  BY <1>4, <1>6, <1>7, CoreMessageAssumption, SMT DEF Init, IInv, BuffersAccounted

LEMMA IInvNext ==
  ASSUME AtomicIncrement, IInv, [Next]_vars
  PROVE  IInv'
<1>1. CASE UNCHANGED vars
  BY <1>1 DEF vars, tqVars, threadVars, messageVars, IInv, FrameInv, IsFrame,
     MessageTypes, BuffersAccounted, Holding, Counted
<1>2. CASE TqNext /\ UNCHANGED messageVars
  BY <1>2, TqNextQuiet
<1>3. CASE MessageStep
  BY <1>3, SeizeEndStep, SubmitAllocateStep, SubmitCountStep, SubmitLinkStep, HandStep
     DEF MessageStep
<1>4. ASSUME NEW wait \in BOOLEAN, NEW timed \in BOOLEAN, Seize(wait, timed)
      PROVE  IInv'
  BY <1>4, SeizeStep
<1>5. ASSUME NEW lv \in Levels, NEW op, NEW m \in Messages,
             Submit(lv, op, m) \/ Broadcast(lv, m)
      PROVE  IInv'
  <2>1. m \in Nat
    BY CoreMessageAssumption
  <2>2. Quiet
    BY <1>5, <2>1 DEF Submit, Broadcast, Quiet, IInv, MessageTypes
  <2>3. Calls(lv) /\ \E o : Dequeue(lv, o)
    BY <1>5 DEF Submit, Broadcast
  <2> QED
    BY <2>2, <2>3, CallStep
<1>6. CASE Flush
  BY <1>6, FlushSupportStep DEF Flush, tqVars, threadVars
<1>7. CASE Delete
  <2>1. Calls(0) /\ message' = message
    BY <1>7 DEF Delete
  <2>2. CASE FlushSupport /\ UNCHANGED tqVars
    BY <2>1, <2>2, FlushSupportStep DEF tqVars, threadVars
  <2>3. CASE Dequeue(0, "flush") /\ UNCHANGED <<number, Pending, Inactive>>
    <3>1. Quiet
      BY <2>1, <2>3 DEF Quiet, IInv, MessageTypes
    <3> QED
      BY <2>1, <2>3, <3>1, CallStep, LevelFacts
  <2> QED
    BY <1>7, <2>2, <2>3 DEF Delete
<1>8. CASE Create
  BY <1>8, CreateStep
<1> QED
  BY <1>1, <1>2, <1>3, <1>4, <1>5, <1>6, <1>7, <1>8, SMTT(30) DEF Next

\* Where number_of_pending_messages += 1 is one instruction, every buffer of a
\* message queue is on one of its chains or with one call, and the count is the
\* length of Pending_messages but for messages that are being linked, however
\* sends from interrupt handlers nest inside sends, receives, flushes and
\* deletes (_CORE_message_queue_Submit, Seize, Flush_support).
THEOREM NoBufferLost ==
  ASSUME AtomicIncrement
  PROVE  Spec => []BuffersAccounted
<1>1. IInv /\ [Next]_vars => IInv'
  BY IInvNext
<1>2. IInv => BuffersAccounted
  BY DEF IInv
<1> QED
  BY <1>1, <1>2, IInvInit, PTL DEF Spec

\* A receive that finds the count positive finds a message to take, so that
\* _CORE_message_queue_Seize never takes one off an empty chain.
THEOREM ReceiveFindsMessage ==
  ASSUME AtomicIncrement
  PROVE  Spec => [](Calls(0) /\ number # 0 => Pending # << >>)
<1>1. IInv /\ [Next]_vars => IInv'
  BY IInvNext
<1>2. IInv => (Calls(0) /\ number # 0 => Pending # << >>)
  BY NobodyHolds
<1> QED
  BY <1>1, <1>2, IInvInit, PTL DEF Spec

-----------------------------------------------------------------------------
(***************************************************************************)
(* Who waits.  A thread that waits is on the thread queue, on its way to   *)
(* it, or about to be made ready; and nobody waits while there is a        *)
(* message.                                                                *)
(***************************************************************************)

\* Frame f is about to make thread t ready; it is that of a send that has
\* found nobody waiting.
Wakes(f, t) == f.thread = t /\ f.pc \in {"remove", "unblock"}
Adds(f) ==
  \/ f.pc \in {"count", "store", "link"}
  \/ /\ f.op \in {"send", "urgent"}
     /\ f.pc = "client" \/ (f.pc = "dequeued" /\ f.thread = NULL)

Approach == {"timer", "enqueue", "flash"}
Waking(t) == \E l \in Levels : Wakes(frame[l], t)
Approaching(t) == executing = t /\ frame[0].pc \in Approach

\* Thread t is on the queue q, as the first of a group in header h.
Has(q, t) ==
  \E h \in Headers : \E i \in DOMAIN q[h] : \E j \in DOMAIN q[h][i] : q[h][i][j] = t
Leads(q, h, t) == \E i \in DOMAIN q[h] : q[h][i][1] = t

Groups == Seq(Threads) \ {<< >>}
Chains == [Headers -> Seq(Groups)]
Frames ==
  [pc : Places, op : Ops \cup {"none", "timeout"}, thread : Threads \cup {NULL},
   search : Threads \cup {NULL}, after : {"idle", "dequeued", "blocked"},
   timed : BOOLEAN, value : Nat]

WaitTypes ==
  /\ state \in [Threads -> {"ready", "waiting"}]
  /\ executing \in Threads \cup {NULL}
  /\ nest \in Levels
  /\ frame \in [Levels -> Frames]
  /\ queue \in Chains
  /\ sync_state \in SyncStates
  /\ priority \in [Threads -> Priorities]
  /\ number \in Nat

\* What the frame of level l may be while e executes.
Fits(f, l, e) ==
  /\ l > 0 => f.pc \notin Waits /\ f.op # "flush"
  /\ f.pc \in Waits => f.thread = e /\ e \in Threads /\ f.op = "none"
  /\ f.pc = "flash" => f.search \in Threads
  /\ f.pc \in {"remove", "unblock", "timeout", "sync", "mark", "expired", "extract"}
       => f.thread \in Threads
  /\ f.op = "flush" =>
       /\ f.pc \in {"remove", "unblock", "dequeued", "client"}
       /\ f.pc \in {"remove", "unblock"} => f.after = "dequeued"

FramesFit ==
  \A l \in Levels :
    Fits(frame[l], l, executing) /\ (l > nest => frame[l] = IdleFrame)

\* Nobody who waits is forgotten.
WaitersKnown ==
  \A t \in Threads : state[t] = "waiting" =>
    Has(queue, t) \/ Approaching(t) \/ Waking(t)

\* A search that will go on after its flash is at the first of a group.
SearchLeads ==
  frame[0].pc = "flash" /\ state[frame[0].search] = "waiting" =>
    Waking(frame[0].search) \/ Leads(queue, MyHeader, frame[0].search)

\* There is no message, and none on its way, for those who wait for one.
NoneForWaiters ==
  sync_state = "NOTHING_HAPPENED" \/ (\E t : Has(queue, t)) =>
    number = 0 /\ \A l \in Levels : ~Adds(frame[l])

\* The delete is done with the threads when nobody is left.
FlushEmpties ==
  frame[0].op = "flush" /\ frame[0].pc = "dequeued" /\ frame[0].thread = NULL =>
    ~\E t : Has(queue, t)

\* No receive starts on a queue that is gone.
ClosedForWaiters == ~open => frame[0].pc \notin Waits

WaitInv == /\ WaitTypes /\ FramesFit /\ WaitersKnown /\ SearchLeads
           /\ NoneForWaiters /\ FlushEmpties /\ ClosedForWaiters
           /\ DeleteLeavesNobody

-----------------------------------------------------------------------------
\* Sequences with an element more or less.

LEMMA DroppedFacts ==
  ASSUME NEW S, NEW s \in Seq(S), NEW i \in 1 .. Len(s)
  PROVE  /\ Dropped(s, i) \in Seq(S)
         /\ Len(Dropped(s, i)) = Len(s) - 1
         /\ \A k \in 1 .. Len(s) - 1 :
              Dropped(s, i)[k] = IF k < i THEN s[k] ELSE s[k + 1]
<1> DEFINE a == SubSeq(s, 1, i - 1)
           b == SubSeq(s, i + 1, Len(s))
<1>1. Len(s) \in Nat /\ i \in Nat /\ 1 <= i /\ i <= Len(s)
  BY SMT
<1>2. a \in Seq(S) /\ Len(a) = i - 1 /\ \A k \in 1 .. i - 1 : a[k] = s[k]
  BY <1>1, SMT
<1>3. b \in Seq(S) /\ Len(b) = Len(s) - i /\ \A k \in 1 .. Len(s) - i : b[k] = s[k + i]
  BY <1>1, SMT
<1> HIDE DEF a, b
<1>4. a \o b \in Seq(S) /\ Len(a \o b) = Len(a) + Len(b)
      /\ \A k \in 1 .. Len(a) + Len(b) :
           (a \o b)[k] = IF k <= Len(a) THEN a[k] ELSE b[k - Len(a)]
  BY <1>2, <1>3, ConcatProperties
<1>5. Len(a) + Len(b) = Len(s) - 1
  BY <1>1, <1>2, <1>3, SMT
<1>6. ASSUME NEW k \in 1 .. Len(s) - 1
      PROVE  (a \o b)[k] = IF k < i THEN s[k] ELSE s[k + 1]
  <2>1. CASE k < i
    BY <2>1, <1>1, <1>2, <1>4, <1>5, SMT
  <2>2. CASE ~(k < i)
    <3>1. (a \o b)[k] = b[k - (i - 1)]
      BY <2>2, <1>1, <1>2, <1>4, <1>5, SMTT(30)
    <3>2. k - (i - 1) \in 1 .. Len(s) - i /\ (k - (i - 1)) + i = k + 1
      BY <2>2, <1>1, SMT
    <3> QED
      BY <2>2, <3>1, <3>2, <1>3
  <2> QED
    BY <2>1, <2>2
<1> QED
  BY <1>4, <1>5, <1>6 DEF Dropped, a, b

LEMMA InsertedFacts ==
  ASSUME NEW S, NEW s \in Seq(S), NEW i \in 1 .. Len(s) + 1, NEW x \in S
  PROVE  /\ InsertAt(s, i, x) \in Seq(S)
         /\ Len(InsertAt(s, i, x)) = Len(s) + 1
         /\ InsertAt(s, i, x)[i] = x
         /\ \A k \in 1 .. Len(s) :
              s[k] = InsertAt(s, i, x)[IF k < i THEN k ELSE k + 1]
<1> DEFINE a == SubSeq(s, 1, i - 1)
           b == SubSeq(s, i, Len(s))
           c == a \o <<x>>
<1>1. Len(s) \in Nat /\ i \in Nat /\ 1 <= i /\ i <= Len(s) + 1
  BY SMT
<1>2. a \in Seq(S) /\ Len(a) = i - 1 /\ \A k \in 1 .. i - 1 : a[k] = s[k]
  BY <1>1, SMT
<1>3. b \in Seq(S) /\ Len(b) = (Len(s) - i) + 1
      /\ \A k \in 1 .. (Len(s) - i) + 1 : b[k] = s[(k + i) - 1]
  BY <1>1, SMT
<1> HIDE DEF a, b
<1>4. c \in Seq(S) /\ Len(c) = i /\ c[i] = x /\ \A k \in 1 .. i - 1 : c[k] = s[k]
  BY <1>1, <1>2, SMTT(30)
<1> HIDE DEF c
<1>5. c \o b \in Seq(S) /\ Len(c \o b) = Len(c) + Len(b)
      /\ \A k \in 1 .. Len(c) + Len(b) :
           (c \o b)[k] = IF k <= Len(c) THEN c[k] ELSE b[k - Len(c)]
  BY <1>3, <1>4, ConcatProperties, SMT
<1>6. Len(c) + Len(b) = Len(s) + 1
  BY <1>1, <1>3, <1>4, SMT
<1>7. (c \o b)[i] = x
  BY <1>1, <1>4, <1>5, <1>6, SMT
<1>8. ASSUME NEW k \in 1 .. Len(s)
      PROVE  s[k] = (c \o b)[IF k < i THEN k ELSE k + 1]
  <2>1. CASE k < i
    BY <2>1, <1>1, <1>4, <1>5, <1>6, SMT
  <2>2. CASE ~(k < i)
    <3>1. (c \o b)[k + 1] = b[(k + 1) - i]
      BY <2>2, <1>1, <1>4, <1>5, <1>6, SMT
    <3>2. (k + 1) - i \in 1 .. (Len(s) - i) + 1 /\ (((k + 1) - i) + i) - 1 = k
      BY <2>2, <1>1, SMT
    <3> QED
      BY <2>2, <3>1, <3>2, <1>3
  <2> QED
    BY <2>1, <2>2
<1>9. InsertAt(s, i, x) = c \o b
  BY DEF InsertAt, a, b, c
<1> QED
  BY <1>5, <1>6, <1>7, <1>8, <1>9

-----------------------------------------------------------------------------
\* The thread queue.

LEMMA HeaderFacts ==
  ASSUME NEW h \in Headers
  PROVE  h \in Nat
<1>1. CASE h = 0
  BY <1>1
<1>2. CASE \E p \in Priorities : h = p \div PerHeader
  BY <1>2, ThreadQueueAssumption, SMT
<1> QED
  BY <1>1, <1>2 DEF Headers

\* Groups are not empty and hold threads.
LEMMA ChainFacts ==
  ASSUME NEW q \in Chains, NEW h \in Headers
  PROVE  /\ q[h] \in Seq(Groups) /\ Len(q[h]) \in Nat
         /\ DOMAIN q[h] = 1 .. Len(q[h])
         /\ \A i \in DOMAIN q[h] :
              /\ q[h][i] \in Groups /\ q[h][i] \in Seq(Threads)
              /\ Len(q[h][i]) \in Nat \ {0}
              /\ DOMAIN q[h][i] = 1 .. Len(q[h][i])
              /\ q[h][i][1] \in Threads
<1>1. q[h] \in Seq(Groups)
  BY DEF Chains
<1>2. Len(q[h]) \in Nat /\ DOMAIN q[h] = 1 .. Len(q[h])
  BY <1>1, SMT
<1>3. ASSUME NEW i \in DOMAIN q[h]
      PROVE  /\ q[h][i] \in Groups /\ q[h][i] \in Seq(Threads)
             /\ Len(q[h][i]) \in Nat \ {0}
             /\ DOMAIN q[h][i] = 1 .. Len(q[h][i])
             /\ q[h][i][1] \in Threads
  <2>1. q[h][i] \in Groups
    BY <1>1, <1>2, SMT
  <2> DEFINE g == q[h][i]
  <2>2. g \in Seq(Threads) /\ g # << >>
    BY <2>1 DEF Groups
  <2> HIDE DEF g
  <2>3. Len(g) \in Nat \ {0} /\ DOMAIN g = 1 .. Len(g) /\ g[1] \in Threads
    BY <2>2, SMT
  <2> QED
    BY <2>1, <2>2, <2>3 DEF g
<1> QED
  BY <1>1, <1>2, <1>3

LEMMA OneIsGroup ==
  ASSUME NEW t \in Threads
  PROVE  <<t>> \in Groups /\ DOMAIN <<t>> = 1 .. 1 /\ <<t>>[1] = t
  BY SMT DEF Groups

\* All of chain s but t is on chain c; all of c is on s.
Covers(c, s, t) ==
  \A i \in DOMAIN s : \A j \in DOMAIN s[i] : s[i][j] # t =>
    \E m \in DOMAIN c : \E n \in DOMAIN c[m] : c[m][n] = s[i][j]
Within(c, s) ==
  \A m \in DOMAIN c : \A n \in DOMAIN c[m] :
    \E i \in DOMAIN s : \E j \in DOMAIN s[i] : s[i][j] = c[m][n]

\* q2 has the chain c for the header h, and is otherwise q: it has on it whom
\* q had on it, but for t.
LEMMA KeepsOthers ==
  ASSUME NEW q \in Chains, NEW h \in Headers, NEW c \in Seq(Groups), NEW q2, NEW t,
         q2 = [q EXCEPT ![h] = c],
         Covers(c, q[h], t)
  PROVE  \A x : x # t /\ Has(q, x) => Has(q2, x)
<1>1. /\ q2[h] = c
      /\ \A k \in Headers : k # h => q2[k] = q[k]
  BY DEF Chains
<1> SUFFICES ASSUME NEW x, x # t, Has(q, x) PROVE Has(q2, x)
  OBVIOUS
<1>2. PICK k \in Headers : \E i \in DOMAIN q[k] : \E j \in DOMAIN q[k][i] : q[k][i][j] = x
  BY DEF Has
<1>3. CASE k # h
  <2>1. q2[k] = q[k]
    BY <1>1, <1>3
  <2> QED
    BY <1>2, <2>1 DEF Has
<1>4. CASE k = h
  <2>1. \E m \in DOMAIN c : \E n \in DOMAIN c[m] : c[m][n] = x
    BY <1>2, <1>4, SMT DEF Covers
  <2> QED
    BY <2>1, <1>1, SMT DEF Has
<1> QED
  BY <1>3, <1>4

\* The same the other way round.
LEMMA AddsNobody ==
  ASSUME NEW q \in Chains, NEW h \in Headers, NEW c \in Seq(Groups), NEW q2,
         q2 = [q EXCEPT ![h] = c],
         Within(c, q[h])
  PROVE  \A x : Has(q2, x) => Has(q, x)
<1>1. /\ q2[h] = c
      /\ \A k \in Headers : k # h => q2[k] = q[k]
  BY DEF Chains
<1> SUFFICES ASSUME NEW x, Has(q2, x) PROVE Has(q, x)
  OBVIOUS
<1>2. PICK k \in Headers : \E i \in DOMAIN q2[k] : \E j \in DOMAIN q2[k][i] : q2[k][i][j] = x
  BY DEF Has
<1>3. CASE k # h
  <2>1. q2[k] = q[k]
    BY <1>1, <1>3
  <2> QED
    BY <1>2, <2>1, SMT DEF Has
<1>4. CASE k = h
  <2>1. \E m \in DOMAIN c : \E n \in DOMAIN c[m] : c[m][n] = x
    BY <1>1, <1>2, <1>4, SMT
  <2>2. \E i \in DOMAIN q[h] : \E j \in DOMAIN q[h][i] : q[h][i][j] = x
    BY <2>1, SMT DEF Within
  <2> QED
    BY <2>2 DEF Has
<1> QED
  BY <1>3, <1>4

\* Chain s without the thread t, which is in place p of group i.
ChainWithout(s, i, p) ==
  IF Len(s[i]) = 1 THEN Dropped(s, i) ELSE [s EXCEPT ![i] = Dropped(s[i], p)]

LEMMA WithoutGroup ==
  ASSUME NEW s \in Seq(Groups), NEW i \in DOMAIN s, NEW p \in DOMAIN s[i],
         NEW t, s[i][p] = t, Len(s[i]) = 1, NEW c, c = Dropped(s, i)
  PROVE  /\ c \in Seq(Groups)
         /\ \A m \in DOMAIN s : \A n \in DOMAIN s[m] : s[m][n] # t =>
              \E k \in DOMAIN c : c[k] = s[m]
         /\ \A k \in DOMAIN c : \E m \in DOMAIN s : c[k] = s[m]
<1>1. Len(s) \in Nat /\ DOMAIN s = 1 .. Len(s) /\ i \in 1 .. Len(s)
  BY SMTT(30)
<1>2. /\ c \in Seq(Groups) /\ Len(c) = Len(s) - 1
      /\ \A k \in 1 .. Len(s) - 1 : c[k] = IF k < i THEN s[k] ELSE s[k + 1]
  BY <1>1, DroppedFacts
<1>3. DOMAIN c = 1 .. Len(s) - 1
  BY <1>2, SMT
<1>4. s[i] \in Seq(Threads)
  BY <1>1, SMT DEF Groups
<1>5. DOMAIN s[i] = 1 .. 1
  BY <1>4, SMT
<1>6. ASSUME NEW m \in DOMAIN s, NEW n \in DOMAIN s[m], s[m][n] # t
      PROVE  \E k \in DOMAIN c : c[k] = s[m]
  <2>1. m # i
    <3>1. SUFFICES ASSUME m = i PROVE FALSE
      OBVIOUS
    <3>2. n = 1 /\ p = 1
      BY <3>1, <1>5, SMT
    <3> QED
      BY <3>1, <3>2, <1>6
  <2>2. CASE m < i
    <3>1. m \in 1 .. Len(s) - 1
      BY <2>2, <1>1, SMT
    <3> QED
      BY <2>2, <3>1, <1>2, <1>3
  <2>3. CASE m > i
    <3>1. m - 1 \in 1 .. Len(s) - 1 /\ ~(m - 1 < i) /\ (m - 1) + 1 = m
      BY <2>3, <1>1, SMT
    <3> QED
      BY <3>1, <1>2, <1>3
  <2> QED
    BY <2>1, <2>2, <2>3, <1>1, SMT
<1>7. ASSUME NEW k \in DOMAIN c PROVE \E m \in DOMAIN s : c[k] = s[m]
  <2>1. k \in DOMAIN s /\ k + 1 \in DOMAIN s
    BY <1>1, <1>3, SMT
  <2> QED
    BY <2>1, <1>2, <1>3, SMTT(30)
<1> QED
  BY <1>2, <1>6, <1>7

LEMMA WithoutMember ==
  ASSUME NEW g \in Seq(Threads), NEW p \in DOMAIN g, NEW t, g[p] = t,
         Len(g) # 1, NEW d, d = Dropped(g, p)
  PROVE  /\ d \in Groups
         /\ \A n \in DOMAIN g : g[n] # t => \E k \in DOMAIN d : d[k] = g[n]
         /\ \A k \in DOMAIN d : \E n \in DOMAIN g : d[k] = g[n]
         /\ g[1] # t => d[1] = g[1]
<1>1. Len(g) \in Nat /\ DOMAIN g = 1 .. Len(g) /\ p \in 1 .. Len(g)
  BY SMTT(30)
<1>2. /\ d \in Seq(Threads) /\ Len(d) = Len(g) - 1
      /\ \A k \in 1 .. Len(g) - 1 : d[k] = IF k < p THEN g[k] ELSE g[k + 1]
  BY <1>1, DroppedFacts
<1>3. DOMAIN d = 1 .. Len(g) - 1 /\ 1 \in DOMAIN d
  BY <1>1, <1>2, SMT
<1>4. d # << >>
  BY <1>1, <1>2, SMT
<1>5. ASSUME NEW n \in DOMAIN g, g[n] # t
      PROVE  \E k \in DOMAIN d : d[k] = g[n]
  <2>1. n # p
    BY <1>5
  <2>2. CASE n < p
    <3>1. n \in 1 .. Len(g) - 1
      BY <2>2, <1>1, SMT
    <3> QED
      BY <2>2, <3>1, <1>2, <1>3
  <2>3. CASE n > p
    <3>1. n - 1 \in 1 .. Len(g) - 1 /\ ~(n - 1 < p) /\ (n - 1) + 1 = n
      BY <2>3, <1>1, SMT
    <3> QED
      BY <3>1, <1>2, <1>3
  <2> QED
    BY <2>1, <2>2, <2>3, <1>1, SMT
<1>6. ASSUME NEW k \in DOMAIN d PROVE \E n \in DOMAIN g : d[k] = g[n]
  <2>1. k \in DOMAIN g /\ k + 1 \in DOMAIN g
    BY <1>1, <1>3, SMT
  <2> QED
    BY <2>1, <1>2, <1>3
<1>7. g[1] # t => d[1] = g[1]
  <2>1. SUFFICES ASSUME g[1] # t PROVE d[1] = g[1]
    OBVIOUS
  <2>2. p # 1
    BY <2>1
  <2>3. 1 < p
    BY <2>2, <1>1, SMT
  <2> QED
    BY <2>3, <1>2, <1>3
<1> QED
  BY <1>2, <1>4, <1>5, <1>6, <1>7 DEF Groups

\* What is said of a chain c that took the place of s, t being taken out.
Thinned(c, s, t) ==
  /\ c \in Seq(Groups)
  /\ Covers(c, s, t) /\ Within(c, s)
  /\ \A m \in DOMAIN s : s[m][1] # t => \E k \in DOMAIN c : c[k][1] = s[m][1]

LEMMA WithoutThins ==
  ASSUME NEW s \in Seq(Groups), NEW i \in DOMAIN s, NEW p \in DOMAIN s[i],
         NEW t, s[i][p] = t
  PROVE  Thinned(ChainWithout(s, i, p), s, t)
<1> DEFINE c == ChainWithout(s, i, p)
<1>1. ASSUME NEW m \in DOMAIN s
      PROVE  s[m] \in Seq(Threads) /\ 1 \in DOMAIN s[m]
  <2>1. s[m] \in Groups
    BY SMT
  <2> DEFINE g == s[m]
  <2>2. g \in Seq(Threads) /\ g # << >>
    BY <2>1 DEF Groups
  <2> HIDE DEF g
  <2>3. 1 \in DOMAIN g
    BY <2>2, SMT
  <2> QED
    BY <2>2, <2>3 DEF g
<1>2. CASE Len(s[i]) = 1
  <2>1. c = Dropped(s, i)
    BY <1>2 DEF ChainWithout
  <2> HIDE DEF c
  <2>2. /\ c \in Seq(Groups)
        /\ \A m \in DOMAIN s : \A n \in DOMAIN s[m] : s[m][n] # t =>
              \E k \in DOMAIN c : c[k] = s[m]
        /\ \A k \in DOMAIN c : \E m \in DOMAIN s : c[k] = s[m]
    BY <1>2, <2>1, WithoutGroup, SMT
  <2>3. ASSUME NEW m \in DOMAIN s, NEW n \in DOMAIN s[m], s[m][n] # t
        PROVE  \E k \in DOMAIN c : \E j \in DOMAIN c[k] : c[k][j] = s[m][n]
    <3>1. PICK k \in DOMAIN c : c[k] = s[m]
      BY <2>2, <2>3
    <3> QED
      BY <3>1
  <2>4. ASSUME NEW k \in DOMAIN c, NEW j \in DOMAIN c[k]
        PROVE  \E m \in DOMAIN s : \E n \in DOMAIN s[m] : s[m][n] = c[k][j]
    <3>1. PICK m \in DOMAIN s : c[k] = s[m]
      BY <2>2
    <3> QED
      BY <3>1
  <2>5. ASSUME NEW m \in DOMAIN s, s[m][1] # t
        PROVE  \E k \in DOMAIN c : c[k][1] = s[m][1]
    <3>1. PICK k \in DOMAIN c : c[k] = s[m]
      BY <1>1, <2>2, <2>5
    <3> QED
      BY <3>1
  <2> QED
    BY <2>2, <2>3, <2>4, <2>5 DEF Thinned, Covers, Within, c
<1>3. CASE Len(s[i]) # 1
  <2> DEFINE d == Dropped(s[i], p)
  <2>1. c = [s EXCEPT ![i] = d]
    BY <1>3 DEF ChainWithout
  <2> DEFINE g == s[i]
  <2>2. /\ d \in Groups
        /\ \A n \in DOMAIN g : g[n] # t => \E k \in DOMAIN d : d[k] = g[n]
        /\ \A k \in DOMAIN d : \E n \in DOMAIN g : d[k] = g[n]
        /\ g[1] # t => d[1] = g[1]
    <3>1. g \in Seq(Threads) /\ p \in DOMAIN g /\ g[p] = t /\ Len(g) # 1
      BY <1>1, <1>3
    <3> HIDE DEF g
    <3>2. d = Dropped(g, p)
      BY DEF g
    <3> HIDE DEF d
    <3> QED
      BY <3>1, <3>2, WithoutMember, SMT
  <2> HIDE DEF c, d, g
  <2>3. c \in Seq(Groups) /\ DOMAIN c = DOMAIN s
    BY <2>1, <2>2, SMT
  <2>4. c[i] = d /\ \A m \in DOMAIN s : m # i => c[m] = s[m]
    BY <2>1
  <2>5. ASSUME NEW m \in DOMAIN s, NEW n \in DOMAIN s[m], s[m][n] # t
        PROVE  \E k \in DOMAIN c : \E j \in DOMAIN c[k] : c[k][j] = s[m][n]
    <3>1. CASE m # i
      BY <3>1, <2>3, <2>4
    <3>2. CASE m = i
      <4>1. \E j \in DOMAIN d : d[j] = s[m][n]
        BY <3>2, <2>2, <2>5 DEF g
      <4> QED
        BY <4>1, <2>3, <2>4
    <3> QED
      BY <3>1, <3>2
  <2>6. ASSUME NEW k \in DOMAIN c, NEW j \in DOMAIN c[k]
        PROVE  \E m \in DOMAIN s : \E n \in DOMAIN s[m] : s[m][n] = c[k][j]
    <3>1. CASE k # i
      BY <3>1, <2>3, <2>4
    <3>2. CASE k = i
      <4>1. j \in DOMAIN d /\ c[k][j] = d[j]
        BY <3>2, <2>4
      <4>2. \E n \in DOMAIN s[i] : s[i][n] = d[j]
        BY <4>1, <2>2 DEF g
      <4> QED
        BY <4>1, <4>2
    <3> QED
      BY <3>1, <3>2
  <2>7. ASSUME NEW m \in DOMAIN s, s[m][1] # t
        PROVE  \E k \in DOMAIN c : c[k][1] = s[m][1]
    <3>1. CASE m # i
      BY <3>1, <2>3, <2>4
    <3>2. CASE m = i
      <4>1. d[1] = s[i][1]
        BY <3>2, <2>2, <2>7 DEF g
      <4> QED
        BY <3>2, <4>1, <2>3, <2>4
    <3> QED
      BY <3>1, <3>2
  <2> QED
    BY <2>3, <2>5, <2>6, <2>7 DEF Thinned, Covers, Within, c
<1> QED
  BY <1>2, <1>3

\* q2 is the queue q without t: the others stay, and so do those who head groups.
Released(q2, q, t) ==
  /\ q2 \in Chains
  /\ \A x : x # t /\ Has(q, x) => Has(q2, x)
  /\ \A x : Has(q2, x) => Has(q, x)
  /\ \A h \in Headers : \A x : x # t /\ Leads(q, h, x) => Leads(q2, h, x)

LEMMA ThinnedReleases ==
  ASSUME NEW q \in Chains, NEW h \in Headers, NEW c, NEW t, Thinned(c, q[h], t)
  PROVE  Released([q EXCEPT ![h] = c], q, t)
<1> DEFINE q2 == [q EXCEPT ![h] = c]
<1>1. c \in Seq(Groups)
  BY DEF Thinned
<1>2. q2 \in Chains /\ q2[h] = c /\ \A k \in Headers : k # h => q2[k] = q[k]
  BY <1>1 DEF Chains
<1>3. q2 = [q EXCEPT ![h] = c]
  OBVIOUS
<1> HIDE DEF q2
<1>4. \A x : x # t /\ Has(q, x) => Has(q2, x)
  <2>1. Covers(c, q[h], t)
    BY DEF Thinned
  <2> QED
    BY <1>1, <1>3, <2>1, KeepsOthers
<1>5. \A x : Has(q2, x) => Has(q, x)
  <2>1. Within(c, q[h])
    BY DEF Thinned
  <2> QED
    BY <1>1, <1>3, <2>1, AddsNobody
<1>6. ASSUME NEW k \in Headers, NEW x, x # t, Leads(q, k, x)
      PROVE  Leads(q2, k, x)
  <2>1. PICK i \in DOMAIN q[k] : q[k][i][1] = x
    BY <1>6 DEF Leads
  <2>2. CASE k # h
    <3>1. q2[k] = q[k]
      BY <2>2, <1>2
    <3> QED
      BY <2>1, <3>1 DEF Leads
  <2>3. CASE k = h
    <3>1. \E m \in DOMAIN c : c[m][1] = x
      BY <2>1, <2>3, <1>6 DEF Thinned
    <3> QED
      BY <3>1, <2>3, <1>2 DEF Leads
  <2> QED
    BY <2>2, <2>3
<1> QED
  BY <1>2, <1>4, <1>5, <1>6 DEF Released, q2

\* The thread queue after _Thread_queue_Dequeue or _Thread_queue_Extract.
LEMMA UnlinkedReleases ==
  ASSUME queue \in Chains, NEW t
  PROVE  Released(Unlinked(t), queue, t)
<1>1. CASE t \notin Queued
  BY <1>1 DEF Unlinked, Released
<1>2. CASE t \in Queued
  <2> DEFINE h == HeaderOf(t)
             i == GroupWith(h, t)
             p == PlaceIn(queue[h][i], t)
  <2>1. h \in Headers /\ t \in Members(h)
    <3>1. \E k \in Headers : t \in Members(k)
      BY <1>2 DEF Queued
    <3> QED
      BY <3>1 DEF HeaderOf
  <2> HIDE DEF h
  <2>2. i \in DOMAIN queue[h] /\ \E j \in DOMAIN queue[h][i] : queue[h][i][j] = t
    <3>1. \E k \in DOMAIN queue[h] : \E j \in DOMAIN queue[h][k] : queue[h][k][j] = t
      BY <2>1 DEF Members
    <3> QED
      BY <3>1 DEF GroupWith
  <2>3. Unlinked(t) = [queue EXCEPT ![h] = HeaderWithout(h, t)]
    BY <1>2 DEF Unlinked, h
  <2>4. HeaderWithout(h, t) = ChainWithout(queue[h], i, p)
    BY DEF HeaderWithout, ChainWithout
  <2> HIDE DEF i
  <2>5. p \in DOMAIN queue[h][i] /\ queue[h][i][p] = t
    BY <2>2 DEF PlaceIn
  <2> HIDE DEF p
  <2>6. queue[h] \in Seq(Groups)
    BY <2>1 DEF Chains
  <2>7. Thinned(ChainWithout(queue[h], i, p), queue[h], t)
    BY <2>2, <2>5, <2>6, WithoutThins
  <2>8. Released([queue EXCEPT ![h] = ChainWithout(queue[h], i, p)], queue, t)
    BY <2>1, <2>7, ThinnedReleases
  <2> QED
    BY <2>3, <2>4, <2>8
<1> QED
  BY <1>1, <1>2

\* A set of numbers has a least one.
LEMMA LeastIn ==
  ASSUME NEW S \in SUBSET Nat, S # {}
  PROVE  Min(S) \in S
<1> DEFINE R == OpToRel(<, Nat)
<1>1. R = {ss \in Nat \X Nat : ss[1] < ss[2]}
  BY DEF OpToRel
<1>2. IsWellFoundedOn(R, Nat)
  BY NatLessThanWellFounded
<1> HIDE DEF R
<1>3. \E n \in S : \A m \in S : ~(<<m, n>> \in R)
  BY <1>2, WFMin
<1>4. PICK n \in S : \A m \in S : ~(<<m, n>> \in R)
  BY <1>3
<1>5. ASSUME NEW m \in S PROVE n <= m
  <2>1. ~(<<m, n>> \in R)
    BY <1>4
  <2>2. m \in Nat /\ n \in Nat
    OBVIOUS
  <2>3. ~(m < n)
    BY <2>1, <2>2, <1>1
  <2> QED
    BY <2>2, <2>3, SMT
<1>6. \E x \in S : \A y \in S : x <= y
  BY <1>5
<1> QED
  BY <1>6 DEF Min

\* _Thread_queue_First finds nobody only if nobody is there.
LEMMA FirstFacts ==
  ASSUME queue \in Chains
  PROVE  /\ First = NULL => \A t : ~Has(queue, t)
         /\ First # NULL => First \in Threads
<1>1. CASE Used = {}
  <2>1. First = NULL
    BY <1>1 DEF First
  <2>2. ASSUME NEW h \in Headers PROVE DOMAIN queue[h] = {}
    <3>1. queue[h] = << >>
      BY <1>1 DEF Used
    <3> QED
      BY <3>1, SMT
  <2>3. \A t : ~Has(queue, t)
    BY <2>2 DEF Has
  <2> QED
    BY <2>1, <2>3
<1>2. CASE Used # {}
  <2>1. Used \in SUBSET Nat
    BY HeaderFacts DEF Used
  <2>2. FirstHeader \in Used
    BY <1>2, <2>1, LeastIn DEF FirstHeader
  <2> DEFINE h == FirstHeader
  <2>3. h \in Headers /\ queue[h] # << >>
    BY <2>2 DEF Used
  <2>4. First = queue[h][1][1]
    BY <1>2 DEF First
  <2> HIDE DEF h
  <2>5. queue[h] \in Seq(Groups)
    BY <2>3 DEF Chains
  <2>6. 1 \in DOMAIN queue[h]
    BY <2>3, <2>5, SMT
  <2>7. queue[h][1][1] \in Threads
    BY <2>3, <2>6, ChainFacts
  <2> QED
    BY <2>4, <2>7, BlockingAssumption
<1> QED
  BY <1>1, <1>2

\* q2 is the queue q with t on it.
Entered(q2, q, t) ==
  /\ q2 \in Chains /\ Has(q2, t)
  /\ \A x : Has(q, x) => Has(q2, x)

LEMMA CoveredEnters ==
  ASSUME NEW q \in Chains, NEW h \in Headers, NEW c \in Seq(Groups), NEW t,
         Covers(c, q[h], t),
         \E m \in DOMAIN c : \E n \in DOMAIN c[m] : c[m][n] = t
  PROVE  Entered([q EXCEPT ![h] = c], q, t)
<1> DEFINE q2 == [q EXCEPT ![h] = c]
<1>1. q2 \in Chains /\ q2[h] = c
  BY DEF Chains
<1>2. q2 = [q EXCEPT ![h] = c]
  OBVIOUS
<1> HIDE DEF q2
<1>3. \A x : x # t /\ Has(q, x) => Has(q2, x)
  BY <1>2, KeepsOthers
<1>4. Has(q2, t)
  BY <1>1 DEF Has
<1> QED
  BY <1>1, <1>3, <1>4 DEF Entered, q2

\* A group of its own.
LEMMA InsertedEnters ==
  ASSUME NEW q \in Chains, NEW h \in Headers, NEW t \in Threads,
         NEW i \in 1 .. Len(q[h]) + 1
  PROVE  Entered([q EXCEPT ![h] = InsertAt(q[h], i, <<t>>)], q, t)
<1> DEFINE s == q[h]
           c == InsertAt(s, i, <<t>>)
<1>1. s \in Seq(Groups)
  BY DEF Chains
<1>2. Len(s) \in Nat /\ DOMAIN s = 1 .. Len(s) /\ i \in 1 .. Len(s) + 1
  BY <1>1, SMT
<1>3. <<t>> \in Groups /\ 1 \in DOMAIN <<t>> /\ <<t>>[1] = t
  BY OneIsGroup, SMT
<1> HIDE DEF s
<1> DEFINE e == <<t>>
<1>0. c = InsertAt(s, i, e) /\ e \in Groups
  BY <1>3
<1> HIDE DEF e
<1>40. /\ InsertAt(s, i, e) \in Seq(Groups)
       /\ Len(InsertAt(s, i, e)) = Len(s) + 1
       /\ InsertAt(s, i, e)[i] = e
       /\ \A k \in 1 .. Len(s) :
            s[k] = InsertAt(s, i, e)[IF k < i THEN k ELSE k + 1]
  BY <1>0, <1>1, <1>2, InsertedFacts, SMT
<1> HIDE DEF c
<1>4. /\ c \in Seq(Groups) /\ Len(c) = Len(s) + 1
      /\ c[i] = <<t>>
      /\ \A k \in 1 .. Len(s) : s[k] = c[IF k < i THEN k ELSE k + 1]
  BY <1>0, <1>40, SMTT(30) DEF e
<1>5. DOMAIN c = 1 .. Len(s) + 1
  BY <1>4, SMT
<1>6. ASSUME NEW m \in DOMAIN s PROVE \E k \in DOMAIN c : c[k] = s[m]
  BY <1>2, <1>4, <1>5, SMT
<1>7. Covers(c, s, t)
  BY <1>6 DEF Covers
<1>8. i \in DOMAIN c /\ 1 \in DOMAIN c[i] /\ c[i][1] = t
  BY <1>2, <1>3, <1>4, <1>5
<1>9. \E m \in DOMAIN c : \E n \in DOMAIN c[m] : c[m][n] = t
  BY <1>8
<1>10. Covers(c, q[h], t)
  BY <1>7 DEF s
<1>11. Entered([q EXCEPT ![h] = c], q, t)
  BY <1>4, <1>9, <1>10, CoveredEnters
<1> QED
  BY <1>11 DEF c, s

\* A place in a group.
LEMMA JoinedEnters ==
  ASSUME NEW q \in Chains, NEW h \in Headers, NEW t \in Threads, NEW i \in DOMAIN q[h]
  PROVE  Entered([q EXCEPT ![h] = [q[h] EXCEPT ![i] = Behind(@, t)]], q, t)
<1> DEFINE s == q[h]
           g == s[i]
           d == Append(g, t)
           c == [s EXCEPT ![i] = d]
<1>1. s \in Seq(Groups)
  BY DEF Chains
<1>2. g \in Seq(Threads)
  BY ChainFacts
<1> HIDE DEF g
<1>3. d \in Seq(Threads) /\ Len(d) = Len(g) + 1 /\ d[Len(g) + 1] = t
      /\ \A n \in DOMAIN g : n \in DOMAIN d /\ d[n] = g[n]
  BY <1>2, SMT
<1>4. d \in Groups /\ Len(g) + 1 \in DOMAIN d
  BY <1>2, <1>3, SMT DEF Groups
<1> HIDE DEF d, s
<1>6. i \in DOMAIN s
  BY DEF s
<1>5. c \in Seq(Groups) /\ DOMAIN c = DOMAIN s
  BY <1>1, <1>4, <1>6, SMT
<1>7. c[i] = d /\ \A m \in DOMAIN s : m # i => c[m] = s[m]
  BY <1>6
<1> HIDE DEF c
<1>8. ASSUME NEW m \in DOMAIN s, NEW n \in DOMAIN s[m]
      PROVE  \E k \in DOMAIN c : \E j \in DOMAIN c[k] : c[k][j] = s[m][n]
  <2>1. CASE m # i
    BY <2>1, <1>5, <1>7
  <2>2. CASE m = i
    <3>1. n \in DOMAIN c[i] /\ c[i][n] = s[m][n]
      BY <2>2, <1>3, <1>7 DEF g
    <3> QED
      BY <3>1, <1>5, <1>6
  <2> QED
    BY <2>1, <2>2
<1>9. Covers(c, q[h], t)
  BY <1>8 DEF Covers, s
<1>10. \E m \in DOMAIN c : \E n \in DOMAIN c[m] : c[m][n] = t
  BY <1>3, <1>4, <1>5, <1>6, <1>7
<1>11. Entered([q EXCEPT ![h] = c], q, t)
  BY <1>5, <1>9, <1>10, CoveredEnters
<1> QED
  BY <1>11 DEF c, d, g, s, Behind

\* _Thread_queue_Enqueue_fifo
LEMMA BehindEnters ==
  ASSUME queue \in Chains, NEW t \in Threads
  PROVE  Entered([queue EXCEPT ![0] = Behind(@, <<t>>)], queue, t)
<1> DEFINE s == queue[0]
           c == Append(s, <<t>>)
<1>1. 0 \in Headers
  BY DEF Headers
<1>2. s \in Seq(Groups)
  BY <1>1 DEF Chains
<1>3. <<t>> \in Groups /\ 1 \in DOMAIN <<t>> /\ <<t>>[1] = t
  BY OneIsGroup, SMT
<1> HIDE DEF s
<1>4. c \in Seq(Groups) /\ Len(c) = Len(s) + 1 /\ c[Len(s) + 1] = <<t>>
      /\ Len(s) + 1 \in DOMAIN c
      /\ \A m \in DOMAIN s : m \in DOMAIN c /\ c[m] = s[m]
  BY <1>2, <1>3, SMT
<1> HIDE DEF c
<1>5. Covers(c, queue[0], t)
  BY <1>4 DEF Covers, s
<1>6. 1 \in DOMAIN c[Len(s) + 1] /\ c[Len(s) + 1][1] = t
  BY <1>3, <1>4
<1>7. \E m \in DOMAIN c : \E n \in DOMAIN c[m] : c[m][n] = t
  BY <1>4, <1>6
<1>8. Entered([queue EXCEPT ![0] = c], queue, t)
  BY <1>1, <1>4, <1>5, <1>7, CoveredEnters
<1> QED
  BY <1>8 DEF c, s, Behind

LEMMA MyHeaderFacts ==
  ASSUME executing \in Threads, priority \in [Threads -> Priorities]
  PROVE  MyHeader \in Headers
<1>1. priority[executing] \in Priorities
  OBVIOUS
<1>2. CASE discipline = "FIFO"
  BY <1>2 DEF MyHeader, Header, Headers
<1>3. CASE discipline # "FIFO"
  BY <1>1, <1>3 DEF MyHeader, Header, Headers
<1> QED
  BY <1>2, <1>3

\* The places where a search may stop.
Stops == IF Reverse THEN 0 .. Len(queue[MyHeader]) ELSE 1 .. Len(queue[MyHeader]) + 1

\* _Thread_queue_Enqueue_priority
LEMMA PlacedEnters ==
  ASSUME queue \in Chains, executing \in Threads,
         priority \in [Threads -> Priorities], NEW i \in Stops
  PROVE  Entered(Placed(i), queue, executing)
<1> DEFINE h == MyHeader
           k == IF Reverse THEN i + 1 ELSE i
           equal == i \in DOMAIN queue[h] /\ priority[Leader(h, i)] = priority[executing]
<1>1. h \in Headers
  BY MyHeaderFacts
<1>2. CASE equal
  <2>1. Placed(i) = [queue EXCEPT ![h] = [queue[h] EXCEPT ![i] = Behind(@, executing)]]
    BY <1>2 DEF Placed
  <2>2. i \in DOMAIN queue[h]
    BY <1>2
  <2> HIDE DEF h, equal
  <2>3. Entered([queue EXCEPT ![h] = [queue[h] EXCEPT ![i] = Behind(@, executing)]],
                queue, executing)
    BY <1>1, <2>2, JoinedEnters
  <2> QED
    BY <2>1, <2>3
<1>3. CASE ~equal
  <2>1. Placed(i) = [queue EXCEPT ![h] = InsertAt(queue[h], k, <<executing>>)]
    BY <1>3 DEF Placed
  <2>2. Len(queue[h]) \in Nat
    BY <1>1, ChainFacts
  <2>3. k \in 1 .. Len(queue[h]) + 1
    BY <2>2, SMT DEF Stops
  <2> HIDE DEF h, equal, k
  <2>4. Entered([queue EXCEPT ![h] = InsertAt(queue[h], k, <<executing>>)],
                queue, executing)
    BY <1>1, <2>3, InsertedEnters
  <2> QED
    BY <2>1, <2>4
<1> QED
  BY <1>2, <1>3

\* A step of the search leads to such a place.
LEMMA StepStops ==
  ASSUME queue \in Chains, executing \in Threads,
         priority \in [Threads -> Priorities], NEW i \in DOMAIN queue[MyHeader]
  PROVE  Step(i) \in Stops
<1>1. Len(queue[MyHeader]) \in Nat /\ i \in 1 .. Len(queue[MyHeader])
  BY MyHeaderFacts, ChainFacts
<1> QED
  BY <1>1, SMT DEF Step, Stops

-----------------------------------------------------------------------------
\* A step that gives level lv the frame f.

Moves(lv, f) ==
  /\ frame' = [frame EXCEPT ![lv] = f]
  /\ nest' \in Levels
  /\ \A l \in Levels : l > nest' /\ l # lv => l > nest
  /\ lv > nest' => f = IdleFrame

OnlyAt(lv, f) ==
  /\ frame' \in [Levels -> Frames]
  /\ frame'[lv] = f
  /\ \A l \in Levels : l # lv => frame'[l] = frame[l]

LEMMA Moved ==
  ASSUME WaitTypes, NEW lv \in Levels, NEW f \in Frames, Moves(lv, f)
  PROVE  OnlyAt(lv, f)
  BY DEF WaitTypes, Moves, OnlyAt

LEMMA LevelsFacts == 0 \in Levels /\ Levels \subseteq Nat
  BY BlockingAssumption, SMT DEF Levels

LEMMA FitsKept ==
  ASSUME FramesFit, NEW lv \in Levels, NEW f, Moves(lv, f), OnlyAt(lv, f),
         Fits(f, lv, executing'), executing' = executing \/ lv = 0
  PROVE  FramesFit'
<1> SUFFICES ASSUME NEW l \in Levels
             PROVE  /\ Fits(frame'[l], l, executing')
                    /\ l > nest' => frame'[l] = IdleFrame
  BY DEF FramesFit, Fits, Levels, IdleFrame
<1>1. CASE l = lv
  BY <1>1 DEF Moves, OnlyAt
<1>2. CASE l # lv
  <2>1. frame'[l] = frame[l] /\ Fits(frame[l], l, executing)
        /\ (l > nest => frame[l] = IdleFrame)
    BY <1>2 DEF OnlyAt, FramesFit
  <2>2. l > nest' => frame'[l] = IdleFrame
    BY <1>2, <2>1 DEF Moves
  <2>3. CASE executing' = executing
    BY <2>1, <2>2, <2>3
  <2>4. CASE lv = 0
    <3>1. l > 0
      BY <1>2, <2>4, LevelsFacts, SMT
    <3>2. frame[l].pc \notin Waits
      BY <2>1, <3>1 DEF Fits
    <3>3. Fits(frame[l], l, executing')
      BY <2>1, <3>2 DEF Fits
    <3> QED
      BY <2>1, <2>2, <3>3
  <2> QED
    BY <2>3, <2>4
<1> QED
  BY <1>1, <1>2

\* Thread t stays known: it is on the queue, on its way or about to be made
\* ready after the step, or it was not the step's business.
StaysKnown(t, lv, f) ==
  \/ Has(queue', t)
  \/ Wakes(f, t)
  \/ lv = 0 /\ executing' = t /\ f.pc \in Approach
  \/ /\ state[t] = "waiting" /\ ~Has(queue, t) /\ ~Wakes(frame[lv], t)
     /\ frame[0].pc \notin Approach \/ (lv # 0 /\ executing' = executing)

LEMMA WaitersStayKnown ==
  ASSUME WaitersKnown, NEW lv \in Levels, NEW f, OnlyAt(lv, f),
         \A t \in Threads : state'[t] = "waiting" => StaysKnown(t, lv, f)
  PROVE  WaitersKnown'
<1> SUFFICES ASSUME NEW t \in Threads, state'[t] = "waiting"
             PROVE  \/ Has(queue', t)
                    \/ executing' = t /\ frame'[0].pc \in Approach
                    \/ \E l \in Levels : Wakes(frame'[l], t)
  BY DEF WaitersKnown, Approaching, Waking, Has, Wakes, Levels
<1>1. StaysKnown(t, lv, f)
  OBVIOUS
<1>2. CASE Has(queue', t)
  BY <1>2
<1>3. CASE Wakes(f, t)
  BY <1>3 DEF OnlyAt
<1>4. CASE lv = 0 /\ executing' = t /\ f.pc \in Approach
  BY <1>4 DEF OnlyAt
<1>5. CASE /\ state[t] = "waiting" /\ ~Has(queue, t) /\ ~Wakes(frame[lv], t)
           /\ frame[0].pc \notin Approach \/ (lv # 0 /\ executing' = executing)
  <2>1. Approaching(t) \/ Waking(t)
    BY <1>5 DEF WaitersKnown
  <2>2. CASE Approaching(t)
    <3>1. lv # 0 /\ executing' = executing /\ executing = t /\ frame[0].pc \in Approach
      BY <2>2, <1>5 DEF Approaching
    <3>2. frame'[0] = frame[0]
      BY <3>1, LevelsFacts DEF OnlyAt
    <3> QED
      BY <3>1, <3>2
  <2>3. CASE Waking(t)
    <3>1. PICK l \in Levels : Wakes(frame[l], t)
      BY <2>3 DEF Waking
    <3>2. l # lv
      BY <3>1, <1>5
    <3>3. frame'[l] = frame[l]
      BY <3>2 DEF OnlyAt
    <3> QED
      BY <3>1, <3>3
  <2> QED
    BY <2>1, <2>2, <2>3
<1> QED
  BY <1>1, <1>2, <1>3, <1>4, <1>5 DEF StaysKnown

\* A step at another level leaves the search its place.
KeepsPlace(lv, f) ==
  /\ UNCHANGED <<executing, priority, discipline>>
  /\ \A t \in Threads : state'[t] = "waiting" =>
       state[t] = "waiting" /\ (Wakes(frame[lv], t) => Wakes(f, t))
  /\ \A h \in Headers : \A t :
       Leads(queue, h, t) => Leads(queue', h, t) \/ Wakes(f, t)

LEMMA SearchKept ==
  ASSUME SearchLeads, WaitTypes, FramesFit, NEW lv \in Levels, NEW f, OnlyAt(lv, f),
         lv = 0 /\ f.pc = "flash" => Leads(queue', MyHeader', f.search),
         lv # 0 => KeepsPlace(lv, f)
  PROVE  SearchLeads'
<1> SUFFICES ASSUME frame'[0].pc = "flash", state'[frame'[0].search] = "waiting"
             PROVE  \/ \E l \in Levels : Wakes(frame'[l], frame'[0].search)
                    \/ Leads(queue', MyHeader', frame'[0].search)
  BY DEF SearchLeads, Leads, Waking, Wakes, Levels
<1>1. CASE lv = 0
  BY <1>1 DEF OnlyAt
<1>2. CASE lv # 0
  <2>1. frame'[0] = frame[0]
    BY <1>2, LevelsFacts DEF OnlyAt
  <2> DEFINE t == frame[0].search
  <2>2. MyHeader' = MyHeader
    BY <1>2 DEF KeepsPlace, MyHeader, Header
  <2>3. executing \in Threads /\ t \in Threads
    BY <2>1, LevelsFacts DEF FramesFit, Fits, Waits
  <2>4. MyHeader \in Headers
    BY <2>3, MyHeaderFacts DEF WaitTypes
  <2>5. state[t] = "waiting" /\ (Wakes(frame[lv], t) => Wakes(f, t))
    BY <1>2, <2>1, <2>3 DEF KeepsPlace
  <2>6. Waking(t) \/ Leads(queue, MyHeader, t)
    BY <2>1, <2>5 DEF SearchLeads
  <2>7. CASE Waking(t)
    <3>1. PICK l \in Levels : Wakes(frame[l], t)
      BY <2>7 DEF Waking
    <3>2. Wakes(frame'[l], t)
      <4>1. CASE l = lv
        BY <4>1, <3>1, <2>5 DEF OnlyAt
      <4>2. CASE l # lv
        BY <4>2, <3>1 DEF OnlyAt
      <4> QED
        BY <4>1, <4>2
    <3> QED
      BY <3>2, <2>1
  <2>8. CASE Leads(queue, MyHeader, t)
    <3>1. Leads(queue', MyHeader, t) \/ Wakes(f, t)
      BY <2>8, <2>4, <1>2 DEF KeepsPlace
    <3> QED
      BY <3>1, <2>1, <2>2 DEF OnlyAt
  <2> QED
    BY <2>6, <2>7, <2>8
<1> QED
  BY <1>1, <1>2

\* Who adds a message, who waits, and how many there are.
KeepsNone(lv, f) ==
  /\ sync_state' = "NOTHING_HAPPENED" =>
       \/ sync_state = "NOTHING_HAPPENED"
       \/ number = 0 /\ \A l \in Levels : ~Adds(frame[l])
  /\ \A t : Has(queue', t) => Has(queue, t) \/ sync_state = "NOTHING_HAPPENED"
  /\ number' # 0 => number # 0 \/ Adds(frame[lv])
  /\ Adds(f) =>
       \/ Adds(frame[lv])
       \/ sync_state' # "NOTHING_HAPPENED" /\ \A t : ~Has(queue', t)

LEMMA NoneKept ==
  ASSUME NoneForWaiters, WaitTypes, number' \in Nat, NEW lv \in Levels, NEW f, OnlyAt(lv, f),
         KeepsNone(lv, f)
  PROVE  NoneForWaiters'
<1> SUFFICES ASSUME sync_state' = "NOTHING_HAPPENED" \/ \E t : Has(queue', t)
             PROVE  number' = 0 /\ \A l \in Levels : ~Adds(frame'[l])
  BY DEF NoneForWaiters, Has, Adds, Levels
<1>1. number = 0 /\ \A l \in Levels : ~Adds(frame[l])
  BY DEF KeepsNone, NoneForWaiters
<1>2. number' = 0
  BY <1>1 DEF KeepsNone
<1>3. ~Adds(f)
  BY <1>1 DEF KeepsNone
<1>4. ASSUME NEW l \in Levels PROVE ~Adds(frame'[l])
  <2>1. CASE l = lv
    BY <2>1, <1>3 DEF OnlyAt
  <2>2. CASE l # lv
    BY <2>2, <1>1 DEF OnlyAt
  <2> QED
    BY <2>1, <2>2
<1> QED
  BY <1>2, <1>4

\* The delete and the queue that is gone.
KeepsGone(lv, f) ==
  /\ \A t : Has(queue', t) => Has(queue, t) \/ lv = 0
  /\ lv = 0 /\ f.op = "flush" /\ f.pc = "dequeued" /\ f.thread = NULL =>
       ~\E t : Has(queue', t)
  /\ open' = open \/ lv = 0
  /\ lv = 0 /\ f.pc \in Waits => open'
  /\ \/ DeleteLeavesNobody'
     \/ /\ open' = open
        /\ lv = 0 /\ frame[0].op = "flush" => f.op = "flush"
        /\ \A t \in Threads : state'[t] = "waiting" => state[t] = "waiting"

LEMMA GoneKept ==
  ASSUME FlushEmpties, ClosedForWaiters, DeleteLeavesNobody, WaitTypes,
         state' \in [Threads -> {"ready", "waiting"}],
         NEW lv \in Levels, NEW f, OnlyAt(lv, f), KeepsGone(lv, f)
  PROVE  FlushEmpties' /\ ClosedForWaiters' /\ DeleteLeavesNobody'
<1>1. lv # 0 => frame'[0] = frame[0]
  BY LevelsFacts DEF OnlyAt
<1>2. lv = 0 => frame'[0] = f
  BY DEF OnlyAt
<1>3. FlushEmpties'
  <2> SUFFICES ASSUME frame'[0].op = "flush", frame'[0].pc = "dequeued",
                      frame'[0].thread = NULL, NEW t, Has(queue', t)
               PROVE  FALSE
    BY DEF FlushEmpties, Has
  <2>1. CASE lv = 0
    BY <2>1, <1>2 DEF KeepsGone
  <2>2. CASE lv # 0
    BY <2>2, <1>1 DEF KeepsGone, FlushEmpties
  <2> QED
    BY <2>1, <2>2
<1>4. ClosedForWaiters'
  <2>1. CASE lv = 0
    BY <2>1, <1>2 DEF KeepsGone, ClosedForWaiters
  <2>2. CASE lv # 0
    BY <2>2, <1>1, SMT DEF KeepsGone, ClosedForWaiters
  <2> QED
    BY <2>1, <2>2
<1>5. DeleteLeavesNobody'
  <2>1. CASE /\ open' = open
             /\ lv = 0 /\ frame[0].op = "flush" => f.op = "flush"
             /\ \A t \in Threads : state'[t] = "waiting" => state[t] = "waiting"
    <3> SUFFICES ASSUME ~open', frame'[0].op # "flush", NEW t \in Threads
                 PROVE  state'[t] = "ready"
      BY DEF DeleteLeavesNobody
    <3>1. frame[0].op # "flush"
      BY <1>1, <1>2, <2>1
    <3>2. state[t] = "ready"
      BY <2>1, <3>1 DEF DeleteLeavesNobody
    <3>3. state'[t] # "waiting"
      BY <2>1, <3>2
    <3> QED
      BY <3>3
  <2> QED
    BY <2>1 DEF KeepsGone
<1> QED
  BY <1>3, <1>4, <1>5

\* All of it.
Typed ==
  /\ state' \in [Threads -> {"ready", "waiting"}]
  /\ executing' \in Threads \cup {NULL}
  /\ queue' \in Chains
  /\ sync_state' \in SyncStates
  /\ priority' \in [Threads -> Priorities]
  /\ number' \in Nat

LEMMA WaitKept ==
  ASSUME WaitInv, NEW lv \in Levels, NEW f \in Frames, Moves(lv, f), Typed,
         Fits(f, lv, executing'), executing' = executing \/ lv = 0,
         \A t \in Threads : state'[t] = "waiting" => StaysKnown(t, lv, f),
         lv = 0 /\ f.pc = "flash" => Leads(queue', MyHeader', f.search),
         lv # 0 => KeepsPlace(lv, f),
         KeepsNone(lv, f), KeepsGone(lv, f)
  PROVE  WaitInv'
<1>1. OnlyAt(lv, f)
  BY Moved DEF WaitInv
<1>2. WaitTypes'
  BY <1>1 DEF WaitTypes, Typed, OnlyAt, Moves, Levels, Chains, Headers, Frames, Groups,
              SyncStates
<1>3. FramesFit'
  BY <1>1, FitsKept DEF WaitInv
<1>4. WaitersKnown'
  BY <1>1, WaitersStayKnown DEF WaitInv
<1>5. SearchLeads'
  BY <1>1, SearchKept DEF WaitInv
<1>6. NoneForWaiters'
  BY <1>1, NoneKept DEF WaitInv, Typed
<1>7. FlushEmpties' /\ ClosedForWaiters' /\ DeleteLeavesNobody'
  BY <1>1, GoneKept DEF WaitInv, Typed
<1> QED
  BY <1>2, <1>3, <1>4, <1>5, <1>6, <1>7 DEF WaitInv

-----------------------------------------------------------------------------
\* Frames that begin, go on and end.

LEMMA IdleFits ==
  /\ IdleFrame \in Frames /\ IdleFrame.pc = "idle" /\ ~Adds(IdleFrame)
  /\ \A l, e : Fits(IdleFrame, l, e)
<1>1. /\ IdleFrame.pc = "idle" /\ IdleFrame.op = "none"
      /\ IdleFrame.thread = NULL
  BY DEF IdleFrame
<1>2. IdleFrame \in Frames
  BY DEF IdleFrame, Frames, Places
<1>3. "idle" \notin Waits
  BY DEF Waits
<1> QED
  BY <1>1, <1>2, <1>3 DEF Fits, Adds

LEMMA FrameGoesOn ==
  ASSUME NEW f \in Frames, NEW pc \in Places
  PROVE  /\ [f EXCEPT !.pc = pc] \in Frames
         /\ [f EXCEPT !.pc = pc].pc = pc
         /\ [f EXCEPT !.pc = pc].op = f.op
         /\ [f EXCEPT !.pc = pc].thread = f.thread
         /\ [f EXCEPT !.pc = pc].search = f.search
         /\ [f EXCEPT !.pc = pc].after = f.after
  BY DEF Frames

LEMMA BeginMoves ==
  ASSUME WaitTypes, NEW lv \in Levels, NEW f, Begin(lv, f), lv = nest \/ lv = nest + 1
  PROVE  Moves(lv, f)
<1>1. frame' = [frame EXCEPT ![lv] = f] /\ nest' = lv
  BY DEF Begin
<1>2. nest \in Nat /\ lv \in Nat
  BY LevelsFacts DEF WaitTypes
<1>3. \A l \in Levels : l > lv => l > nest
  BY <1>2, LevelsFacts, SMT
<1>4. ~(lv > lv)
  BY <1>2, SMT
<1> QED
  BY <1>1, <1>3, <1>4 DEF Moves

LEMMA FinishMoves ==
  ASSUME WaitTypes, Finish
  PROVE  Moves(nest, IdleFrame) /\ nest \in Levels
<1>1. frame' = [frame EXCEPT ![nest] = IdleFrame]
      /\ nest' = IF InHandler THEN nest - 1 ELSE nest
  BY DEF Finish
<1>2. nest \in Nat /\ nest \in Levels /\ nest <= MaxNest /\ MaxNest \in Nat
  BY LevelsFacts, BlockingAssumption, SMT DEF WaitTypes, Levels
<1>3. nest' \in Levels /\ \A l \in Levels : l > nest' /\ l # nest => l > nest
  BY <1>1, <1>2, SMT DEF InHandler, Levels
<1> QED
  BY <1>1, <1>2, <1>3 DEF Moves

LEMMA GotoMoves ==
  ASSUME WaitTypes, NEW pc, Goto(pc)
  PROVE  /\ Moves(nest, [frame[nest] EXCEPT !.pc = pc])
         /\ nest \in Levels /\ frame[nest] \in Frames
<1>1. frame' = [frame EXCEPT ![nest] = [frame[nest] EXCEPT !.pc = pc]] /\ nest' = nest
  BY DEF Goto
<1>2. nest \in Levels /\ frame[nest] \in Frames
  BY DEF WaitTypes
<1>3. nest \in Nat
  BY <1>2, LevelsFacts
<1>4. ~(nest > nest)
  BY <1>3, SMT
<1> QED
  BY <1>1, <1>2, <1>4 DEF Moves

\* Before its step, level lv is not about to make a thread ready, and is not a
\* thread on its way to the queue.
Passive(lv) == frame[lv].pc \notin Waits \cup {"remove", "unblock"}

LEMMA PassiveKnows ==
  ASSUME WaitInv, NEW lv \in Levels, NEW f, Passive(lv),
         executing' = executing \/ lv = 0,
         NEW t \in Threads, state[t] = "waiting",
         Has(queue, t) => Has(queue', t) \/ Wakes(f, t)
  PROVE  StaysKnown(t, lv, f)
<1>1. ~Wakes(frame[lv], t)
  BY DEF Passive, Wakes
<1>2. lv = 0 => frame[0].pc \notin Approach
  BY DEF Passive, Approach, Waits
<1> QED
  BY <1>1, <1>2 DEF StaysKnown

\* The step is about nobody who waits.
Still(lv) ==
  /\ UNCHANGED <<state, queue, priority, discipline, open, executing>>
  /\ sync_state' \in {sync_state, "TIMEOUT"}
  /\ number' \in Nat
  /\ number' # number => Adds(frame[lv])

LEMMA StillKept ==
  ASSUME WaitInv, NEW lv \in Levels, NEW f \in Frames, Moves(lv, f), Still(lv),
         Passive(lv), f.pc \notin Waits, f.pc # "dequeued",
         Fits(f, lv, executing), Adds(f) => Adds(frame[lv]),
         lv = 0 /\ frame[0].op = "flush" => f.op = "flush"
  PROVE  WaitInv'
<1>1. /\ state' = state /\ queue' = queue /\ priority' = priority
      /\ discipline' = discipline /\ open' = open /\ executing' = executing
  BY DEF Still
<1>2. Typed
  BY <1>1 DEF WaitInv, WaitTypes, Typed, Still, SyncStates
<1>3. ASSUME NEW t \in Threads, state'[t] = "waiting" PROVE StaysKnown(t, lv, f)
  BY <1>1, <1>3, PassiveKnows
<1>4. KeepsPlace(lv, f)
  BY <1>1 DEF KeepsPlace, Passive, Wakes
<1>5. KeepsNone(lv, f)
  <2>1. sync_state' = "NOTHING_HAPPENED" => sync_state = "NOTHING_HAPPENED"
    BY DEF Still
  <2>2. number' # 0 => number # 0 \/ Adds(frame[lv])
    BY DEF Still
  <2> QED
    BY <1>1, <2>1, <2>2 DEF KeepsNone
<1>6. KeepsGone(lv, f)
  BY <1>1 DEF KeepsGone
<1>7. f.pc # "flash"
  BY DEF Waits
<1>8. Fits(f, lv, executing') /\ executing' = executing
  BY <1>1
<1> QED
  BY <1>2, <1>3, <1>4, <1>5, <1>6, <1>7, <1>8, WaitKept

LEMMA StillFinish ==
  ASSUME WaitInv, Finish, Still(nest), Passive(nest), frame[nest].op # "flush"
  PROVE  WaitInv'
<1>1. Moves(nest, IdleFrame) /\ nest \in Levels
  BY FinishMoves DEF WaitInv
<1>2. IdleFrame.pc \notin Waits /\ IdleFrame.pc # "dequeued"
  BY IdleFits DEF Waits
<1>3. nest = 0 /\ frame[0].op = "flush" => IdleFrame.op = "flush"
  OBVIOUS
<1> QED
  BY <1>1, <1>2, <1>3, IdleFits, StillKept

LEMMA StillGoto ==
  ASSUME WaitInv, NEW pc \in Places \ Waits, Goto(pc), Still(nest), Passive(nest),
         pc # "dequeued",
         Fits([frame[nest] EXCEPT !.pc = pc], nest, executing),
         Adds([frame[nest] EXCEPT !.pc = pc]) => Adds(frame[nest])
  PROVE  WaitInv'
<1> DEFINE f == [frame[nest] EXCEPT !.pc = pc]
<1>1. Moves(nest, f) /\ nest \in Levels /\ frame[nest] \in Frames
  BY GotoMoves DEF WaitInv
<1>2. f \in Frames /\ f.pc = pc /\ f.op = frame[nest].op
  BY <1>1, FrameGoesOn
<1>3. Fits(f, nest, executing) /\ (Adds(f) => Adds(frame[nest]))
  OBVIOUS
<1> HIDE DEF f
<1>4. nest = 0 /\ frame[0].op = "flush" => f.op = "flush"
  BY <1>2
<1> QED
  BY <1>1, <1>2, <1>3, <1>4, StillKept

-----------------------------------------------------------------------------
\* A thread is taken out of its wait.

TakenFrame(op, t, pc, after) ==
  [IdleFrame EXCEPT !.pc = pc, !.op = op, !.thread = t, !.after = after]

LEMMA TakesFrame ==
  ASSUME NEW lv, NEW op, NEW t, NEW after, Take(lv, op, t, after)
  PROVE  \E pc \in {"remove", "unblock"} : Begin(lv, TakenFrame(op, t, pc, after))
<1> DEFINE pc == IF Timed(t) THEN "remove" ELSE "unblock"
<1>1. pc \in {"remove", "unblock"}
  OBVIOUS
<1>2. Begin(lv, [IdleFrame EXCEPT !.pc = pc, !.op = op, !.thread = t, !.after = after])
  BY DEF Take
<1> QED
  BY <1>1, <1>2 DEF TakenFrame

LEMMA TakenFits ==
  ASSUME NEW op \in Ops \cup {"none", "timeout"}, NEW t \in Threads,
         NEW pc \in {"remove", "unblock"}, NEW after \in {"idle", "dequeued", "blocked"},
         NEW lv \in Levels, op = "flush" => lv = 0 /\ after = "dequeued", NEW e
  PROVE  /\ TakenFrame(op, t, pc, after) \in Frames
         /\ Fits(TakenFrame(op, t, pc, after), lv, e)
         /\ Wakes(TakenFrame(op, t, pc, after), t)
         /\ ~Adds(TakenFrame(op, t, pc, after))
         /\ TakenFrame(op, t, pc, after).pc = pc
         /\ TakenFrame(op, t, pc, after).op = op
<1> DEFINE f == TakenFrame(op, t, pc, after)
<1>1. f.pc = pc /\ f.op = op /\ f.thread = t /\ f.after = after
  BY DEF TakenFrame, IdleFrame
<1>2. f \in Frames
  BY DEF TakenFrame, IdleFrame, Frames, Places
<1> HIDE DEF f
<1>3. pc \notin Waits /\ pc # "flash" /\ pc # "client" /\ pc # "dequeued"
      /\ pc \notin {"count", "store", "link"}
  BY DEF Waits
<1>4. lv > 0 => lv # 0
  BY LevelsFacts, SMT
<1>5. Fits(f, lv, e)
  BY <1>1, <1>3, <1>4 DEF Fits
<1>6. Wakes(f, t) /\ ~Adds(f)
  BY <1>1, <1>3 DEF Wakes, Adds
<1> QED
  BY <1>1, <1>2, <1>5, <1>6 DEF f

\* ... by a call at level lv.
LEMMA TakeKept ==
  ASSUME WaitInv, NEW lv \in Levels, lv = nest \/ lv = nest + 1,
         NEW op \in Ops \cup {"none", "timeout"}, NEW t \in Threads,
         NEW after \in {"idle", "dequeued", "blocked"},
         Take(lv, op, t, after), queue' = Unlinked(t), Passive(lv),
         UNCHANGED <<state, executing, priority, discipline, sync_state, number>>,
         op = "flush" => lv = 0 /\ after = "dequeued",
         op = "flush" \/ (open' = open /\ (lv = 0 => frame[0].op # "flush"))
  PROVE  WaitInv'
<1>1. PICK pc \in {"remove", "unblock"} : Begin(lv, TakenFrame(op, t, pc, after))
  BY TakesFrame
<1> DEFINE f == TakenFrame(op, t, pc, after)
<1>2. /\ f \in Frames /\ Fits(f, lv, executing') /\ Wakes(f, t) /\ ~Adds(f)
      /\ f.pc = pc /\ f.op = op
  <2>1. ASSUME NEW e
        PROVE  /\ f \in Frames /\ Fits(f, lv, e) /\ Wakes(f, t) /\ ~Adds(f)
               /\ f.pc = pc /\ f.op = op
    BY TakenFits, SMTT(30)
  <2> HIDE DEF f
  <2> QED
    BY <2>1
<1>3. Moves(lv, f)
  BY <1>1, BeginMoves DEF WaitInv
<1> HIDE DEF f
<1>4. Released(queue', queue, t)
  BY UnlinkedReleases DEF WaitInv, WaitTypes
<1>5. Typed
  BY <1>4 DEF WaitInv, WaitTypes, Typed, Released
<1>6. ASSUME NEW x \in Threads, state'[x] = "waiting" PROVE StaysKnown(x, lv, f)
  <2>1. Has(queue, x) => Has(queue', x) \/ Wakes(f, x)
    BY <1>2, <1>4 DEF Released
  <2>2. state[x] = "waiting"
    BY <1>6
  <2> QED
    BY <2>1, <2>2, PassiveKnows
<1>7. KeepsPlace(lv, f)
  BY <1>2, <1>4 DEF KeepsPlace, Passive, Wakes, Released
<1>8. KeepsNone(lv, f)
  BY <1>2, <1>4 DEF KeepsNone, Released
<1>9. KeepsGone(lv, f)
  <2>1. f.pc \notin Waits /\ f.pc # "dequeued"
    BY <1>2 DEF Waits
  <2>2. \A x : Has(queue', x) => Has(queue, x)
    BY <1>4 DEF Released
  <2>3. CASE op = "flush"
    <3>1. lv = 0 /\ frame'[0].op = "flush"
      BY <2>3, <1>2, <1>3, Moved DEF OnlyAt, WaitInv
    <3>2. DeleteLeavesNobody'
      BY <3>1 DEF DeleteLeavesNobody
    <3> QED
      BY <2>1, <2>2, <3>1, <3>2 DEF KeepsGone
  <2>4. CASE op # "flush"
    BY <2>1, <2>2, <2>4 DEF KeepsGone
  <2> QED
    BY <2>3, <2>4
<1>10. f.pc # "flash"
  BY <1>2
<1> QED
  BY <1>2, <1>3, <1>5, <1>6, <1>7, <1>8, <1>9, <1>10, WaitKept

\* _Thread_queue_Dequeue
LEMMA DequeueKept ==
  ASSUME WaitInv, NEW lv \in Levels, lv = nest \/ lv = nest + 1, NEW op \in Ops,
         Dequeue(lv, op), Passive(lv), number' = number,
         op = "flush" => lv = 0,
         op = "flush" \/ (open' = open /\ (lv = 0 => frame[0].op # "flush"))
  PROVE  WaitInv'
<1>0. UNCHANGED <<state, executing, priority, discipline>>
  BY DEF Dequeue
<1>1. queue \in Chains
  BY DEF WaitInv, WaitTypes
<1>2. CASE First # NULL
  <2>1. /\ queue' = Unlinked(First) /\ Take(lv, op, First, "dequeued")
        /\ sync_state' = sync_state
    BY <1>2 DEF Dequeue
  <2>2. First \in Threads
    BY <1>1, <1>2, FirstFacts
  <2> QED
    BY <1>0, <2>1, <2>2, TakeKept
<1>3. CASE First = NULL
  <2> DEFINE x == IF OnItsWay THEN executing ELSE NULL
             f == [IdleFrame EXCEPT !.pc = "dequeued", !.op = op, !.thread = x]
  <2>1. /\ sync_state' = IF OnItsWay THEN "SATISFIED" ELSE sync_state
        /\ queue' = queue
        /\ Begin(lv, f)
    BY <1>3 DEF Dequeue, Told
  <2>2. x \in Threads \cup {NULL}
    BY DEF WaitInv, WaitTypes
  <2> HIDE DEF x
  <2>4. f.pc = "dequeued" /\ f.op = op /\ f.thread = x
    BY DEF IdleFrame
  <2>5. f \in Frames
    BY <2>2 DEF IdleFrame, Frames, Places
  <2> HIDE DEF f
  <2>6. Moves(lv, f)
    BY <2>1, BeginMoves DEF WaitInv
  <2>7. f.pc \notin Waits /\ f.pc # "flash"
    BY <2>4 DEF Waits
  <2>8. Fits(f, lv, executing')
    <3>1. lv > 0 => lv # 0
      BY LevelsFacts, SMT
    <3> QED
      BY <2>4, <2>7, <3>1 DEF Fits
  <2>9. sync_state' # "NOTHING_HAPPENED" /\ sync_state' \in SyncStates
    BY <2>1 DEF OnItsWay, SyncStates, WaitInv, WaitTypes
  <2>10. \A t : ~Has(queue', t)
    BY <1>1, <1>3, <2>1, FirstFacts
  <2>11. Typed
    BY <1>0, <2>1, <2>9 DEF WaitInv, WaitTypes, Typed
  <2>12. ASSUME NEW t \in Threads, state'[t] = "waiting" PROVE StaysKnown(t, lv, f)
    <3>1. state[t] = "waiting" /\ executing' = executing /\ queue' = queue
      BY <1>0, <2>1, <2>12
    <3> QED
      BY <3>1, PassiveKnows
  <2>13. KeepsPlace(lv, f)
    BY <1>0, <2>1 DEF KeepsPlace, Passive, Wakes
  <2>14. KeepsNone(lv, f)
    BY <2>9, <2>10 DEF KeepsNone
  <2>15. KeepsGone(lv, f)
    <3>1. CASE op = "flush"
      <4>1. lv = 0 /\ frame'[0].op = "flush"
        BY <3>1, <2>4, <2>5, <2>6, Moved DEF OnlyAt, WaitInv
      <4>2. DeleteLeavesNobody'
        BY <4>1 DEF DeleteLeavesNobody
      <4> QED
        BY <4>1, <4>2, <2>7, <2>10 DEF KeepsGone
    <3>2. CASE op # "flush"
      BY <1>0, <3>2, <2>7, <2>10 DEF KeepsGone
    <3> QED
      BY <3>1, <3>2
  <2>16. executing' = executing
    BY <1>0
  <2> QED
    BY <2>5, <2>6, <2>7, <2>8, <2>11, <2>12, <2>13, <2>14, <2>15, <2>16, WaitKept
<1> QED
  BY <1>2, <1>3

\* The level that goes on, and what it fits.
LEMMA AtLevel ==
  ASSUME WaitInv
  PROVE  /\ nest \in Levels /\ frame[nest] \in Frames
         /\ Fits(frame[nest], nest, executing)
         /\ 0 \in Levels /\ frame[0] \in Frames /\ Fits(frame[0], 0, executing)
         /\ frame[nest].pc \in Waits => nest = 0 /\ executing \in Threads
<1>1. nest \in Levels /\ 0 \in Levels
  BY LevelsFacts DEF WaitInv, WaitTypes
<1>2. frame[nest] \in Frames /\ frame[0] \in Frames
  BY <1>1 DEF WaitInv, WaitTypes
<1>3. Fits(frame[nest], nest, executing) /\ Fits(frame[0], 0, executing)
  BY <1>1 DEF WaitInv, FramesFit
<1>4. nest > 0 \/ nest = 0
  BY <1>1, LevelsFacts, SMT
<1>5. frame[nest].pc \in Waits => nest = 0 /\ executing \in Threads
  BY <1>3, <1>4 DEF Fits
<1> QED
  BY <1>1, <1>2, <1>3, <1>5

\* _Watchdog_Remove
LEMMA RemoveTimerKept ==
  ASSUME WaitInv, RemoveTimer, UNCHANGED queueVars, UNCHANGED messageVars
  PROVE  WaitInv'
<1> DEFINE f == [frame[nest] EXCEPT !.pc = "unblock"]
<1>1. /\ frame[nest].pc = "remove" /\ Goto("unblock")
      /\ UNCHANGED <<state, executing, queue, sync_state, priority, discipline, open, number>>
  BY DEF RemoveTimer, At, queueVars, messageVars
<1>2. Moves(nest, f)
  BY <1>1, GotoMoves DEF WaitInv
<1>3. /\ f \in Frames /\ f.pc = "unblock" /\ f.op = frame[nest].op
      /\ f.thread = frame[nest].thread /\ f.after = frame[nest].after
  <2>1. frame[nest] \in Frames /\ "unblock" \in Places
    BY AtLevel DEF Places
  <2> QED
    BY <2>1, FrameGoesOn
<1> HIDE DEF f
<1>4. f.pc \notin Waits /\ f.pc # "flash" /\ f.pc # "dequeued"
  BY <1>3 DEF Waits
<1>5. Fits(f, nest, executing')
  BY <1>1, <1>3, <1>4, AtLevel DEF Fits
<1>6. ~Adds(f)
  BY <1>3 DEF Adds
<1>7. \A t : Wakes(frame[nest], t) => Wakes(f, t)
  BY <1>3 DEF Wakes
<1>8. Typed
  BY <1>1 DEF WaitInv, WaitTypes, Typed
<1>9. nest = 0 => frame[0].pc \notin Approach
  BY <1>1 DEF Approach
<1>10. ASSUME NEW t \in Threads, state'[t] = "waiting" PROVE StaysKnown(t, nest, f)
  BY <1>1, <1>7, <1>9, <1>10 DEF StaysKnown
<1>11. KeepsPlace(nest, f)
  BY <1>1, <1>7 DEF KeepsPlace
<1>12. KeepsNone(nest, f)
  BY <1>1, <1>6, SMT DEF KeepsNone
<1>13. KeepsGone(nest, f)
  BY <1>1, <1>3, <1>4 DEF KeepsGone
<1>14. executing' = executing /\ nest \in Levels
  BY <1>1, AtLevel
<1> QED
  BY <1>2, <1>3, <1>4, <1>5, <1>8, <1>10, <1>11, <1>12, <1>13, <1>14, WaitKept, SMTT(30)

\* _Thread_Unblock
LEMMA UnblockKept ==
  ASSUME WaitInv, Unblock, UNCHANGED queueVars, UNCHANGED messageVars
  PROVE  WaitInv'
<1> DEFINE x == frame[nest].thread
           g == [frame[nest] EXCEPT !.pc = frame[nest].after]
<1>1. /\ frame[nest].pc = "unblock" /\ state' = [state EXCEPT ![x] = "ready"]
      /\ IF frame[nest].after = "idle" THEN Finish ELSE Goto(frame[nest].after)
      /\ UNCHANGED <<executing, queue, sync_state, priority, discipline, open, number>>
  BY DEF Unblock, At, queueVars, messageVars
<1>2. /\ nest \in Levels /\ frame[nest] \in Frames
      /\ Fits(frame[nest], nest, executing)
  BY AtLevel
<1>3. x \in Threads /\ x # NULL
  BY <1>1, <1>2, BlockingAssumption DEF Fits
<1>4. frame[nest].after \in {"idle", "dequeued", "blocked"}
  BY <1>2 DEF Frames
<1>5. \E f \in Frames :
        /\ Moves(nest, f) /\ Fits(f, nest, executing)
        /\ f.pc \in {"idle", "dequeued", "blocked"}
        /\ f.pc = "dequeued" => f.thread # NULL
        /\ frame[nest].op = "flush" => f.op = "flush"
  <2>1. CASE frame[nest].after = "idle"
    <3>1. Moves(nest, IdleFrame)
      BY <1>1, <2>1, FinishMoves DEF WaitInv
    <3>2. frame[nest].op # "flush"
      BY <1>1, <1>2, <2>1 DEF Fits
    <3> QED
      BY <3>1, <3>2, IdleFits
  <2>2. CASE frame[nest].after # "idle"
    <3>1. Moves(nest, g)
      BY <1>1, <2>2, GotoMoves DEF WaitInv
    <3>2. /\ g \in Frames /\ g.pc = frame[nest].after /\ g.op = frame[nest].op
          /\ g.thread = x /\ g.after = frame[nest].after
      <4>1. frame[nest].after \in Places
        BY <1>4 DEF Places
      <4> QED
        BY <1>2, <4>1, FrameGoesOn
    <3> HIDE DEF g
    <3>3. g.pc \in {"dequeued", "blocked"} /\ g.pc \notin Waits
      BY <1>4, <2>2, <3>2 DEF Waits
    <3>4. Fits(g, nest, executing)
      BY <1>1, <1>2, <3>2, <3>3 DEF Fits
    <3> QED
      BY <1>3, <3>1, <3>2, <3>3, <3>4
  <2> QED
    BY <2>1, <2>2
<1>6. PICK f \in Frames :
        /\ Moves(nest, f) /\ Fits(f, nest, executing)
        /\ f.pc \in {"idle", "dequeued", "blocked"}
        /\ f.pc = "dequeued" => f.thread # NULL
        /\ frame[nest].op = "flush" => f.op = "flush"
  BY <1>5
<1>7. f.pc \notin Waits /\ f.pc # "flash"
  BY <1>6 DEF Waits
<1>8. ~Adds(f)
  BY <1>6 DEF Adds
<1>9. state \in [Threads -> {"ready", "waiting"}]
  BY DEF WaitInv, WaitTypes
<1>10. /\ state' \in [Threads -> {"ready", "waiting"}]
       /\ \A t \in Threads : state'[t] = "waiting" => state[t] = "waiting" /\ t # x
  BY <1>1, <1>3, <1>9
<1> HIDE DEF x
<1>11. Typed
  BY <1>1, <1>10 DEF WaitInv, WaitTypes, Typed
<1>12. nest = 0 => frame[0].pc \notin Approach
  BY <1>1 DEF Approach
<1>13. \A t : t # x => ~Wakes(frame[nest], t)
  BY DEF Wakes, x
<1>14. ASSUME NEW t \in Threads, state'[t] = "waiting" PROVE StaysKnown(t, nest, f)
  BY <1>1, <1>10, <1>12, <1>13, <1>14 DEF StaysKnown
<1>15. KeepsPlace(nest, f)
  BY <1>1, <1>10, <1>13 DEF KeepsPlace
<1>16. KeepsNone(nest, f)
  BY <1>1, <1>8 DEF KeepsNone
<1>17. KeepsGone(nest, f)
  BY <1>1, <1>6, <1>7, <1>10 DEF KeepsGone
<1>18. executing' = executing
  BY <1>1
<1> QED
  BY <1>2, <1>6, <1>7, <1>11, <1>14, <1>15, <1>16, <1>17, <1>18, WaitKept

-----------------------------------------------------------------------------
\* The executing thread on its way to the queue.

\* Its step leaves the other threads where they are, and itself on its way, on
\* the queue or about to be made ready.
Approaches(f) ==
  /\ UNCHANGED <<executing, priority, discipline, number, open>>
  /\ \A t \in Threads : t # executing /\ state'[t] = "waiting" => state[t] = "waiting"
  /\ state'[executing] = "waiting" =>
       Has(queue', executing) \/ Wakes(f, executing) \/ f.pc \in Approach
  /\ \A t : Has(queue, t) => Has(queue', t)
  /\ \A t : Has(queue', t) => Has(queue, t) \/ sync_state = "NOTHING_HAPPENED"
  /\ sync_state' = "NOTHING_HAPPENED" => sync_state = "NOTHING_HAPPENED"
  /\ f.op = "none" /\ f.pc # "dequeued" /\ ~Adds(f)

LEMMA ApproachKept ==
  ASSUME WaitInv, frame[nest].pc \in Waits, NEW f \in Frames, Moves(0, f),
         Fits(f, 0, executing), Approaches(f),
         state' \in [Threads -> {"ready", "waiting"}], queue' \in Chains,
         sync_state' \in SyncStates,
         f.pc = "flash" => Leads(queue', MyHeader, f.search)
  PROVE  WaitInv'
<1>1. /\ executing' = executing /\ priority' = priority /\ discipline' = discipline
      /\ number' = number /\ open' = open
  BY DEF Approaches
<1>2. 0 \in Levels /\ nest = 0 /\ executing \in Threads
  BY AtLevel
<1>3. open
  BY <1>2 DEF WaitInv, ClosedForWaiters
<1>4. Typed
  BY <1>1 DEF WaitInv, WaitTypes, Typed
<1>5. \A t : ~Wakes(frame[0], t)
  BY <1>2 DEF Wakes, Waits
<1>6. ASSUME NEW t \in Threads, state'[t] = "waiting" PROVE StaysKnown(t, 0, f)
  <2>1. CASE t = executing
    BY <1>1, <1>6, <2>1 DEF Approaches, StaysKnown
  <2>2. CASE t # executing
    <3>1. state[t] = "waiting"
      BY <1>6, <2>2 DEF Approaches
    <3>2. Has(queue, t) => Has(queue', t)
      BY DEF Approaches
    <3>3. Has(queue, t) \/ Waking(t)
      BY <2>2, <3>1 DEF WaitInv, WaitersKnown, Approaching
    <3>4. ~Waking(t)
      <4>1. SUFFICES ASSUME NEW l \in Levels, Wakes(frame[l], t) PROVE FALSE
        BY DEF Waking
      <4>2. l # 0
        BY <4>1, <1>5
      <4>3. l > nest
        BY <4>2, <1>2, LevelsFacts, SMT
      <4>4. frame[l] = IdleFrame
        BY <4>3 DEF WaitInv, FramesFit
      <4> QED
        BY <4>1, <4>4, IdleFits DEF Wakes
    <3> QED
      BY <3>2, <3>3, <3>4 DEF StaysKnown
  <2> QED
    BY <2>1, <2>2
<1>7. KeepsNone(0, f)
  BY <1>1 DEF KeepsNone, Approaches
<1>8. KeepsGone(0, f)
  <2>1. DeleteLeavesNobody'
    BY <1>1, <1>3 DEF DeleteLeavesNobody
  <2> QED
    BY <1>1, <1>3, <2>1 DEF KeepsGone, Approaches
<1>9. MyHeader' = MyHeader
  BY <1>1 DEF MyHeader, Header
<1>10. f.pc = "flash" => Leads(queue', MyHeader', f.search)
  BY <1>9
<1>11. Fits(f, 0, executing')
  BY <1>1
<1> QED
  BY <1>1, <1>2, <1>4, <1>6, <1>7, <1>8, <1>10, <1>11, WaitKept

\* What its frame becomes.
LEMMA ApproachFrame ==
  ASSUME WaitInv, frame[nest].pc \in Waits, NEW pc \in Places, pc # "flash"
  PROVE  /\ [frame[0] EXCEPT !.pc = pc] \in Frames
         /\ [frame[0] EXCEPT !.pc = pc].pc = pc
         /\ [frame[0] EXCEPT !.pc = pc].op = "none"
         /\ [frame[0] EXCEPT !.pc = pc].thread = executing
         /\ Fits([frame[0] EXCEPT !.pc = pc], 0, executing)
<1> DEFINE f == [frame[0] EXCEPT !.pc = pc]
<1>1. /\ frame[0] \in Frames /\ Fits(frame[0], 0, executing)
      /\ frame[0].pc \in Waits /\ executing \in Threads
  BY AtLevel
<1>2. f \in Frames /\ f.pc = pc /\ f.op = frame[0].op /\ f.thread = frame[0].thread
  BY <1>1, FrameGoesOn
<1> HIDE DEF f
<1>3. f.op = "none" /\ f.thread = executing
  BY <1>1, <1>2 DEF Fits
<1>4. ~(0 > 0)
  BY SMT
<1>5. Fits(f, 0, executing)
  BY <1>1, <1>2, <1>3, <1>4 DEF Fits
<1> QED
  BY <1>2, <1>3, <1>5 DEF f

LEMMA ApproachGoto ==
  ASSUME WaitInv, frame[nest].pc \in Waits, NEW pc \in {"timer", "enqueue", "blocked"},
         Goto(pc),
         UNCHANGED <<executing, priority, discipline, number, open>>,
         state' \in [Threads -> {"ready", "waiting"}], queue' \in Chains,
         sync_state' \in SyncStates,
         \A t \in Threads : t # executing /\ state'[t] = "waiting" => state[t] = "waiting",
         pc = "blocked" => Has(queue', executing),
         \A t : Has(queue, t) => Has(queue', t),
         \A t : Has(queue', t) => Has(queue, t) \/ sync_state = "NOTHING_HAPPENED",
         sync_state' = "NOTHING_HAPPENED" => sync_state = "NOTHING_HAPPENED"
  PROVE  WaitInv'
<1> DEFINE f == [frame[0] EXCEPT !.pc = pc]
<1>1. pc \in Places /\ pc # "flash"
  BY DEF Places
<1>2. /\ f \in Frames /\ f.pc = pc /\ f.op = "none" /\ Fits(f, 0, executing)
  BY <1>1, ApproachFrame
<1>3. nest = 0
  BY AtLevel
<1>4. Moves(0, f)
  BY <1>3, GotoMoves DEF WaitInv
<1> HIDE DEF f
<1>5. ~Adds(f)
  BY <1>2 DEF Adds
<1>6. Approaches(f)
  BY <1>2, <1>5 DEF Approaches, Approach
<1>7. f.pc # "flash"
  BY <1>1, <1>2
<1> QED
  BY <1>2, <1>4, <1>6, <1>7, ApproachKept

\* Block, then start the timer.
LEMMA EnqueueBeginKept ==
  ASSUME WaitInv, EnqueueBegin, UNCHANGED messageVars
  PROVE  WaitInv'
<1>0. UNCHANGED <<queue, sync_state, priority, discipline, number, open>>
  BY DEF EnqueueBegin, queueVars, messageVars
<1>1. /\ state \in [Threads -> {"ready", "waiting"}] /\ queue \in Chains
      /\ sync_state \in SyncStates
  BY DEF WaitInv, WaitTypes
<1>2. CASE Block(IF frame[0].timed THEN "timer" ELSE "enqueue")
  <2> DEFINE pc == IF frame[0].timed THEN "timer" ELSE "enqueue"
  <2>1. /\ frame[nest].pc = "block" /\ state' = [state EXCEPT ![executing] = "waiting"]
        /\ Goto(pc) /\ executing' = executing
    BY <1>2 DEF Block, At
  <2>2. pc \in {"timer", "enqueue", "blocked"} /\ pc # "blocked"
    OBVIOUS
  <2> HIDE DEF pc
  <2>3. frame[nest].pc \in Waits
    BY <2>1 DEF Waits
  <2>4. /\ state' \in [Threads -> {"ready", "waiting"}]
        /\ \A t \in Threads : t # executing /\ state'[t] = "waiting" => state[t] = "waiting"
    BY <1>1, <2>1
  <2> QED
    BY <1>0, <1>1, <2>1, <2>2, <2>3, <2>4, ApproachGoto
<1>3. CASE StartTimer("enqueue")
  <2>1. /\ frame[nest].pc = "timer" /\ state' = state
        /\ Goto("enqueue") /\ executing' = executing
    BY <1>3 DEF StartTimer, At
  <2>2. frame[nest].pc \in Waits
    BY <2>1 DEF Waits
  <2> QED
    BY <1>0, <1>1, <2>1, <2>2, ApproachGoto
<1> QED
  BY <1>2, <1>3 DEF EnqueueBegin

\* Something happened to it.
LEMMA SynchronizeKept ==
  ASSUME WaitInv, frame[nest].pc \in Waits, Synchronize, UNCHANGED messageVars
  PROVE  WaitInv'
<1>1. /\ UNCHANGED <<state, executing, queue, priority, discipline, number, open>>
      /\ sync_state' = "SYNCHRONIZED"
  BY DEF Synchronize, messageVars
<1>2. /\ state \in [Threads -> {"ready", "waiting"}] /\ queue \in Chains
      /\ WaitTypes
  BY DEF WaitInv, WaitTypes
<1>3. nest = 0 /\ 0 \in Levels /\ executing \in Threads /\ frame[0] \in Frames
  BY AtLevel
<1>4. ASSUME NEW f \in Frames, Moves(0, f), Fits(f, 0, executing), ~Adds(f),
             f.op = "none", f.pc \in {"remove", "unblock"}, f.thread = executing
      PROVE  WaitInv'
  <2>1. Wakes(f, executing)
    BY <1>4 DEF Wakes
  <2>2. Approaches(f)
    BY <1>1, <1>4, <2>1 DEF Approaches
  <2>3. f.pc # "flash" /\ state' \in [Threads -> {"ready", "waiting"}]
        /\ queue' \in Chains /\ sync_state' \in SyncStates
    BY <1>1, <1>2, <1>4 DEF SyncStates
  <2> QED
    BY <1>4, <2>2, <2>3, ApproachKept
<1>5. CASE Take(0, "none", executing, "blocked")
  <2>1. PICK pc \in {"remove", "unblock"} :
          Begin(0, TakenFrame("none", executing, pc, "blocked"))
    BY <1>5, TakesFrame
  <2> DEFINE f == TakenFrame("none", executing, pc, "blocked")
  <2>2. /\ f \in Frames /\ Fits(f, 0, executing) /\ Wakes(f, executing) /\ ~Adds(f)
        /\ f.pc = pc /\ f.op = "none"
    <3> DEFINE op == "none"
               after == "blocked"
    <3>1. /\ op \in Ops \cup {"none", "timeout"}
          /\ op = "flush" => 0 = 0 /\ after = "dequeued"
          /\ after \in {"idle", "dequeued", "blocked"}
      OBVIOUS
    <3>2. f = TakenFrame(op, executing, pc, after) /\ op = "none"
      OBVIOUS
    <3> HIDE DEF op, after, f
    <3> QED
      BY <1>3, <3>1, <3>2, TakenFits, SMT
  <2>3. Moves(0, f)
    BY <1>2, <1>3, <2>1, BeginMoves
  <2> HIDE DEF f
  <2>4. f.thread = executing
    BY <2>2 DEF Wakes
  <2> QED
    BY <1>4, <2>2, <2>3, <2>4
<1>6. CASE Begin(0, [frame[0] EXCEPT !.pc = "unblock", !.after = "blocked"])
  <2> DEFINE g == [frame[0] EXCEPT !.pc = "unblock"]
             f == [frame[0] EXCEPT !.pc = "unblock", !.after = "blocked"]
  <2>1. /\ f \in Frames /\ f.pc = "unblock" /\ f.op = frame[0].op
        /\ f.thread = frame[0].thread
    BY <1>3 DEF Frames, Places
  <2>2. Moves(0, f)
    BY <1>2, <1>3, <1>6, BeginMoves
  <2> HIDE DEF f
  <2>3. frame[0].op = "none" /\ frame[0].thread = executing
    BY <1>3, AtLevel DEF Fits
  <2>4. Fits(f, 0, executing) /\ ~Adds(f)
    <3>1. ~(0 > 0) /\ "unblock" \notin Waits
      BY SMT DEF Waits
    <3> QED
      BY <1>3, <2>1, <2>3, <3>1 DEF Fits, Adds
  <2> QED
    BY <1>4, <2>1, <2>2, <2>3, <2>4
<1> QED
  BY <1>5, <1>6 DEF Synchronize

\* It is put on the queue.
LEMMA LinkKept ==
  ASSUME WaitInv, frame[nest].pc \in Waits, NEW q, Link(q),
         Entered(q, queue, executing), UNCHANGED messageVars
  PROVE  WaitInv'
<1>1. /\ UNCHANGED <<state, executing, priority, discipline, number, open>>
      /\ sync_state = "NOTHING_HAPPENED" /\ sync_state' = "SYNCHRONIZED"
      /\ queue' = q /\ Goto("blocked")
  BY DEF Link, messageVars
<1>2. state \in [Threads -> {"ready", "waiting"}]
  BY DEF WaitInv, WaitTypes
<1>3. /\ queue' \in Chains /\ Has(queue', executing)
      /\ \A t : Has(queue, t) => Has(queue', t)
  BY <1>1 DEF Entered
<1>4. state' \in [Threads -> {"ready", "waiting"}] /\ sync_state' \in SyncStates
  BY <1>1, <1>2 DEF SyncStates
<1> QED
  BY <1>1, <1>3, <1>4, ApproachGoto

\* It searches for its place, and lets interrupts in at the first of a group.
LEMMA SearchStepKept ==
  ASSUME WaitInv, frame[nest].pc \in Waits, NEW i \in Stops, Search(i),
         UNCHANGED messageVars
  PROVE  WaitInv'
<1> DEFINE at == IF Unroll /\ Passes(i) THEN Step(i) ELSE i
<1>1. /\ state \in [Threads -> {"ready", "waiting"}] /\ queue \in Chains
      /\ priority \in [Threads -> Priorities] /\ sync_state \in SyncStates
      /\ WaitTypes
  BY DEF WaitInv, WaitTypes
<1>2. nest = 0 /\ 0 \in Levels /\ executing \in Threads /\ frame[0] \in Frames
  BY AtLevel
<1>3. at \in Stops
  <2>1. Passes(i) => i \in DOMAIN queue[MyHeader]
    BY DEF Passes
  <2> QED
    BY <2>1, <1>1, <1>2, StepStops
<1>4. \/ Synchronize
      \/ Link(Placed(at))
      \/ /\ Passes(at)
         /\ Begin(0, [frame[0] EXCEPT !.pc = "flash", !.search = Leader(MyHeader, at)])
         /\ UNCHANGED <<state, executing, queue, sync_state, priority, discipline>>
  BY DEF Search, queueVars
<1> HIDE DEF at
<1>5. CASE Synchronize
  BY <1>5, SynchronizeKept
<1>6. CASE Link(Placed(at))
  <2>1. Entered(Placed(at), queue, executing)
    BY <1>1, <1>2, <1>3, PlacedEnters
  <2> QED
    BY <1>6, <2>1, LinkKept
<1>7. CASE /\ Passes(at)
           /\ Begin(0, [frame[0] EXCEPT !.pc = "flash", !.search = Leader(MyHeader, at)])
           /\ UNCHANGED <<state, executing, queue, sync_state, priority, discipline>>
  <2> DEFINE t == Leader(MyHeader, at)
             f == [frame[0] EXCEPT !.pc = "flash", !.search = t]
  <2>1. at \in DOMAIN queue[MyHeader]
    BY <1>7 DEF Passes
  <2>2. t = queue[MyHeader][at][1]
    BY <2>1 DEF Leader
  <2>3. MyHeader \in Headers
    BY <1>1, <1>2, MyHeaderFacts
  <2>4. t \in Threads
    BY <1>1, <2>1, <2>2, <2>3, ChainFacts, SMT
  <2>5. Leads(queue, MyHeader, t)
    BY <2>1, <2>2 DEF Leads
  <2>6. Begin(0, f)
    BY <1>7
  <2> HIDE DEF t
  <2>7. /\ f \in Frames /\ f.pc = "flash" /\ f.op = frame[0].op
        /\ f.thread = frame[0].thread /\ f.search = t
    BY <1>2, <2>4 DEF Frames, Places
  <2>8. Moves(0, f)
    BY <1>1, <1>2, <2>6, BeginMoves
  <2> HIDE DEF f
  <2>9. frame[0].op = "none" /\ frame[0].thread = executing
    BY <1>2, AtLevel DEF Fits
  <2>10. Fits(f, 0, executing) /\ ~Adds(f)
    <3>1. ~(0 > 0)
      BY SMT
    <3> QED
      BY <1>2, <2>4, <2>7, <2>9, <3>1 DEF Fits, Adds
  <2>11. number' = number /\ open' = open
    BY DEF messageVars
  <2>12. Approaches(f)
    BY <1>7, <2>7, <2>9, <2>10, <2>11 DEF Approaches, Approach
  <2>13. Leads(queue', MyHeader, f.search)
    BY <1>7, <2>5, <2>7
  <2>14. /\ state' \in [Threads -> {"ready", "waiting"}] /\ queue' \in Chains
         /\ sync_state' \in SyncStates
    BY <1>1, <1>7
  <2> QED
    BY <2>7, <2>8, <2>10, <2>12, <2>13, <2>14, ApproachKept
<1> QED
  BY <1>4, <1>5, <1>6, <1>7

\* _Thread_queue_Enqueue_fifo and _Thread_queue_Enqueue_priority.  When a search
\* goes on after its flash, no handler is under way: the thread it is at still
\* heads its group.
LEMMA EnqueueKept ==
  ASSUME WaitInv, EnqueueFifo \/ EnqueuePriority \/ ResumeSearch, UNCHANGED messageVars
  PROVE  WaitInv'
<1>1. frame[nest].pc \in Waits
  BY DEF EnqueueFifo, EnqueuePriority, ResumeSearch, At, Waits
<1>2. nest = 0 /\ 0 \in Levels /\ executing \in Threads /\ Fits(frame[0], 0, executing)
  BY <1>1, AtLevel
<1>3. /\ queue \in Chains /\ priority \in [Threads -> Priorities]
      /\ state \in [Threads -> {"ready", "waiting"}] /\ sync_state \in SyncStates
  BY DEF WaitInv, WaitTypes
<1>4. MyHeader \in Headers /\ Len(queue[MyHeader]) \in Nat
  BY <1>2, <1>3, MyHeaderFacts, ChainFacts
<1>5. CASE EnqueueFifo
  <2>1. Synchronize \/ Link([queue EXCEPT ![0] = Behind(@, <<executing>>)])
    BY <1>5 DEF EnqueueFifo
  <2>2. Entered([queue EXCEPT ![0] = Behind(@, <<executing>>)], queue, executing)
    BY <1>2, <1>3, BehindEnters
  <2> QED
    BY <1>1, <2>1, <2>2, SynchronizeKept, LinkKept
<1>6. CASE EnqueuePriority
  <2> DEFINE i == IF Reverse THEN Len(queue[MyHeader]) ELSE 1
  <2>1. Search(i)
    BY <1>6 DEF EnqueuePriority
  <2>2. i \in Stops
    BY <1>4, SMT DEF Stops
  <2> HIDE DEF i
  <2> QED
    BY <1>1, <2>1, <2>2, SearchStepKept
<1>7. CASE ResumeSearch
  <2>1. CASE ~StillThere
    <3>1. /\ Goto("enqueue")
          /\ UNCHANGED <<state, executing, queue, sync_state, priority, discipline>>
      BY <1>7, <2>1 DEF ResumeSearch, queueVars
    <3>2. number' = number /\ open' = open
      BY DEF messageVars
    <3> QED
      BY <1>1, <1>3, <3>1, <3>2, ApproachGoto
  <2>2. CASE StillThere
    <3> DEFINE t == frame[0].search
               a == {i \in DOMAIN queue[MyHeader] : queue[MyHeader][i][1] = t}
               g == GroupOf(MyHeader, t)
    <3>1. frame[0].pc = "flash" /\ state[t] = "waiting" /\ Search(Step(g))
      BY <1>2, <1>7, <2>2 DEF ResumeSearch, StillThere, At
    <3>2. ~Waking(t)
      <4>1. SUFFICES ASSUME NEW l \in Levels, Wakes(frame[l], t) PROVE FALSE
        BY DEF Waking
      <4>2. l # 0
        BY <4>1, <3>1 DEF Wakes
      <4>3. l > nest
        BY <4>2, <1>2, LevelsFacts, SMT
      <4>4. frame[l] = IdleFrame
        BY <4>3 DEF WaitInv, FramesFit
      <4> QED
        BY <4>1, <4>4, IdleFits DEF Wakes
    <3>3. Leads(queue, MyHeader, t)
      BY <3>1, <3>2 DEF WaitInv, SearchLeads
    <3>4. a # {} /\ a \in SUBSET Nat /\ a \subseteq DOMAIN queue[MyHeader]
      <4>1. a # {}
        BY <3>3 DEF Leads
      <4>2. DOMAIN queue[MyHeader] \subseteq Nat
        BY <1>3, <1>4, ChainFacts, SMT
      <4> QED
        BY <4>1, <4>2
    <3>5. g = Min(a)
      BY <3>4 DEF GroupOf
    <3> HIDE DEF a, g
    <3>6. g \in DOMAIN queue[MyHeader]
      BY <3>4, <3>5, LeastIn
    <3>7. Step(g) \in Stops
      BY <1>2, <1>3, <3>6, StepStops
    <3> QED
      BY <1>1, <3>1, <3>7, SearchStepKept
  <2> QED
    BY <2>1, <2>2
<1> QED
  BY <1>5, <1>6, <1>7

-----------------------------------------------------------------------------
\* The other steps of the thread queue.

\* The frame of a time-out that goes on.
LEMMA TimeoutFrame ==
  ASSUME WaitInv,
         frame[nest].pc \in {"timeout", "sync", "expired"},
         NEW pc \in {"sync", "mark", "expired", "extract"}
  PROVE  /\ Fits([frame[nest] EXCEPT !.pc = pc], nest, executing)
         /\ ~Adds([frame[nest] EXCEPT !.pc = pc])
         /\ pc \in Places \ Waits /\ pc # "dequeued"
         /\ Passive(nest) /\ frame[nest].op # "flush"
<1> DEFINE f == [frame[nest] EXCEPT !.pc = pc]
<1>1. /\ frame[nest] \in Frames /\ nest \in Levels
      /\ Fits(frame[nest], nest, executing)
  BY AtLevel
<1>2. pc \in Places \ Waits /\ pc # "dequeued"
  BY DEF Places, Waits
<1>3. f.pc = pc /\ f.op = frame[nest].op /\ f.thread = frame[nest].thread
  BY <1>1, <1>2, FrameGoesOn
<1> HIDE DEF f
<1>4. frame[nest].op # "flush" /\ frame[nest].thread \in Threads
  BY <1>1 DEF Fits
<1>5. Fits(f, nest, executing) /\ ~Adds(f)
  BY <1>1, <1>2, <1>3, <1>4 DEF Fits, Adds
<1>6. Passive(nest)
  BY DEF Passive, Waits
<1> QED
  BY <1>2, <1>4, <1>5, <1>6 DEF f

LEMMA TimeoutKept ==
  ASSUME WaitInv, TimeoutTest \/ TimeoutMark \/ TimeoutStatus, UNCHANGED messageVars
  PROVE  WaitInv'
<1>1. number \in Nat /\ number' = number /\ open' = open
  BY DEF WaitInv, WaitTypes, messageVars
<1>2. CASE TimeoutTest
  <2>1. UNCHANGED <<state, queue, priority, discipline, executing, sync_state>>
    BY <1>2 DEF TimeoutTest, queueVars
  <2>2. Still(nest)
    BY <1>1, <2>1 DEF Still
  <2>3. CASE At("timeout")
        /\ Goto(IF StillBlocking(frame[nest].thread) THEN "sync" ELSE "expired")
    <3> DEFINE pc == IF StillBlocking(frame[nest].thread) THEN "sync" ELSE "expired"
    <3>1. pc \in {"sync", "mark", "expired", "extract"} /\ Goto(pc)
      BY <2>3
    <3> HIDE DEF pc
    <3>2. frame[nest].pc \in {"timeout", "sync", "expired"}
      BY <2>3 DEF At
    <3> QED
      BY <2>2, <3>1, <3>2, TimeoutFrame, StillGoto
  <2>4. CASE At("sync") /\ IF NotSatisfied THEN Goto("mark") ELSE Finish
    <3>1. frame[nest].pc \in {"timeout", "sync", "expired"}
      BY <2>4 DEF At
    <3>2. "mark" \in {"sync", "mark", "expired", "extract"}
      OBVIOUS
    <3> QED
      BY <2>2, <2>4, <3>1, <3>2, TimeoutFrame, StillGoto, StillFinish
  <2> QED
    BY <1>2, <2>3, <2>4 DEF TimeoutTest
<1>3. CASE TimeoutMark
  <2>1. /\ UNCHANGED <<state, queue, priority, discipline, executing>>
        /\ sync_state' = "TIMEOUT" /\ Finish /\ frame[nest].pc = "mark"
    BY <1>3 DEF TimeoutMark, At
  <2>2. Still(nest)
    BY <1>1, <2>1 DEF Still
  <2>3. frame[nest].op # "flush" /\ Passive(nest)
    BY <2>1, AtLevel DEF Fits, Passive, Waits
  <2> QED
    BY <2>1, <2>2, <2>3, StillFinish
<1>4. CASE TimeoutStatus
  <2>1. /\ UNCHANGED <<state, queue, priority, discipline, executing, sync_state>>
        /\ Goto("extract") /\ frame[nest].pc = "expired"
    BY <1>4 DEF TimeoutStatus, At, queueVars
  <2>2. Still(nest)
    BY <1>1, <2>1 DEF Still
  <2>3. /\ "extract" \in {"sync", "mark", "expired", "extract"}
        /\ frame[nest].pc \in {"timeout", "sync", "expired"}
    BY <2>1
  <2> QED
    BY <2>1, <2>2, <2>3, TimeoutFrame, StillGoto
<1> QED
  BY <1>2, <1>3, <1>4

\* _Thread_queue_Extract
LEMMA ExtractKept ==
  ASSUME WaitInv, ExtractStep, UNCHANGED messageVars
  PROVE  WaitInv'
<1> DEFINE op == frame[nest].op
           t == frame[nest].thread
<1>1. /\ frame[nest].pc = "extract"
      /\ Extract(op, t)
      /\ UNCHANGED <<state, executing, sync_state, priority, discipline>>
      /\ number' = number /\ open' = open
  BY DEF ExtractStep, Extract, At, messageVars
<1>2. /\ nest \in Levels /\ frame[nest] \in Frames
      /\ Fits(frame[nest], nest, executing)
  BY AtLevel
<1>3. /\ op \in Ops \cup {"none", "timeout"} /\ t \in Threads /\ op # "flush"
  BY <1>1, <1>2 DEF Fits, Frames
<1>4. Passive(nest)
  BY <1>1 DEF Passive, Waits
<1>5. CASE queue' = Unlinked(t) /\ Take(nest, op, t, "idle")
  <2>1. nest = 0 => frame[0].op # "flush"
    BY <1>3
  <2>2. "idle" \in {"idle", "dequeued", "blocked"}
    OBVIOUS
  <2> HIDE DEF op, t
  <2> QED
    BY <1>1, <1>2, <1>3, <1>4, <1>5, <2>1, <2>2, TakeKept
<1>6. CASE Finish /\ queue' = queue
  <2>1. Still(nest)
    BY <1>1, <1>6 DEF Still, WaitInv, WaitTypes
  <2> QED
    BY <1>3, <1>4, <1>6, <2>1, StillFinish
<1> QED
  BY <1>1, <1>5, <1>6 DEF Extract

\* Another thread runs.
LEMMA DispatchKept ==
  ASSUME WaitInv, Dispatch, UNCHANGED queueVars, UNCHANGED messageVars
  PROVE  WaitInv'
<1>1. /\ nest = 0 /\ nest' = nest /\ frame[0].pc \in {"idle", "blocked"}
      /\ frame' = [frame EXCEPT ![0] = IdleFrame]
      /\ UNCHANGED <<state, queue, sync_state, priority, discipline, open, number>>
  BY DEF Dispatch, queueVars, messageVars
<1>2. executing' \in Threads \cup {NULL}
  BY DEF Dispatch
<1>3. 0 \in Levels /\ Fits(frame[0], 0, executing)
  BY AtLevel
<1>4. Moves(0, IdleFrame)
  BY <1>1, <1>3 DEF Moves
<1>5. Passive(0) /\ frame[0].op # "flush"
  BY <1>1, <1>3 DEF Passive, Waits, Fits
<1>6. Typed
  BY <1>1, <1>2 DEF WaitInv, WaitTypes, Typed
<1>7. ASSUME NEW t \in Threads, state'[t] = "waiting"
      PROVE  StaysKnown(t, 0, IdleFrame)
  <2>1. state[t] = "waiting" /\ queue' = queue
    BY <1>1, <1>7
  <2> QED
    BY <1>3, <1>5, <2>1, PassiveKnows
<1>8. KeepsNone(0, IdleFrame)
  BY <1>1, IdleFits DEF KeepsNone
<1>9. KeepsGone(0, IdleFrame)
  <2>1. IdleFrame.pc \notin Waits /\ IdleFrame.pc # "dequeued"
    BY IdleFits DEF Waits
  <2> QED
    BY <1>1, <1>5, <2>1 DEF KeepsGone
<1>10. IdleFrame.pc # "flash"
  BY IdleFits
<1> QED
  BY <1>3, <1>4, <1>6, <1>7, <1>8, <1>9, <1>10, IdleFits, WaitKept

\* The clock tick fires a time-out; a thread restarts another.
LEMMA BeginsKept ==
  ASSUME WaitInv, NEW lv \in Levels, lv = nest \/ lv = nest + 1, Passive(lv),
         lv = 0 => frame[0].op # "flush", NEW f \in Frames, Begin(lv, f),
         f.pc \in {"timeout", "extract", "free"}, f.op # "flush", f.thread \in Threads,
         Still(lv)
  PROVE  WaitInv'
<1>1. Moves(lv, f)
  BY BeginMoves DEF WaitInv
<1>2. f.pc \notin Waits /\ f.pc # "dequeued" /\ ~Adds(f)
  BY DEF Waits, Adds
<1>3. Fits(f, lv, executing)
  BY <1>2 DEF Fits
<1> QED
  BY <1>1, <1>2, <1>3, StillKept

\* Where a call may begin.
LEMMA CallsPassive ==
  ASSUME WaitInv, NEW lv \in Nat, Calls(lv)
  PROVE  /\ lv \in Levels /\ (lv = nest \/ lv = nest + 1)
         /\ frame[lv].pc = "idle" /\ Passive(lv)
         /\ lv = 0 => frame[0].op # "flush" /\ nest = 0 /\ executing \in Threads
<1>1. nest \in Nat /\ executing \in Threads \cup {NULL}
  BY LevelsFacts DEF WaitInv, WaitTypes
<1>2. CASE lv = 0 /\ nest = 0 /\ frame[0].pc = "idle" /\ executing # NULL
  <2>1. frame[0].op # "flush" /\ 0 \in Levels
    BY <1>2, AtLevel DEF Fits
  <2> QED
    BY <1>1, <1>2, <2>1 DEF Passive, Waits
<1>3. CASE lv = nest + 1 /\ lv \in Levels
  <2>1. lv > nest /\ lv # 0
    BY <1>1, <1>3, SMT
  <2>2. frame[lv] = IdleFrame
    BY <1>3, <2>1 DEF WaitInv, FramesFit
  <2>3. Passive(lv) /\ frame[lv].pc = "idle"
    BY <2>2, IdleFits DEF Passive, Waits
  <2> QED
    BY <1>3, <2>1, <2>3
<1> QED
  BY <1>2, <1>3 DEF Calls

\* With no call but the thread's own under way, who is not on the queue is ready.
LEMMA NobodyWaits ==
  ASSUME WaitInv, nest = 0, Passive(0), ~\E t : Has(queue, t)
  PROVE  \A t \in Threads : state[t] = "ready"
<1> SUFFICES ASSUME NEW t \in Threads, state[t] = "waiting" PROVE FALSE
  BY DEF WaitInv, WaitTypes
<1>1. Approaching(t) \/ Waking(t)
  BY DEF WaitInv, WaitersKnown
<1>2. ~Approaching(t)
  BY DEF Passive, Approaching, Approach, Waits
<1>3. ASSUME NEW l \in Levels PROVE ~Wakes(frame[l], t)
  <2>1. CASE l = 0
    BY <2>1 DEF Passive, Wakes
  <2>2. CASE l # 0
    <3>1. l > nest
      BY <2>2, LevelsFacts, SMT
    <3>2. frame[l] = IdleFrame
      BY <3>1 DEF WaitInv, FramesFit
    <3> QED
      BY <3>2, IdleFits DEF Wakes
  <2> QED
    BY <2>1, <2>2
<1> QED
  BY <1>1, <1>2, <1>3 DEF Waking

\* With no call under way nothing is added either.
LEMMA NothingAdded ==
  ASSUME WaitInv, nest = 0, frame[0].pc = "idle"
  PROVE  \A l \in Levels : ~Adds(frame[l])
<1> SUFFICES ASSUME NEW l \in Levels PROVE ~Adds(frame[l])
  OBVIOUS
<1>1. CASE l = 0
  BY <1>1 DEF Adds
<1>2. CASE l # 0
  <2>1. l > nest
    BY <1>2, LevelsFacts, SMT
  <2>2. frame[l] = IdleFrame
    BY <2>1 DEF WaitInv, FramesFit
  <2> QED
    BY <2>2, IdleFits
<1> QED
  BY <1>1, <1>2

\* A step that is over at once.
Brief ==
  /\ UNCHANGED <<state, executing, nest, frame, queue, sync_state, discipline>>
  /\ priority' \in [Threads -> Priorities]
  /\ priority' = priority \/ frame[0].pc # "flash"
  /\ number' \in Nat /\ (number' # 0 => number # 0)

LEMMA BriefKept ==
  ASSUME WaitInv, Brief,
         open' \in {open, TRUE} \/ (frame[0].pc \notin Waits /\ \A t \in Threads : state[t] = "ready")
  PROVE  WaitInv'
<1>1. WaitTypes'
  BY DEF Brief, WaitInv, WaitTypes
<1>2. FramesFit'
  BY DEF Brief, WaitInv, FramesFit
<1>3. WaitersKnown'
  BY DEF Brief, WaitInv, WaitersKnown, Approaching, Waking
<1>4. SearchLeads'
  <2>1. CASE priority' = priority
    <3>1. MyHeader' = MyHeader
      BY <2>1 DEF Brief, MyHeader, Header
    <3> QED
      BY <3>1 DEF Brief, WaitInv, SearchLeads, Waking
  <2>2. CASE frame[0].pc # "flash"
    BY <2>2 DEF Brief, SearchLeads
  <2> QED
    BY <2>1, <2>2 DEF Brief
<1>5. NoneForWaiters'
  BY DEF Brief, WaitInv, NoneForWaiters
<1>6. FlushEmpties'
  BY DEF Brief, WaitInv, FlushEmpties
<1>7. ClosedForWaiters'
  BY DEF Brief, WaitInv, ClosedForWaiters
<1>8. DeleteLeavesNobody'
  BY DEF Brief, WaitInv, DeleteLeavesNobody
<1> QED
  BY <1>1, <1>2, <1>3, <1>4, <1>5, <1>6, <1>7, <1>8 DEF WaitInv

LEMMA OthersKept ==
  ASSUME WaitInv,
         \/ Return /\ UNCHANGED queueVars /\ UNCHANGED messageVars
         \/ /\ \E t \in Threads, p \in Priorities : ChangePriority(t, p)
            /\ UNCHANGED messageVars
         \/ Flush \/ Create
  PROVE  WaitInv'
<1>1. CASE Return /\ UNCHANGED queueVars /\ UNCHANGED messageVars
  <2>1. Brief /\ open' = open
    BY <1>1 DEF Return, queueVars, messageVars, Brief, WaitInv, WaitTypes
  <2> QED
    BY <2>1, BriefKept
<1>2. ASSUME NEW t \in Threads, NEW p \in Priorities, ChangePriority(t, p),
             UNCHANGED messageVars
      PROVE  WaitInv'
  <2>1. frame[0].pc = "idle"
    BY <1>2, CallsPassive DEF ChangePriority
  <2>2. priority' \in [Threads -> Priorities]
    BY <1>2 DEF ChangePriority, WaitInv, WaitTypes
  <2>3. Brief /\ open' = open
    BY <1>2, <2>1, <2>2 DEF ChangePriority, threadVars, messageVars, Brief, WaitInv, WaitTypes
  <2> QED
    BY <2>3, BriefKept
<1>3. CASE Flush
  <2>1. Brief /\ open' = open
    BY <1>3 DEF Flush, FlushSupport, tqVars, threadVars, queueVars, Brief, WaitInv, WaitTypes
  <2> QED
    BY <2>1, BriefKept
<1>4. CASE Create
  <2>1. Brief /\ open' = TRUE
    BY <1>4 DEF Create, tqVars, threadVars, queueVars, Brief, WaitInv, WaitTypes
  <2> QED
    BY <2>1, BriefKept
<1> QED
  BY <1>1, <1>2, <1>3, <1>4

\* The clock tick fires a time-out; a thread restarts another.
LEMMA InterruptsKept ==
  ASSUME WaitInv, NEW t \in Threads, UNCHANGED messageVars,
         (Expire(t) /\ UNCHANGED queueVars) \/ Restart(t)
  PROVE  WaitInv'
<1> DEFINE e == [IdleFrame EXCEPT !.pc = "timeout", !.op = "timeout", !.thread = t]
           r == [IdleFrame EXCEPT !.pc = "extract", !.thread = t]
<1>1. e \in Frames /\ e.pc = "timeout" /\ e.op = "timeout" /\ e.thread = t
  BY DEF Frames, IdleFrame, Places
<1>5. r \in Frames /\ r.pc = "extract" /\ r.op = "none" /\ r.thread = t
  BY DEF Frames, IdleFrame, Places
<1>2. nest + 1 \in Nat
  BY LevelsFacts, SMT DEF WaitInv, WaitTypes
<1>3. CASE Expire(t) /\ UNCHANGED queueVars
  <2>1. Calls(nest + 1) /\ Begin(nest + 1, e)
    BY <1>3 DEF Expire
  <2>2. Still(nest + 1)
    BY <1>3 DEF Expire, queueVars, messageVars, Still, WaitInv, WaitTypes
  <2>3. /\ nest + 1 \in Levels /\ Passive(nest + 1)
        /\ nest + 1 = 0 => frame[0].op # "flush"
    BY <1>2, <2>1, CallsPassive
  <2> HIDE DEF e
  <2> QED
    BY <1>1, <2>1, <2>2, <2>3, BeginsKept
<1>4. CASE Restart(t)
  <2>1. Calls(0) /\ Begin(0, r)
    BY <1>4 DEF Restart
  <2>2. Still(0)
    BY <1>4 DEF Restart, queueVars, messageVars, Still, WaitInv, WaitTypes
  <2>3. 0 \in Levels /\ Passive(0) /\ nest = 0 /\ frame[0].op # "flush"
    BY <2>1, CallsPassive
  <2> HIDE DEF r
  <2> QED
    BY <1>5, <2>1, <2>2, <2>3, BeginsKept
<1> QED
  BY <1>3, <1>4

\* A receive that waits: there is no message, and no call that could add one is
\* under way.
LEMMA EnterWaitKept ==
  ASSUME WaitInv, open, open' = open, Calls(0), number = 0, number' = number,
         NEW timed \in BOOLEAN, EnterWait(timed)
  PROVE  WaitInv'
<1> DEFINE f == [IdleFrame EXCEPT !.pc = "block", !.thread = executing, !.timed = timed]
<1>1. /\ 0 \in Levels /\ nest = 0 /\ executing \in Threads /\ Passive(0)
      /\ frame[0].pc = "idle" /\ frame[0].op # "flush"
  BY CallsPassive
<1>2. f \in Frames /\ f.pc = "block" /\ f.op = "none" /\ f.thread = executing
  BY <1>1 DEF Frames, IdleFrame, Places
<1>3. /\ sync_state' = "NOTHING_HAPPENED" /\ Begin(0, f)
      /\ UNCHANGED <<state, executing, queue, priority, discipline>>
  BY DEF EnterWait
<1> HIDE DEF f
<1>4. Moves(0, f)
  BY <1>1, <1>3, BeginMoves DEF WaitInv
<1>5. Fits(f, 0, executing')
  BY <1>1, <1>2, <1>3, SMT DEF Fits, Waits
<1>6. Typed
  BY <1>3 DEF Typed, WaitInv, WaitTypes, SyncStates
<1>7. ASSUME NEW t \in Threads, state'[t] = "waiting" PROVE StaysKnown(t, 0, f)
  <2>1. state[t] = "waiting" /\ queue' = queue
    BY <1>3, <1>7
  <2> QED
    BY <1>1, <2>1, PassiveKnows
<1>8. KeepsNone(0, f)
  <2>1. \A l \in Levels : ~Adds(frame[l])
    BY <1>1, NothingAdded
  <2>2. ~Adds(f)
    BY <1>2 DEF Adds
  <2> QED
    BY <1>3, <2>1, <2>2 DEF KeepsNone
<1>9. KeepsGone(0, f)
  BY <1>1, <1>2, <1>3 DEF KeepsGone
<1>10. executing' = executing /\ f.pc # "flash"
  BY <1>2, <1>3
<1> QED
  BY <1>1, <1>2, <1>4, <1>5, <1>6, <1>7, <1>8, <1>9, <1>10, WaitKept, SMTT(30)

\* A receive that finds a message.
LEMMA TakeMessageKept ==
  ASSUME WaitInv, open' = open, Calls(0), number # 0, number' = number - 1,
         UNCHANGED <<state, executing, queue, sync_state, priority, discipline>>,
         Begin(0, [IdleFrame EXCEPT !.pc = "free", !.op = "receive", !.thread = executing])
  PROVE  WaitInv'
<1> DEFINE f == [IdleFrame EXCEPT !.pc = "free", !.op = "receive", !.thread = executing]
<1>1. /\ 0 \in Levels /\ nest = 0 /\ executing \in Threads /\ Passive(0)
      /\ frame[0].pc = "idle" /\ frame[0].op # "flush"
  BY CallsPassive
<1>2. f \in Frames /\ f.pc = "free" /\ f.op = "receive" /\ f.thread = executing
  BY <1>1, CoreMessageAssumption DEF Frames, IdleFrame, Places
<1>3. Begin(0, f)
  OBVIOUS
<1> HIDE DEF f
<1>4. Moves(0, f)
  BY <1>1, <1>3, BeginMoves DEF WaitInv
<1>5. f.pc \notin Waits /\ f.pc # "dequeued" /\ f.pc # "flash" /\ ~Adds(f)
  BY <1>2 DEF Waits, Adds
<1>6. Fits(f, 0, executing')
  BY <1>1, <1>2, <1>5 DEF Fits
<1>7. Typed
  BY SMT DEF Typed, WaitInv, WaitTypes
<1>8. ASSUME NEW t \in Threads, state'[t] = "waiting" PROVE StaysKnown(t, 0, f)
  <2>1. state[t] = "waiting" /\ queue' = queue
    BY <1>8
  <2> QED
    BY <1>1, <2>1, PassiveKnows
<1>9. KeepsNone(0, f)
  BY <1>5 DEF KeepsNone
<1>10. KeepsGone(0, f)
  BY <1>1, <1>5 DEF KeepsGone
<1>11. executing' = executing
  OBVIOUS
<1> QED
  BY <1>1, <1>2, <1>4, <1>5, <1>6, <1>7, <1>8, <1>9, <1>10, <1>11, WaitKept

\* _CORE_message_queue_Seize
LEMMA SeizeKept ==
  ASSUME WaitInv, NEW wait \in BOOLEAN, NEW timed \in BOOLEAN, Seize(wait, timed)
  PROVE  WaitInv'
<1>1. open /\ Calls(0) /\ open' = open
  BY DEF Seize
<1>2. CASE number # 0
  <2>1. /\ number' = number - 1
        /\ Begin(0, [IdleFrame EXCEPT !.pc = "free", !.op = "receive", !.thread = executing])
        /\ UNCHANGED <<state, executing, queue, sync_state, priority, discipline>>
    BY <1>2 DEF Seize, SomePending
  <2> QED
    BY <1>1, <1>2, <2>1, TakeMessageKept
<1>3. CASE number = 0 /\ wait
  <2>1. EnterWait(timed) /\ number' = number
    BY <1>3 DEF Seize, SomePending
  <2> QED
    BY <1>1, <1>3, <2>1, EnterWaitKept
<1>4. CASE number = 0 /\ ~wait
  <2>1. Brief
    BY <1>4 DEF Seize, SomePending, Brief, WaitInv, WaitTypes
  <2> QED
    BY <1>1, <2>1, BriefKept
<1> QED
  BY <1>2, <1>3, <1>4

\* A send or a broadcast, and its next round.
LEMMA DequeuesKept ==
  ASSUME WaitInv, NEW lv \in Levels, NEW op \in Ops \ {"flush"}, Calls(lv), Dequeue(lv, op),
         UNCHANGED <<open, number>>
  PROVE  WaitInv'
<1>1. lv \in Nat
  BY LevelsFacts
<1>2. (lv = nest \/ lv = nest + 1) /\ Passive(lv) /\ (lv = 0 => frame[0].op # "flush")
  BY <1>1, CallsPassive
<1> QED
  BY <1>2, DequeueKept

LEMMA BroadcastNextKept ==
  ASSUME WaitInv, BroadcastNext
  PROVE  WaitInv'
<1>1. /\ frame[nest].pc = "client" /\ frame[nest].op = "broadcast"
      /\ Dequeue(nest, "broadcast") /\ UNCHANGED <<open, number>>
  BY DEF BroadcastNext, At, messageVars
<1>2. nest \in Levels /\ Passive(nest) /\ (nest = 0 => frame[0].op # "flush")
  BY <1>1, AtLevel DEF Passive, Waits
<1> DEFINE op == "broadcast"
<1>3. op \in Ops /\ op # "flush" /\ Dequeue(nest, op)
  BY <1>1, CoreMessageAssumption
<1> HIDE DEF op
<1> QED
  BY <1>1, <1>2, <1>3, DequeueKept

\* rtems_message_queue_delete
LEMMA DeleteKept ==
  ASSUME WaitInv, Delete
  PROVE  WaitInv'
<1>1. /\ nest = 0 /\ Passive(0) /\ 0 \in Levels /\ frame[0].pc = "idle"
  BY CallsPassive DEF Delete
<1>2. CASE number # 0
  <2>1. Brief
    BY <1>2, SMT DEF Delete, OnlyMessages, FlushSupport, tqVars, threadVars, queueVars, Brief,
                WaitInv, WaitTypes
  <2>2. ~\E t : Has(queue, t)
    BY <1>2 DEF WaitInv, NoneForWaiters
  <2>3. \A t \in Threads : state[t] = "ready"
    BY <1>1, <2>2, NobodyWaits
  <2>4. frame[0].pc \notin Waits
    BY <1>1 DEF Waits
  <2> QED
    BY <2>1, <2>3, <2>4, BriefKept
<1>3. CASE number = 0
  <2> DEFINE op == "flush"
  <2>1. op \in Ops /\ op = "flush" /\ Dequeue(0, op) /\ number' = number
    BY <1>3, CoreMessageAssumption DEF Delete, OnlyMessages
  <2> HIDE DEF op
  <2> QED
    BY <1>1, <2>1, DequeueKept
<1> QED
  BY <1>2, <1>3

\* The delete runs outside interrupt handlers.
LEMMA FlushOutside ==
  ASSUME WaitInv, frame[nest].op = "flush"
  PROVE  nest = 0 /\ 0 \in Levels
<1>1. ~(nest > 0)
  BY AtLevel DEF Fits
<1>2. nest \in Nat
  BY LevelsFacts DEF WaitInv, WaitTypes
<1> QED
  BY <1>1, <1>2, LevelsFacts, SMT

LEMMA DeleteNextKept ==
  ASSUME WaitInv, DeleteNext
  PROVE  WaitInv'
<1>1. /\ frame[nest].pc = "client" /\ frame[nest].op = "flush" /\ number' = number
  BY DEF DeleteNext, At, messageVars
<1>2. nest \in Levels /\ Passive(nest)
  BY <1>1, AtLevel DEF Passive, Waits
<1>3. nest = 0
  BY <1>1, FlushOutside
<1> DEFINE op == "flush"
<1>4. op \in Ops /\ op = "flush" /\ Dequeue(nest, op)
  BY CoreMessageAssumption DEF DeleteNext
<1> HIDE DEF op
<1> QED
  BY <1>1, <1>2, <1>3, <1>4, DequeueKept

\* The delete is over when it finds nobody on the queue.
LEMMA DeleteEndKept ==
  ASSUME WaitInv, DeleteEnd
  PROVE  WaitInv'
<1>1. /\ frame[nest].pc = "dequeued" /\ frame[nest].op = "flush"
      /\ frame[nest].thread = NULL /\ Finish
      /\ UNCHANGED <<state, executing, queue, sync_state, priority, discipline, open, number>>
  BY DEF DeleteEnd, At, queueVars, messageVars
<1>2. nest = 0 /\ 0 \in Levels /\ Passive(0)
  <2>1. nest = 0 /\ 0 \in Levels
    BY <1>1, FlushOutside
  <2> QED
    BY <1>1, <2>1 DEF Passive, Waits
<1>3. Moves(0, IdleFrame)
  BY <1>1, <1>2, FinishMoves DEF WaitInv
<1>4. ~\E t : Has(queue, t)
  BY <1>1, <1>2 DEF WaitInv, FlushEmpties
<1>5. \A t \in Threads : state'[t] = "ready"
  BY <1>1, <1>2, <1>4, NobodyWaits
<1>6. DeleteLeavesNobody'
  BY <1>5 DEF DeleteLeavesNobody
<1>7. Typed
  BY <1>1 DEF Typed, WaitInv, WaitTypes
<1>8. \A t \in Threads : state'[t] = "waiting" => StaysKnown(t, 0, IdleFrame)
  BY <1>5
<1>9. KeepsNone(0, IdleFrame)
  BY <1>1, IdleFits DEF KeepsNone
<1>10. KeepsGone(0, IdleFrame)
  BY <1>1, <1>6, IdleFits DEF KeepsGone, Waits
<1>11. IdleFrame.pc # "flash" /\ executing' = executing
  BY <1>1, IdleFits
<1> QED
  BY <1>2, <1>3, <1>7, <1>8, <1>9, <1>10, <1>11, IdleFits, WaitKept, SMTT(30)

\* Steps that end a call.
EndsCall == SeizeEnd \/ SubmitHand \/ SubmitLink \/ BroadcastEnd
LEMMA EndsKept ==
  ASSUME WaitInv, EndsCall
  PROVE  WaitInv'
<1>1. /\ Finish /\ frame[nest].pc \in {"free", "dequeued", "link"}
      /\ frame[nest].pc = "dequeued" => frame[nest].op # "flush"
      /\ UNCHANGED <<state, executing, queue, sync_state, priority, discipline, open, number>>
  <2>1. CASE SeizeEnd
    BY <2>1 DEF SeizeEnd, At, Done, queueVars
  <2>2. CASE SubmitHand
    BY <2>2 DEF SubmitHand, Submitting, At, Done, queueVars
  <2>3. CASE SubmitLink
    BY <2>3 DEF SubmitLink, At, Done, queueVars
  <2>4. CASE BroadcastEnd
    BY <2>4 DEF BroadcastEnd, At, Done, queueVars
  <2> QED
    BY <2>1, <2>2, <2>3, <2>4 DEF EndsCall
<1>2. frame[nest].op # "flush"
  BY <1>1, AtLevel DEF Fits
<1>3. Still(nest)
  BY <1>1 DEF Still, WaitInv, WaitTypes
<1>4. Passive(nest)
  BY <1>1 DEF Passive, Waits
<1> QED
  BY <1>1, <1>2, <1>3, <1>4, StillFinish

\* A call goes on inside the code of the object.
LEMMA GoesOnInside ==
  ASSUME WaitInv, NEW pc \in {"client", "count", "store", "link"}, Goto(pc), Still(nest),
         frame[nest].pc \in {"dequeued", "client", "count", "store"},
         frame[nest].op = "flush" => pc = "client",
         pc = "client" => ~(frame[nest].op \in {"send", "urgent"}) \/ Adds(frame[nest]),
         pc # "client" => Adds(frame[nest])
  PROVE  WaitInv'
<1> DEFINE f == [frame[nest] EXCEPT !.pc = pc]
<1>1. pc \in Places \ Waits /\ pc # "dequeued"
  BY DEF Places, Waits
<1>2. frame[nest] \in Frames
  BY AtLevel
<1>3. f \in Frames /\ f.pc = pc /\ f.op = frame[nest].op /\ f.thread = frame[nest].thread
  BY <1>1, <1>2, FrameGoesOn
<1> HIDE DEF f
<1>4. pc # "flash" /\ pc \notin {"remove", "unblock", "timeout", "sync", "mark", "expired", "extract"}
  OBVIOUS
<1>5. Fits(f, nest, executing)
  <2>1. Fits(frame[nest], nest, executing)
    BY AtLevel
  <2> QED
    BY <1>1, <1>3, <1>4, <2>1 DEF Fits
<1>6. Adds(f) => Adds(frame[nest])
  BY <1>3 DEF Adds
<1>7. Passive(nest)
  BY DEF Passive, Waits
<1> QED
  BY <1>1, <1>5, <1>6, <1>7, StillGoto DEF f

\* _CORE_message_queue_Submit and _CORE_message_queue_Broadcast between two
\* calls of the thread queue.
LEMMA SubmitsKept ==
  ASSUME WaitInv, SubmitTest \/ SubmitAllocate
  PROVE  WaitInv'
<1>1. /\ frame[nest].pc \in {"dequeued", "client"} /\ frame[nest].op \in {"send", "urgent"}
      /\ frame[nest].pc = "dequeued" => frame[nest].thread = NULL
      /\ Finish \/ Goto("client") \/ Goto("count")
      /\ UNCHANGED <<state, executing, queue, sync_state, priority, discipline, open, number>>
  <2>1. CASE SubmitTest
    BY <2>1 DEF SubmitTest, Submitting, At, Done, queueVars
  <2>2. CASE SubmitAllocate
    BY <2>2 DEF SubmitAllocate, Submitting, At, Done, queueVars
  <2> QED
    BY <2>1, <2>2
<1>2. Still(nest)
  BY <1>1 DEF Still, WaitInv, WaitTypes
<1>3. Passive(nest) /\ frame[nest].op # "flush" /\ Adds(frame[nest])
  BY <1>1 DEF Passive, Waits, Adds
<1>4. CASE Finish
  BY <1>2, <1>3, <1>4, StillFinish
<1>5. CASE Goto("client")
  <2> DEFINE pc == "client"
  <2>1. pc \in {"client", "count", "store", "link"} /\ Goto(pc) /\ pc = "client"
    BY <1>5
  <2> HIDE DEF pc
  <2> QED
    BY <1>1, <1>2, <1>3, <2>1, GoesOnInside
<1>6. CASE Goto("count")
  <2> DEFINE pc == "count"
  <2>1. pc \in {"client", "count", "store", "link"} /\ Goto(pc) /\ pc # "client"
    BY <1>6
  <2> HIDE DEF pc
  <2> QED
    BY <1>1, <1>2, <1>3, <2>1, GoesOnInside
<1> QED
  BY <1>1, <1>4, <1>5, <1>6

LEMMA CopiesKept ==
  ASSUME WaitInv, BroadcastCopy \/ DeleteStatus
  PROVE  WaitInv'
<1> DEFINE pc == "client"
<1>1. /\ frame[nest].pc = "dequeued" /\ frame[nest].op \in {"broadcast", "flush"}
      /\ Goto(pc)
      /\ UNCHANGED <<state, executing, queue, sync_state, priority, discipline, open, number>>
  BY DEF BroadcastCopy, DeleteStatus, At, queueVars, messageVars
<1>2. Still(nest)
  BY <1>1 DEF Still, WaitInv, WaitTypes
<1>3. pc \in {"client", "count", "store", "link"} /\ pc = "client"
  OBVIOUS
<1> HIDE DEF pc
<1> QED
  BY <1>1, <1>2, <1>3, GoesOnInside

\* number_of_pending_messages += 1
LEMMA CountKept ==
  ASSUME WaitInv, SubmitCount
  PROVE  WaitInv'
<1> USE DEF SubmitCount, At
<1>1. /\ frame[nest].pc \in {"count", "store"}
      /\ UNCHANGED <<state, executing, queue, sync_state, priority, discipline, open>>
  BY DEF queueVars
<1>2. Passive(nest) /\ Adds(frame[nest])
  BY <1>1 DEF Passive, Waits, Adds
<1>3. /\ nest \in Levels /\ frame[nest] \in Frames /\ Fits(frame[nest], nest, executing)
      /\ number \in Nat /\ frame[nest].value \in Nat /\ frame \in [Levels -> Frames]
  BY AtLevel DEF WaitInv, WaitTypes, Frames
<1>4. frame[nest].op # "flush"
  BY <1>1, <1>3 DEF Fits
<1>5. CASE Goto("link") /\ number' \in Nat
  <2> DEFINE pc == "link"
  <2>1. pc \in {"client", "count", "store", "link"} /\ Goto(pc) /\ pc # "client"
    BY <1>5
  <2>2. Still(nest)
    BY <1>1, <1>2, <1>5 DEF Still
  <2> HIDE DEF pc
  <2> QED
    BY <1>1, <1>2, <1>4, <2>1, <2>2, GoesOnInside
<1>6. CASE /\ frame' = [frame EXCEPT ![nest].pc = "store", ![nest].value = number]
           /\ UNCHANGED <<nest, number>>
  <2> DEFINE f == [frame[nest] EXCEPT !.pc = "store", !.value = number]
  <2>1. frame' = [frame EXCEPT ![nest] = f]
    BY <1>3, <1>6
  <2>2. f \in Frames /\ f.pc = "store" /\ f.op = frame[nest].op /\ f.thread = frame[nest].thread
    BY <1>3 DEF Frames, Places
  <2> HIDE DEF f
  <2>3. ~(nest > nest')
    BY <1>3, <1>6, LevelsFacts, SMT
  <2>4. Moves(nest, f)
    BY <1>3, <1>6, <2>1, <2>3 DEF Moves
  <2>5. f.pc \notin Waits /\ f.pc # "dequeued"
    BY <2>2 DEF Waits
  <2>6. Fits(f, nest, executing)
    BY <1>3, <1>4, <2>2, <2>5 DEF Fits
  <2>7. Still(nest)
    BY <1>1, <1>3, <1>6 DEF Still
  <2> QED
    BY <1>2, <1>3, <1>4, <2>2, <2>4, <2>5, <2>6, <2>7, StillKept, SMTT(30)
<1> QED
  BY <1>3, <1>5, <1>6, SMT

-----------------------------------------------------------------------------
LEMMA WaitStart == Init => WaitInv
<1> SUFFICES ASSUME Init PROVE WaitInv
  OBVIOUS
<1> USE DEF Init, TqInit, ThreadInit
<1>1. frame = [l \in Levels |-> IdleFrame] /\ frame[0] = IdleFrame
  BY LevelsFacts
<1>2. IdleFrame.pc = "idle" /\ IdleFrame.op = "none"
  BY DEF IdleFrame
<1>3. ASSUME NEW t PROVE ~Has(queue, t)
  BY SMT DEF Has
<1>4. WaitTypes
  <2>1. << >> \in Seq(Groups)
    BY SMT
  <2>2. queue \in Chains
    BY <2>1 DEF Chains
  <2> QED
    BY <1>1, <2>2, LevelsFacts, IdleFits DEF WaitTypes, SyncStates
<1>5. FramesFit
  BY <1>1, IdleFits DEF FramesFit
<1>6. WaitersKnown /\ SearchLeads /\ FlushEmpties /\ ClosedForWaiters /\ DeleteLeavesNobody
  BY <1>1, <1>2 DEF WaitersKnown, SearchLeads, FlushEmpties, ClosedForWaiters,
                    DeleteLeavesNobody
<1>7. NoneForWaiters
  BY <1>1, <1>3, IdleFits DEF NoneForWaiters
<1> QED
  BY <1>4, <1>5, <1>6, <1>7 DEF WaitInv

LEMMA ThreadQueueKeeps ==
  ASSUME WaitInv, TqNext, UNCHANGED messageVars
  PROVE  WaitInv'
<1>1. CASE TqStep
  BY <1>1, RemoveTimerKept, UnblockKept, EnqueueBeginKept, EnqueueKept, TimeoutKept,
     ExtractKept DEF TqStep
<1>2. CASE Dispatch /\ UNCHANGED queueVars
  BY <1>2, DispatchKept
<1>3. CASE Return /\ UNCHANGED queueVars
  BY <1>3, OthersKept
<1>4. CASE \E t \in Threads : Expire(t) /\ UNCHANGED queueVars
  BY <1>4, InterruptsKept
<1>5. CASE \E t \in Threads : Restart(t)
  BY <1>5, InterruptsKept
<1>6. CASE \E t \in Threads, p \in Priorities : ChangePriority(t, p)
  BY <1>6, OthersKept
<1> QED
  BY <1>1, <1>2, <1>3, <1>4, <1>5, <1>6 DEF TqNext

LEMMA MessageStepKeeps ==
  ASSUME WaitInv, MessageStep
  PROVE  WaitInv'
<1>1. CASE SeizeEnd \/ SubmitHand \/ SubmitLink \/ BroadcastEnd
  BY <1>1, EndsKept DEF EndsCall
<1>2. CASE SubmitTest \/ SubmitAllocate
  BY <1>2, SubmitsKept
<1>3. CASE SubmitCount
  BY <1>3, CountKept
<1>4. CASE BroadcastCopy \/ DeleteStatus
  BY <1>4, CopiesKept
<1>5. CASE BroadcastNext
  BY <1>5, BroadcastNextKept, SMTT(30)
<1>6. CASE DeleteNext
  BY <1>6, DeleteNextKept
<1>7. CASE DeleteEnd
  BY <1>7, DeleteEndKept
<1> QED
  BY <1>1, <1>2, <1>3, <1>4, <1>5, <1>6, <1>7 DEF MessageStep

LEMMA WaitNext ==
  ASSUME WaitInv, [Next]_vars
  PROVE  WaitInv'
<1>1. CASE TqNext /\ UNCHANGED messageVars
  BY <1>1, ThreadQueueKeeps
<1>2. CASE MessageStep
  BY <1>2, MessageStepKeeps
<1>3. CASE \E wait, timed \in BOOLEAN : (timed => wait) /\ Seize(wait, timed)
  BY <1>3, SeizeKept
<1>4. ASSUME NEW lv \in Levels, NEW op \in {"send", "urgent"}, NEW m \in Messages,
             Submit(lv, op, m)
      PROVE  WaitInv'
  <2>1. op \in Ops \ {"flush"}
    BY CoreMessageAssumption
  <2>2. Calls(lv) /\ Dequeue(lv, op) /\ UNCHANGED <<open, number>>
    BY <1>4 DEF Submit
  <2> QED
    BY <2>1, <2>2, DequeuesKept
<1>5. ASSUME NEW lv \in Levels, NEW m \in Messages, Broadcast(lv, m)
      PROVE  WaitInv'
  <2> DEFINE op == "broadcast"
  <2>1. op \in Ops \ {"flush"}
    BY CoreMessageAssumption
  <2>2. Calls(lv) /\ Dequeue(lv, op) /\ UNCHANGED <<open, number>>
    BY <1>5 DEF Broadcast
  <2> HIDE DEF op
  <2> QED
    BY <2>1, <2>2, DequeuesKept
<1>6. CASE Flush \/ Create
  BY <1>6, OthersKept
<1>7. CASE Delete
  BY <1>7, DeleteKept
<1>8. CASE UNCHANGED vars
  <2>1. Brief /\ open' = open
    BY <1>8 DEF vars, tqVars, threadVars, queueVars, messageVars, Brief, WaitInv, WaitTypes
  <2> QED
    BY <2>1, BriefKept
<1> QED
  BY <1>1, <1>2, <1>3, <1>4, <1>5, <1>6, <1>7, <1>8, SMTT(30) DEF Next

\* Once a message queue is deleted nobody is left waiting on it, although
\* _CORE_message_queue_Close flushes either the messages or the threads: threads
\* and messages are never there together, however sends, receives, time-outs and
\* restarts nest.
THEOREM DeleteStrandsNobody == Spec => []DeleteLeavesNobody
<1>1. WaitInv /\ [Next]_vars => WaitInv'
  BY WaitNext
<1>2. WaitInv => DeleteLeavesNobody
  BY DEF WaitInv
<1> QED
  BY WaitStart, <1>1, <1>2, PTL DEF Spec
=============================================================================
