---------------------------- MODULE PosixProofs -----------------------------
(***************************************************************************)
(* Proofs about PosixSignals, for any number of threads and signals, any   *)
(* depth of nested handlers and any number of calls.                       *)
(***************************************************************************)
EXTENDS PosixSignals, WellFoundedInduction, TLAPS

\* Zenon is tried on every leaf that names no other prover.
USE Zenon

\* The frames of a thread's stack: what each kind of them remembers
FrameType ==
  [pc : {"restart", "search"}, at : Nat, set : {{}}]
    \cup [pc : {"handler", "wait"}, at : {0}, set : SUBSET Signals]
    \cup [pc : {"send"}, at : 1..Len(Order), set : SUBSET Threads]

-----------------------------------------------------------------------------
(* Stacks of frames *)

\* A stack with one more frame on it
LEMMA Pushed ==
  ASSUME NEW st \in Seq(FrameType), NEW f \in FrameType
  PROVE  /\ <<f>> \o st \in Seq(FrameType)
         /\ <<f>> \o st # <<>>
         /\ Len(<<f>> \o st) = Len(st) + 1
         /\ (<<f>> \o st)[1] = f
         /\ \A i \in 1..Len(st) : (<<f>> \o st)[i + 1] = st[i]
         /\ \A i \in 1..Len(<<f>> \o st) :
              i = 1 \/ (i - 1 \in 1..Len(st) /\ (<<f>> \o st)[i] = st[i - 1])
BY SMT

\* A stack without its innermost frame
LEMMA Popped ==
  ASSUME NEW st \in Seq(FrameType), st # <<>>
  PROVE  /\ Tail(st) \in Seq(FrameType)
         /\ Head(st) \in FrameType
         /\ st = <<Head(st)>> \o Tail(st)
BY SMT

\* What PosixSignals says of the stack of one thread
Noticing(st, s) == \E i \in 1..Len(st) : Ahead(st[i], s)
Guarded(st) == \A i \in 1..Len(st) : st[i].pc = "handler" =>
                 i + 1 \in 1..Len(st) /\ st[i + 1].pc = "restart"

\* A frame adds what it notices itself.
LEMMA PushedNotices ==
  ASSUME NEW st \in Seq(FrameType), NEW f \in FrameType, NEW s
  PROVE  Noticing(<<f>> \o st, s) <=> Ahead(f, s) \/ Noticing(st, s)
<1>1. ASSUME Noticing(<<f>> \o st, s) PROVE Ahead(f, s) \/ Noticing(st, s)
  BY <1>1, Pushed, SMT DEF Noticing
<1>2. ASSUME Ahead(f, s) PROVE Noticing(<<f>> \o st, s)
  <2>1. 1 \in 1..Len(<<f>> \o st) BY Pushed, SMT
  <2> QED BY <1>2, <2>1, Pushed DEF Noticing
<1>3. ASSUME Noticing(st, s) PROVE Noticing(<<f>> \o st, s)
  <2>1. PICK i \in 1..Len(st) : Ahead(st[i], s) BY <1>3 DEF Noticing
  <2>2. i + 1 \in 1..Len(<<f>> \o st) BY Pushed, SMT
  <2> QED BY <2>1, <2>2, Pushed, ZenonT(30) DEF Noticing
<1> QED BY <1>1, <1>2, <1>3

LEMMA PushedGuarded ==
  ASSUME NEW st \in Seq(FrameType), NEW f \in FrameType
  PROVE  Guarded(<<f>> \o st) <=>
           Guarded(st) /\ (f.pc = "handler" => st # <<>> /\ st[1].pc = "restart")
<1> DEFINE r == <<f>> \o st
<1>0. /\ Len(r) = Len(st) + 1 /\ Len(st) \in Nat /\ r[1] = f
      /\ \A i \in 1..Len(st) : r[i + 1] = st[i]
      /\ st # <<>> <=> Len(st) > 0
  BY Pushed, SMT
<1>1. ASSUME Guarded(r) PROVE Guarded(st) /\ (f.pc = "handler" => st # <<>> /\ st[1].pc = "restart")
  <2>1. ASSUME NEW i \in 1..Len(st), st[i].pc = "handler"
        PROVE  i + 1 \in 1..Len(st) /\ st[i + 1].pc = "restart"
    <3>1. i + 1 \in 1..Len(r) /\ r[i + 1].pc = "handler" BY <1>0, <2>1, SMT
    <3>0. (i + 1) + 1 = i + 2 BY SMT
    <3>2. i + 2 \in 1..Len(r) /\ r[i + 2].pc = "restart"
      BY <3>0, <3>1, <1>1 DEF Guarded
    <3>3. i + 1 \in 1..Len(st) /\ i + 2 = (i + 1) + 1 BY <1>0, <3>2, SMT
    <3> QED BY <1>0, <3>2, <3>3
  <2>2. ASSUME f.pc = "handler" PROVE st # <<>> /\ st[1].pc = "restart"
    <3>1. 1 \in 1..Len(r) /\ 1 + 1 = 2 BY <1>0, SMT
    <3>2. 2 \in 1..Len(r) /\ r[2].pc = "restart"
      BY <3>1, <1>0, <1>1, <2>2 DEF Guarded
    <3>3. 1 \in 1..Len(st) /\ 2 = 1 + 1 BY <1>0, <3>2, SMT
    <3> QED BY <1>0, <3>2, <3>3, SMT
  <2> QED BY <2>1, <2>2 DEF Guarded
<1>2. ASSUME Guarded(st), f.pc = "handler" => st # <<>> /\ st[1].pc = "restart"
      PROVE  Guarded(r)
  <2>1. ASSUME NEW i \in 1..Len(r), r[i].pc = "handler"
        PROVE  i + 1 \in 1..Len(r) /\ r[i + 1].pc = "restart"
    <3>1. CASE i = 1
      <4>1. 1 \in 1..Len(st) /\ 1 + 1 \in 1..Len(r) BY <1>0, <1>2, <2>1, <3>1, SMT
      <4> QED BY <1>0, <1>2, <2>1, <3>1, <4>1
    <3>2. CASE i # 1
      <4>1. i - 1 \in 1..Len(st) /\ (i - 1) + 1 = i BY <1>0, <3>2, SMT
      <4>2. st[i - 1].pc = "handler" BY <1>0, <2>1, <4>1
      <4>3. i \in 1..Len(st) /\ st[i].pc = "restart"
        BY <1>2, <4>1, <4>2 DEF Guarded
      <4> QED BY <1>0, <4>3, SMT
    <3> QED BY <3>1, <3>2
  <2> QED BY <2>1 DEF Guarded
<1> QED BY <1>1, <1>2

-----------------------------------------------------------------------------
(* Types *)

TypeInv ==
  /\ Vectors \in [Signals -> [kind : Kinds, mask : SUBSET Signals]]
  /\ Pending \subseteq Signals
  /\ blocked \in [Threads -> SUBSET Signals]
  /\ pending \in [Threads -> SUBSET Signals]
  /\ do_post \in [Threads -> BOOLEAN]
  /\ waiting \in [Threads -> (SUBSET Signals) \cup {NULL}]
  /\ stack \in [Threads -> Seq(FrameType)]
  /\ running \in Threads \cup {NULL}

LEMMA RestartFrame == Frame("restart", 0, {}) \in FrameType
BY DEF Frame, FrameType

\* _Thread_Dispatch leaves the thread where it was, or at the test of its
\* signals; in the latter case only the flag is reset.
LEMMA DispatchShape ==
  ASSUME TypeInv, NEW t \in Threads, NEW flags \in [Threads -> BOOLEAN],
         NEW frames \in Seq(FrameType), DispatchEnds(t, flags, frames)
  PROVE  /\ do_post' \in [Threads -> BOOLEAN]
         /\ stack' \in [Threads -> Seq(FrameType)]
         /\ \A x \in Threads \ {t} : do_post'[x] = flags[x] /\ stack'[x] = stack[x]
         /\ \/ ~ flags[t] /\ do_post'[t] = flags[t] /\ stack'[t] = frames
            \/ stack'[t] = <<Frame("restart", 0, {})>> \o frames
<1> DEFINE r == <<Frame("restart", 0, {})>> \o frames
<1>0. r \in Seq(FrameType) BY Pushed, RestartFrame
<1>1. CASE do_post_all' # 0 \/ flags[t]
  <2>1. do_post' = [flags EXCEPT ![t] = FALSE] /\ stack' = [stack EXCEPT ![t] = r]
    BY <1>1 DEF DispatchEnds
  <2> HIDE DEF r
  <2>2. stack'[t] = r BY <2>1 DEF TypeInv
  <2> QED BY <1>0, <2>1, <2>2 DEF TypeInv, r
<1>2. CASE ~ (do_post_all' # 0 \/ flags[t])
  <2>1. do_post' = flags /\ stack' = [stack EXCEPT ![t] = frames]
    BY <1>2 DEF DispatchEnds
  <2> QED BY <1>2, <2>1 DEF TypeInv
<1> QED BY <1>1, <1>2

LEMMA TargetType == ASSUME TypeInv, NEW s PROVE Target(s) \subseteq Threads
BY DEF Target, MostUrgent, TypeInv

LEMMA ProcessType ==
  ASSUME TypeInv, NEW s \in Signals, NEW target, Process_it(s, target)
  PROVE  /\ waiting' \in [Threads -> (SUBSET Signals) \cup {NULL}]
         /\ Pending' \subseteq Signals
BY DEF Process_it, Set_process_signals, processVars, TypeInv

\* A thread that runs inside the signal code has a frame that says where.
LEMMA RunsShape ==
  ASSUME TypeInv, NEW t \in Threads, NEW pc, pc # "body", Runs(t, pc)
  PROVE  /\ running = t /\ stack[t] # <<>>
         /\ Top(t) \in FrameType /\ Top(t).pc = pc
         /\ Tail(stack[t]) \in Seq(FrameType)
         /\ stack[t] = <<Top(t)>> \o Tail(stack[t])
<1>1. running = t /\ stack[t] # <<>> /\ Top(t).pc = pc BY DEF Runs, Place
<1>2. stack[t] \in Seq(FrameType) BY DEF TypeInv
<1> QED BY <1>1, <1>2, Popped DEF Top

LEMMA ReplaceShape ==
  ASSUME TypeInv, NEW t \in Threads, NEW fs \in Seq(FrameType),
         Tail(stack[t]) \in Seq(FrameType), Replace(t, fs)
  PROVE  /\ stack' \in [Threads -> Seq(FrameType)]
         /\ stack'[t] = fs \o Tail(stack[t])
         /\ \A x \in Threads \ {t} : stack'[x] = stack[x]
<1> DEFINE r == fs \o Tail(stack[t])
<1>1. r \in Seq(FrameType) BY SMT
<1>2. stack' = [stack EXCEPT ![t] = r] BY DEF Replace
<1> HIDE DEF r
<1>3. stack'[t] = r BY <1>2 DEF TypeInv
<1> QED BY <1>1, <1>2, <1>3 DEF TypeInv, r

LEMMA PushShape ==
  ASSUME TypeInv, NEW t \in Threads, NEW f \in FrameType, Push(t, f)
  PROVE  /\ stack' \in [Threads -> Seq(FrameType)]
         /\ stack'[t] = <<f>> \o stack[t]
         /\ \A x \in Threads \ {t} : stack'[x] = stack[x]
<1> DEFINE r == <<f>> \o stack[t]
<1>0. stack[t] \in Seq(FrameType) BY DEF TypeInv
<1>1. r \in Seq(FrameType) BY <1>0, Pushed
<1>2. stack' = [stack EXCEPT ![t] = r] BY DEF Push
<1> HIDE DEF r
<1>3. stack'[t] = r BY <1>2 DEF TypeInv
<1> QED BY <1>1, <1>2, <1>3 DEF TypeInv, r

\* The next place of a search, if there is one
LEMMA AdvancedType ==
  ASSUME NEW f \in FrameType, f.pc = "search"
  PROVE  /\ Advanced(f) \in Seq(FrameType)
         /\ \/ Advanced(f) = <<>> /\ f.at + 1 = 2 * Len(Order)
            \/ /\ [f EXCEPT !.at = f.at + 1] \in FrameType
               /\ Advanced(f) = <<[f EXCEPT !.at = f.at + 1]>>
<1>1. f \in [pc : {"restart", "search"}, at : Nat, set : {{}}] BY DEF FrameType
<1>2. [f EXCEPT !.at = f.at + 1] \in [pc : {"restart", "search"}, at : Nat, set : {{}}]
  BY <1>1, SMT
<1>3. [f EXCEPT !.at = f.at + 1] \in FrameType BY <1>2 DEF FrameType
<1> QED BY <1>3, SMT DEF Advanced

\* The frames with which a handler is entered
LEMMA EnteredType ==
  ASSUME TypeInv, NEW t \in Threads, NEW s
  PROVE  /\ Frame("handler", 0, blocked[t]) \in FrameType
         /\ Entered(t, s) \in Seq(FrameType)
         /\ Entered(t, s) = <<Frame("handler", 0, blocked[t])>> \o <<Frame("restart", 0, {})>>
<1>1. Frame("handler", 0, blocked[t]) \in FrameType BY DEF TypeInv, Frame, FrameType
<1> HIDE DEF FrameType
<1> QED BY <1>1, RestartFrame, SMT DEF Entered

\* The steps of a thread keep the types ...
LEMMA StepTypes ==
  ASSUME TypeInv, NEW t \in Threads, Step(t)
  PROVE  TypeInv'
<1> USE PosixAssumption
<1>0. stack[t] \in Seq(FrameType) /\ <<>> \in Seq(FrameType) BY SMT DEF TypeInv
<1>1. CASE Switch(t)
  <2>1. do_post \in [Threads -> BOOLEAN] BY DEF TypeInv
  <2>2. do_post' \in [Threads -> BOOLEAN] /\ stack' \in [Threads -> Seq(FrameType)]
    BY <1>0, <1>1, <2>1, DispatchShape DEF Switch
  <2> QED BY <1>1, <2>2 DEF Switch, TypeInv, processVars
<1>2. CASE Restart(t)
  <2>1. Tail(stack[t]) \in Seq(FrameType) BY <1>2, RunsShape DEF Restart
  <2>2. <<Frame("search", 0, {})>> \in Seq(FrameType)
    <3>1. Frame("search", 0, {}) \in FrameType BY DEF Frame, FrameType
    <3> QED BY <3>1, SMT
  <2>3. stack' \in [Threads -> Seq(FrameType)]
    BY <1>0, <1>2, <2>1, <2>2, ReplaceShape DEF Restart
  <2> QED BY <1>2, <2>3 DEF Restart, TypeInv, threadVars, processVars
<1>3. CASE CheckPasses(t)
  <2>1. Tail(stack[t]) \in Seq(FrameType) /\ Advanced(Top(t)) \in Seq(FrameType)
    BY <1>3, RunsShape, AdvancedType DEF CheckPasses
  <2>2. stack' \in [Threads -> Seq(FrameType)]
    BY <1>3, <2>1, ReplaceShape DEF CheckPasses
  <2> QED BY <1>3, <2>2 DEF CheckPasses, TypeInv, threadVars, processVars
<1>4. CASE CheckTakes(t)
  <2> DEFINE v == Visited(Top(t))
  <2>1. Tail(stack[t]) \in Seq(FrameType) /\ Advanced(Top(t)) \in Seq(FrameType)
        /\ Entered(t, v) \in Seq(FrameType)
    BY <1>4, RunsShape, AdvancedType, EnteredType DEF CheckTakes
  <2>2. stack' \in [Threads -> Seq(FrameType)]
    <3>1. \/ Replace(t, Advanced(Top(t))) \/ UNCHANGED stack \/ Replace(t, Entered(t, v))
      BY <1>4 DEF CheckTakes
    <3> QED BY <2>1, <3>1, ReplaceShape DEF TypeInv
  <2>3. pending' \in [Threads -> SUBSET Signals]
    <3>1. UNCHANGED pending \/ ClearLocal(t, v) BY <1>4 DEF CheckTakes
    <3>2. pending[t] \ {v} \in SUBSET Signals BY DEF TypeInv
    <3> HIDE DEF v
    <3> QED BY <3>1, <3>2, ZenonT(30) DEF ClearLocal, TypeInv
  <2>4. blocked' \in [Threads -> SUBSET Signals]
    <3>1. v \in Signals BY <1>4 DEF CheckTakes, Found, TypeInv
    <3>2. Vectors[v].mask \subseteq Signals BY <3>1, SMT DEF TypeInv
    <3>3. UNCHANGED blocked \/ blocked' = [blocked EXCEPT ![t] = @ \cup Vectors[v].mask]
      BY <1>4 DEF CheckTakes
    <3>4. blocked[t] \cup Vectors[v].mask \in SUBSET Signals BY <3>2 DEF TypeInv
    <3> DEFINE b == blocked[t] \cup Vectors[v].mask
    <3>5. UNCHANGED blocked \/ blocked' = [blocked EXCEPT ![t] = b] BY <3>3
    <3>6. b \in SUBSET Signals BY <3>4
    <3> HIDE DEF v, b
    <3> QED BY <3>5, <3>6, ZenonT(30) DEF TypeInv
  <2>5. Pending' \subseteq Signals
    <3>0. ClearGlobal(v) \/ UNCHANGED processVars BY <1>4 DEF CheckTakes
    <3> HIDE DEF v
    <3>1. UNCHANGED Pending \/ Clear_process_signals(v)
      BY <3>0 DEF ClearGlobal, processVars
    <3> QED BY <3>1 DEF Clear_process_signals, TypeInv
  <2> QED BY <1>4, <2>2, <2>3, <2>4, <2>5, SMTT(30) DEF CheckTakes, TypeInv
<1>5. CASE HandlerReturns(t)
  <2>1. Tail(stack[t]) \in Seq(FrameType) /\ Top(t) \in FrameType /\ Top(t).pc = "handler"
    BY <1>5, RunsShape DEF HandlerReturns
  <2>2. Top(t).set \subseteq Signals BY <2>1 DEF FrameType
  <2>3. stack' \in [Threads -> Seq(FrameType)]
    BY <1>0, <1>5, <2>1, ReplaceShape DEF HandlerReturns
  <2> QED BY <1>5, <2>2, <2>3 DEF HandlerReturns, RestoredMask, TypeInv, processVars
<1>6. CASE WaitStarts(t)
  <2>1. Tail(stack[t]) \in Seq(FrameType) /\ Top(t) \in FrameType /\ Top(t).pc = "wait"
    BY <1>6, RunsShape DEF WaitStarts
  <2>2. Top(t).set \subseteq Signals BY <2>1 DEF FrameType
  <2>3. stack' \in [Threads -> Seq(FrameType)]
    BY <1>0, <1>6, <2>1, ReplaceShape DEF WaitStarts
  <2> QED BY <1>6, <2>2, <2>3 DEF WaitStarts, TypeInv, processVars
<1>7. CASE WaitTimesOut(t)
  BY <1>7 DEF WaitTimesOut, TypeInv, processVars
<1>8. CASE KillSend(t)
  <2>1. Tail(stack[t]) \in Seq(FrameType) BY <1>8, RunsShape DEF KillSend
  <2>2. Marked(Top(t).set) \in [Threads -> BOOLEAN] BY DEF Marked
  <2>3. do_post' \in [Threads -> BOOLEAN] /\ stack' \in [Threads -> Seq(FrameType)]
    BY <1>8, <2>1, <2>2, DispatchShape DEF KillSend
  <2>4. Order[Top(t).at] \in Signals
    <3>1. Top(t) \in FrameType /\ Top(t).pc = "send" BY <1>8, RunsShape DEF KillSend
    <3>2. Top(t).at \in 1..Len(Order) BY <3>1 DEF FrameType
    <3> QED BY <3>2, SMT
  <2>5. /\ waiting' \in [Threads -> (SUBSET Signals) \cup {NULL}]
        /\ Pending' \subseteq Signals
    BY <1>8, <2>4, ProcessType DEF KillSend
  <2> QED BY <1>8, <2>3, <2>5 DEF KillSend, TypeInv
<1> QED BY <1>1, <1>2, <1>3, <1>4, <1>5, <1>6, <1>7, <1>8 DEF Step

LEMMA PthreadKillTypes ==
  ASSUME TypeInv, NEW t \in Threads, NEW s \in Signals, PthreadKill(t, s)
  PROVE  /\ pending' \in [Threads -> SUBSET Signals]
         /\ waiting' \in [Threads -> (SUBSET Signals) \cup {NULL}]
         /\ Flagged(t) \in [Threads -> BOOLEAN]
         /\ UNCHANGED <<Vectors, Pending, blocked, running>>
<1>1. pending[t] \cup {s} \in SUBSET Signals BY DEF TypeInv
<1>2. (IF Wakes(t, s) THEN NULL ELSE waiting[t]) \in (SUBSET Signals) \cup {NULL}
  BY DEF TypeInv
<1>3. waiting' = [waiting EXCEPT ![t] = IF Wakes(t, s) THEN NULL ELSE waiting[t]]
  BY DEF PthreadKill
<1> HIDE DEF Wakes
<1> DEFINE w == IF Wakes(t, s) THEN NULL ELSE waiting[t]
<1>4. waiting' = [waiting EXCEPT ![t] = w] /\ w \in (SUBSET Signals) \cup {NULL}
  BY <1>2, <1>3
<1> HIDE DEF w
<1>5. waiting' \in [Threads -> (SUBSET Signals) \cup {NULL}] BY <1>4 DEF TypeInv
<1> QED BY <1>1, <1>5 DEF PthreadKill, Flagged, TypeInv, processVars

\* ... and so do the calls.
LEMMA CallTypes == ASSUME TypeInv, Call PROVE TypeInv'
<1> USE PosixAssumption
<1>1. ASSUME NEW s \in Signals, KillFromISR(s) PROVE TypeInv'
  <2>1. Marked(Target(s)) \in [Threads -> BOOLEAN] BY DEF Marked
  <2>2. /\ waiting' \in [Threads -> (SUBSET Signals) \cup {NULL}]
        /\ Pending' \subseteq Signals
    BY <1>1, ProcessType DEF KillFromISR
  <2> QED BY <1>1, <2>1, <2>2, SMTT(30) DEF KillFromISR, TypeInv
<1>2. ASSUME NEW t \in Threads, NEW i \in 1..Len(Order), KillSearch(t, i) PROVE TypeInv'
  <2>1. Frame("send", i, Target(Order[i])) \in FrameType
    BY TargetType DEF Frame, FrameType
  <2>2. stack' \in [Threads -> Seq(FrameType)]
    BY <1>2, <2>1, PushShape DEF KillSearch
  <2> QED BY <1>2, <2>2 DEF KillSearch, TypeInv, threadVars, processVars
<1>3. ASSUME NEW t \in Threads, NEW m \in Sets, Sigmask(t, m) PROVE TypeInv'
  <2>1. [do_post EXCEPT ![t] = TRUE] \in [Threads -> BOOLEAN] /\ stack[t] \in Seq(FrameType)
    BY DEF TypeInv
  <2>2. do_post' \in [Threads -> BOOLEAN] /\ stack' \in [Threads -> Seq(FrameType)]
    <3>1. CASE Deliverable(t, m)
      BY <1>3, <2>1, <3>1, DispatchShape DEF Sigmask
    <3>2. CASE ~ Deliverable(t, m)
      BY <1>3, <3>2 DEF Sigmask, TypeInv
    <3> QED BY <3>1, <3>2
  <2>3. m \in SUBSET Signals OBVIOUS
  <2> QED BY <1>3, <2>2, <2>3 DEF Sigmask, TypeInv, processVars
<1>4. ASSUME NEW t \in Threads, NEW set \in Sets, Sigtimedwait(t, set) PROVE TypeInv'
  <2>1. Frame("wait", 0, set) \in FrameType BY DEF Frame, FrameType
  <2>2. stack' \in [Threads -> Seq(FrameType)]
    <3>1. Push(t, Frame("wait", 0, set)) \/ UNCHANGED stack BY <1>4 DEF Sigtimedwait
    <3> QED BY <2>1, <3>1, PushShape DEF TypeInv
  <2>3. pending' \in [Threads -> SUBSET Signals]
    <3> DEFINE p == pending[t] \ {Get_highest(pending[t])}
    <3>1. UNCHANGED pending \/ ClearLocal(t, Get_highest(pending[t]))
      BY <1>4 DEF Sigtimedwait
    <3>2. UNCHANGED pending \/ pending' = [pending EXCEPT ![t] = p]
      BY <3>1 DEF ClearLocal
    <3>3. p \in SUBSET Signals BY DEF TypeInv
    <3> HIDE DEF p
    <3> QED BY <3>2, <3>3, ZenonT(30) DEF TypeInv
  <2>4. Pending' \subseteq Signals
    <3> DEFINE v == Get_highest(Pending)
    <3>0. ClearGlobal(v) \/ UNCHANGED processVars BY <1>4 DEF Sigtimedwait
    <3> HIDE DEF v
    <3>1. UNCHANGED Pending \/ Clear_process_signals(v)
      BY <3>0 DEF ClearGlobal, processVars
    <3> QED BY <3>1 DEF Clear_process_signals, TypeInv
  <2> QED BY <1>4, <2>2, <2>3, <2>4 DEF Sigtimedwait, TypeInv
<1>5. ASSUME NEW t \in Threads, NEW s \in Signals, NEW act \in Actions, Sigaction(t, s, act)
      PROVE  TypeInv'
  <2>1. PICK v \in [kind : Kinds, mask : SUBSET Signals] :
          Vectors' = [Vectors EXCEPT ![s] = v]
    <3>1. SIG_DFL(s) \in [kind : Kinds, mask : SUBSET Signals] BY DEF SIG_DFL, Kinds
    <3>2. act # NULL => act \in [kind : Kinds, mask : SUBSET Signals]
      BY SMTT(30) DEF Actions, Kinds
    <3> QED BY <1>5, <3>1, <3>2 DEF Sigaction
  <2>2. Pending' \subseteq Signals
    BY <1>5, SMTT(30) DEF Sigaction, Clear_process_signals, processVars, TypeInv
  <2> QED BY <1>5, <2>1, <2>2 DEF Sigaction, TypeInv, threadVars
<1>6. ASSUME NEW t \in Threads, NEW s \in Signals, NEW u \in Threads,
             PthreadKillFromThread(u, t, s)
      PROVE  TypeInv'
  <2>1. PthreadKill(t, s) BY <1>6 DEF PthreadKillFromThread
  <2>2. stack[u] \in Seq(FrameType) BY DEF TypeInv
  <2>3. do_post' \in [Threads -> BOOLEAN] /\ stack' \in [Threads -> Seq(FrameType)]
    BY <1>6, <2>1, <2>2, PthreadKillTypes, DispatchShape DEF PthreadKillFromThread
  <2> QED BY <2>1, <2>3, PthreadKillTypes DEF TypeInv
<1>7. ASSUME NEW t \in Threads, NEW s \in Signals, PthreadKillFromISR(t, s) PROVE TypeInv'
  <2>1. PthreadKill(t, s) BY <1>7 DEF PthreadKillFromISR
  <2>2. stack[t] \in Seq(FrameType) /\ Flagged(t) \in [Threads -> BOOLEAN]
    BY <2>1, PthreadKillTypes DEF TypeInv
  <2>3. do_post' \in [Threads -> BOOLEAN] /\ stack' \in [Threads -> Seq(FrameType)]
    <3>1. \/ DispatchEnds(t, Flagged(t), stack[t])
          \/ do_post' = Flagged(t) /\ UNCHANGED stack
      BY <1>7 DEF PthreadKillFromISR
    <3> QED BY <2>2, <3>1, DispatchShape DEF TypeInv
  <2> QED BY <2>1, <2>3, PthreadKillTypes DEF TypeInv
<1> QED BY <1>1, <1>2, <1>3, <1>4, <1>5, <1>6, <1>7, SMTT(30) DEF Call

LEMMA TypesKept == ASSUME TypeInv, [Next]_vars PROVE TypeInv'
<1>1. CASE Next BY <1>1, StepTypes, CallTypes DEF Next
<1>2. CASE UNCHANGED vars BY <1>2 DEF vars, processVars, threadVars, TypeInv
<1> QED BY <1>1, <1>2

LEMMA TypesAtStart == Init => TypeInv
<1> SUFFICES ASSUME Init PROVE TypeInv OBVIOUS
<1>1. <<>> \in Seq(FrameType) BY SMT
<1>2. stack \in [Threads -> Seq(FrameType)] BY <1>1 DEF Init
<1>3. \A s \in Signals : SIG_DFL(s) \in [kind : Kinds, mask : SUBSET Signals]
  BY DEF SIG_DFL, Kinds
<1>4. blocked \in [Threads -> SUBSET Signals] BY PosixAssumption DEF Init
<1> QED BY <1>2, <1>3, <1>4 DEF Init, TypeInv

\* The types, of stacks of any depth
THEOREM PosixTypes == Spec => []TypeInv
<1> QED BY TypesAtStart, TypesKept, PTL DEF Spec

-----------------------------------------------------------------------------
(* Signals sent to a thread are noticed. *)

\* A handler returns to a new search, and what is pending and not blocked is
\* going to be looked at.
Noticed(t) ==
  \A s \in pending[t] \ blocked[t] : do_post[t] \/ Noticing(stack[t], s)
NoticeInv == \A t \in Threads : Guarded(stack[t]) /\ Noticed(t)

\* A thread whose stack no one touches
LEMMA QuietNotices ==
  ASSUME NEW x \in Threads, NoticeInv, stack'[x] = stack[x],
         pending'[x] \ blocked'[x] \subseteq pending[x] \ blocked[x],
         do_post[x] => do_post'[x]
  PROVE  Guarded(stack[x])' /\ Noticed(x)'
<1>1. Guarded(stack[x]) /\ Noticed(x) BY DEF NoticeInv
<1>2. Guarded(stack[x])' BY <1>1
<1>3. ASSUME NEW s \in pending'[x] \ blocked'[x] PROVE do_post'[x] \/ Noticing(stack'[x], s)
  BY <1>1, <1>3 DEF Noticed
<1> QED BY <1>2, <1>3 DEF Noticed

LEMMA RestartAhead == ASSUME NEW s PROVE Ahead(Frame("restart", 0, {}), s)
BY DEF Ahead, Frame

LEMMA RestartGuarded ==
  ASSUME NEW st \in Seq(FrameType), Guarded(st)
  PROVE  Guarded(<<Frame("restart", 0, {})>> \o st)
<1>1. Frame("restart", 0, {}).pc # "handler" BY DEF Frame
<1> QED BY <1>1, RestartFrame, PushedGuarded

\* A thread that comes out of a dispatch
LEMMA DispatchNotices ==
  ASSUME TypeInv, NEW t \in Threads, NEW flags \in [Threads -> BOOLEAN],
         NEW frames \in Seq(FrameType), DispatchEnds(t, flags, frames),
         Guarded(frames),
         \A s \in pending'[t] \ blocked'[t] : flags[t] \/ Noticing(frames, s)
  PROVE  Guarded(stack[t])' /\ Noticed(t)'
<1>1. CASE ~ flags[t] /\ do_post'[t] = flags[t] /\ stack'[t] = frames
  BY <1>1 DEF Noticed
<1>2. CASE stack'[t] = <<Frame("restart", 0, {})>> \o frames
  <2>1. Guarded(stack'[t]) BY <1>2, RestartGuarded
  <2>2. \A s : Noticing(stack'[t], s)
    BY <1>2, RestartFrame, RestartAhead, PushedNotices, SMT
  <2> QED BY <2>1, <2>2 DEF Noticed
<1> QED BY <1>1, <1>2, DispatchShape

\* The innermost frame and the others
LEMMA TopAndRest ==
  ASSUME TypeInv, NoticeInv, NEW t \in Threads, NEW pc, pc # "body", Runs(t, pc)
  PROVE  /\ Top(t) \in FrameType /\ Top(t).pc = pc
         /\ Tail(stack[t]) \in Seq(FrameType)
         /\ Guarded(Tail(stack[t]))
         /\ pc = "handler" =>
              Tail(stack[t]) # <<>> /\ Tail(stack[t])[1].pc = "restart"
         /\ \A s \in pending[t] \ blocked[t] :
              do_post[t] \/ Ahead(Top(t), s) \/ Noticing(Tail(stack[t]), s)
<1>1. /\ Top(t) \in FrameType /\ Top(t).pc = pc
      /\ Tail(stack[t]) \in Seq(FrameType)
      /\ stack[t] = <<Top(t)>> \o Tail(stack[t])
  BY RunsShape
<1>2. Guarded(<<Top(t)>> \o Tail(stack[t])) BY <1>1 DEF NoticeInv
<1>3. \A s \in pending[t] \ blocked[t] :
        do_post[t] \/ Noticing(<<Top(t)>> \o Tail(stack[t]), s)
  BY <1>1 DEF NoticeInv, Noticed
<1>4. /\ Guarded(Tail(stack[t]))
      /\ pc = "handler" => Tail(stack[t]) # <<>> /\ Tail(stack[t])[1].pc = "restart"
  BY <1>1, <1>2, PushedGuarded
<1> HIDE DEF Top
<1>5. \A s \in pending[t] \ blocked[t] :
        do_post[t] \/ Ahead(Top(t), s) \/ Noticing(Tail(stack[t]), s)
  BY <1>1, <1>3, PushedNotices
<1> QED BY <1>1, <1>4, <1>5

\* A search that goes on has only the visited signal behind it.
LEMMA AdvancedNotices ==
  ASSUME NEW f \in FrameType, f.pc = "search", NEW st \in Seq(FrameType), NEW s,
         Ahead(f, s), s = Visited(f) => IsGlobal(f)
  PROVE  Noticing(Advanced(f) \o st, s)
<1>1. PICK i \in 1..Len(Order) : Order[i] = s /\ f.at <= 2 * (i - 1)
  BY DEF Ahead
<1>2. f.at \in Nat /\ Len(Order) \in Nat BY PosixAssumption, SMT DEF FrameType
<1>3. f.at # 2 * (i - 1)
  <2> SUFFICES ASSUME f.at = 2 * (i - 1) PROVE FALSE OBVIOUS
  <2>1. f.at % 2 = 0 /\ (f.at \div 2) + 1 = i BY <1>2, SMT
  <2> QED BY <1>1, <2>1, SMT DEF Visited, IsGlobal
<1>4. f.at + 1 <= 2 * (i - 1) /\ f.at + 1 # 2 * Len(Order) BY <1>1, <1>2, <1>3, SMT
<1> DEFINE g == [f EXCEPT !.at = f.at + 1]
<1>5. g \in FrameType /\ Advanced(f) = <<g>> BY <1>4, AdvancedType
<1>6. g.pc = "search" /\ g.at = f.at + 1 BY DEF FrameType
<1> HIDE DEF g
<1>7. Ahead(g, s) BY <1>1, <1>4, <1>6 DEF Ahead
<1> QED BY <1>5, <1>7, PushedNotices

LEMMA AdvancedKeeps ==
  ASSUME NEW f \in FrameType, f.pc = "search", NEW st \in Seq(FrameType), NEW s,
         Noticing(st, s)
  PROVE  Noticing(Advanced(f) \o st, s)
<1> DEFINE g == [f EXCEPT !.at = f.at + 1]
<1>1. CASE Advanced(f) = <<>> BY <1>1, SMT
<1>2. CASE Advanced(f) = <<g>> /\ g \in FrameType
  <2> HIDE DEF g
  <2> QED BY <1>2, PushedNotices
<1> QED BY <1>1, <1>2, AdvancedType

LEMMA AdvancedGuarded ==
  ASSUME NEW f \in FrameType, f.pc = "search", NEW st \in Seq(FrameType), Guarded(st)
  PROVE  Guarded(Advanced(f) \o st)
<1> DEFINE g == [f EXCEPT !.at = f.at + 1]
<1>1. CASE Advanced(f) = <<>> BY <1>1, SMT
<1>2. CASE Advanced(f) = <<g>> /\ g \in FrameType
  <2>1. g.pc # "handler" BY DEF FrameType
  <2> HIDE DEF g
  <2> QED BY <1>2, <2>1, PushedGuarded
<1> QED BY <1>1, <1>2, AdvancedType

LEMMA StepNotices ==
  ASSUME TypeInv, NoticeInv, NEW t \in Threads, Step(t), NEW x \in Threads
  PROVE  Guarded(stack[x])' /\ Noticed(x)'
<1> USE PosixAssumption
<1>0. /\ stack[t] \in Seq(FrameType) /\ <<>> \in Seq(FrameType)
      /\ Guarded(stack[t]) /\ Noticed(t)
  BY SMT DEF TypeInv, NoticeInv
<1>1. CASE Switch(t)
  <2>1. do_post \in [Threads -> BOOLEAN] /\ UNCHANGED <<pending, blocked>>
        /\ DispatchEnds(t, do_post, stack[t])
    BY <1>1 DEF Switch, TypeInv
  <2>2. CASE x = t
    <3>1. \A s \in pending'[t] \ blocked'[t] : do_post[t] \/ Noticing(stack[t], s)
      BY <1>0, <2>1 DEF Noticed
    <3> QED BY <1>0, <2>1, <2>2, <3>1, DispatchNotices
  <2>3. CASE x # t
    <3>1. stack'[x] = stack[x] /\ do_post'[x] = do_post[x]
      BY <1>0, <2>1, <2>3, DispatchShape, SMTT(30)
    <3> QED BY <2>1, <3>1, QuietNotices
  <2> QED BY <2>2, <2>3
<1>2. CASE Restart(t)
  <2> DEFINE f == Frame("search", 0, {})
             fs == IF Unblocked(t) = {} THEN <<>> ELSE <<f>>
             rest == Tail(stack[t])
  <2>1. rest \in Seq(FrameType) /\ Guarded(rest) BY <1>2, TopAndRest DEF Restart
  <2>2. f \in FrameType /\ f.pc = "search" /\ f.at = 0 BY DEF Frame, FrameType
  <2>3. UNCHANGED <<pending, blocked, do_post>> BY <1>2 DEF Restart, threadVars
  <2>4. /\ stack'[t] = fs \o rest
        /\ \A y \in Threads \ {t} : stack'[y] = stack[y]
    <3>1. Replace(t, fs) BY <1>2 DEF Restart
    <3>2. fs \in Seq(FrameType) BY <1>0, <2>2, SMT
    <3> HIDE DEF fs, rest, f
    <3> QED BY <2>1, <3>1, <3>2, ReplaceShape DEF rest
  <2>5. CASE x = t /\ Unblocked(t) = {}
    <3>1. pending'[t] \ blocked'[t] = {} BY <2>3, <2>5 DEF Unblocked
    <3>2. stack'[t] = rest BY <2>1, <2>4, <2>5, SMT
    <3> QED BY <2>1, <2>5, <3>1, <3>2 DEF Noticed
  <2>6. CASE x = t /\ Unblocked(t) # {}
    <3>1. stack'[t] = <<f>> \o rest BY <2>4, <2>6
    <3> HIDE DEF f, rest, fs
    <3>2. Guarded(<<f>> \o rest) BY <2>1, <2>2, PushedGuarded
    <3>3. ASSUME NEW s \in Signals PROVE Noticing(<<f>> \o rest, s)
      <4>1. PICK i \in 1..Len(Order) : Order[i] = s OBVIOUS
      <4>2. Ahead(f, s) BY <2>2, <4>1, SMT DEF Ahead
      <4> QED BY <2>1, <2>2, <4>2, PushedNotices
    <3>4. pending'[t] \subseteq Signals BY <2>3 DEF TypeInv
    <3> QED BY <2>6, <3>1, <3>2, <3>3, <3>4 DEF Noticed
  <2>7. CASE x # t BY <2>3, <2>4, <2>7, QuietNotices
  <2> QED BY <2>5, <2>6, <2>7
<1>3. CASE CheckPasses(t)
  <2> DEFINE f == Top(t)
             rest == Tail(stack[t])
  <2>1. /\ f \in FrameType /\ f.pc = "search"
        /\ rest \in Seq(FrameType) /\ Guarded(rest)
        /\ \A s \in pending[t] \ blocked[t] :
              do_post[t] \/ Ahead(f, s) \/ Noticing(rest, s)
    BY <1>3, TopAndRest DEF CheckPasses
  <2>2. UNCHANGED <<pending, blocked, do_post>> BY <1>3 DEF CheckPasses, threadVars
  <2>3. /\ stack'[t] = Advanced(f) \o rest
        /\ \A y \in Threads \ {t} : stack'[y] = stack[y]
    BY <1>3, <2>1, AdvancedType, ReplaceShape DEF CheckPasses
  <2>4. CASE x = t
    <3>1. ~ Found(t, f) BY <1>3 DEF CheckPasses
    <3>2. ASSUME NEW s \in pending[t] \ blocked[t], s = Visited(f) PROVE IsGlobal(f)
      BY <3>1, <3>2 DEF Found
    <3> HIDE DEF f, rest
    <3>3. ASSUME NEW s \in pending[t] \ blocked[t]
          PROVE  do_post[t] \/ Noticing(Advanced(f) \o rest, s)
      <4>1. CASE Ahead(f, s) BY <2>1, <3>2, <4>1, AdvancedNotices
      <4>2. CASE Noticing(rest, s) BY <2>1, <4>2, AdvancedKeeps
      <4> QED BY <2>1, <4>1, <4>2
    <3>4. Guarded(Advanced(f) \o rest) BY <2>1, AdvancedGuarded
    <3> QED BY <2>2, <2>3, <2>4, <3>3, <3>4 DEF Noticed
  <2>5. CASE x # t BY <2>2, <2>3, <2>5, QuietNotices
  <2> QED BY <2>4, <2>5
<1>4. CASE CheckTakes(t)
  <2> DEFINE f == Top(t)
             v == Visited(f)
             rest == Tail(stack[t])
             h == Frame("handler", 0, blocked[t])
             r == Frame("restart", 0, {})
  <2>1. /\ f \in FrameType /\ f.pc = "search"
        /\ rest \in Seq(FrameType) /\ Guarded(rest)
        /\ \A s \in pending[t] \ blocked[t] :
              do_post[t] \/ Ahead(f, s) \/ Noticing(rest, s)
    BY <1>4, TopAndRest DEF CheckTakes
  <2>2. /\ UNCHANGED do_post
        /\ \A y \in Threads : pending'[y] \subseteq pending[y]
        /\ ~ IsGlobal(f) => v \notin pending'[t]
    <3>1. UNCHANGED do_post BY <1>4 DEF CheckTakes
    <3>2. IF IsGlobal(f) THEN UNCHANGED pending ELSE ClearLocal(t, v)
      BY <1>4 DEF CheckTakes
    <3> HIDE DEF f, v
    <3>3. pending \in [Threads -> SUBSET Signals] BY DEF TypeInv
    <3>4. CASE IsGlobal(f) BY <3>1, <3>2, <3>4
    <3>5. CASE ~ IsGlobal(f)
      <4>1. pending' = [pending EXCEPT ![t] = pending[t] \ {v}] BY <3>2, <3>5 DEF ClearLocal
      <4>2. pending'[t] = pending[t] \ {v} /\ \A y \in Threads \ {t} : pending'[y] = pending[y]
        BY <3>3, <4>1
      <4> QED BY <3>1, <4>2, SMTT(30)
    <3> QED BY <3>4, <3>5
  <2>3. \A y \in Threads : blocked[y] \subseteq blocked'[y]
    <3>1. UNCHANGED blocked \/ blocked' = [blocked EXCEPT ![t] = @ \cup Vectors[v].mask]
      BY <1>4 DEF CheckTakes
    <3> DEFINE m == Vectors[v].mask
    <3> HIDE DEF m
    <3>2. UNCHANGED blocked \/ blocked' = [blocked EXCEPT ![t] = blocked[t] \cup m]
      BY <3>1 DEF m
    <3>3. blocked \in [Threads -> SUBSET Signals] BY DEF TypeInv
    <3>4. UNCHANGED blocked \/ (/\ blocked'[t] = blocked[t] \cup m
                                /\ \A y \in Threads \ {t} : blocked'[y] = blocked[y])
      BY <3>2, <3>3
    <3> QED BY <3>4, SMTT(30)
  <2>4. \/ Replace(t, Advanced(f)) \/ UNCHANGED stack \/ Replace(t, Entered(t, v))
    BY <1>4 DEF CheckTakes
  <2>5. h \in FrameType /\ h.pc = "handler" /\ r \in FrameType /\ r.pc = "restart"
        /\ Entered(t, v) \in Seq(FrameType) /\ Entered(t, v) = <<h>> \o <<r>>
    BY EnteredType, RestartFrame DEF Frame
  <2> HIDE DEF f, v, rest, h, r
  <2>6. CASE x # t
    <3>1. stack'[x] = stack[x]
      BY <2>1, <2>4, <2>5, <2>6, AdvancedType, ReplaceShape, ZenonT(30) DEF rest
    <3> QED BY <2>2, <2>3, <3>1, QuietNotices
  <2>7. CASE UNCHANGED stack
    BY <2>2, <2>3, <2>7, QuietNotices, SMTT(30)
  <2>8. CASE x = t /\ Replace(t, Advanced(f))
    <3>1. stack'[t] = Advanced(f) \o rest
      BY <2>1, <2>8, AdvancedType, ReplaceShape DEF rest
    <3>2. ASSUME NEW s \in pending'[t] \ blocked'[t]
          PROVE  do_post'[t] \/ Noticing(Advanced(f) \o rest, s)
      <4>1. s \in pending[t] \ blocked[t] BY <2>2, <2>3
      <4>2. s = v => IsGlobal(f) BY <2>2
      <4>3. CASE Ahead(f, s) BY <2>1, <4>2, <4>3, AdvancedNotices DEF v
      <4>4. CASE Noticing(rest, s) BY <2>1, <4>4, AdvancedKeeps
      <4> QED BY <2>1, <2>2, <4>1, <4>3, <4>4
    <3>3. Guarded(Advanced(f) \o rest) BY <2>1, AdvancedGuarded
    <3> QED BY <2>8, <3>1, <3>2, <3>3 DEF Noticed
  <2>9. CASE x = t /\ Replace(t, Entered(t, v))
    <3> DEFINE again == <<r>> \o rest
    <3>a. again \in Seq(FrameType) /\ again # <<>> /\ again[1] = r
      BY <2>1, <2>5, Pushed, SMT
    <3>b. Guarded(again) BY <2>1, RestartGuarded, SMTT(30) DEF r
    <3>c. \A s : Noticing(again, s) BY <2>1, <2>5, RestartAhead, PushedNotices DEF r
    <3>1. /\ again \in Seq(FrameType) /\ again # <<>> /\ again[1] = r
          /\ Guarded(again) /\ \A s : Noticing(again, s)
      BY <3>a, <3>b, <3>c
    <3>2. stack'[t] = <<h>> \o again
      <4>1. stack'[t] = (<<h>> \o <<r>>) \o rest
        BY <2>1, <2>5, <2>9, ReplaceShape, ZenonT(30) DEF rest
      <4>2. (<<h>> \o <<r>>) \o rest = <<h>> \o (<<r>> \o rest) BY <2>1, <2>5, SMTT(30)
      <4> QED BY <4>1, <4>2, SMTT(30)
    <3> HIDE DEF again
    <3>3. Guarded(stack'[t]) BY <2>5, <3>1, <3>2, PushedGuarded, SMT
    <3>4. \A s : Noticing(stack'[t], s) BY <2>5, <3>1, <3>2, PushedNotices, SMT
    <3> QED BY <2>9, <3>3, <3>4 DEF Noticed
  <2> QED BY <2>4, <2>6, <2>7, <2>8, <2>9
<1>5. CASE HandlerReturns(t)
  <2> DEFINE rest == Tail(stack[t])
  <2>1. /\ rest \in Seq(FrameType) /\ Guarded(rest)
        /\ rest # <<>> /\ rest[1].pc = "restart"
    BY <1>5, TopAndRest DEF HandlerReturns
  <2>2. UNCHANGED <<pending, do_post>> /\ \A y \in Threads \ {t} : blocked'[y] = blocked[y]
    BY <1>5 DEF HandlerReturns, TypeInv
  <2>3. stack'[t] = <<>> \o rest /\ \A y \in Threads \ {t} : stack'[y] = stack[y]
    BY <1>0, <1>5, <2>1, ReplaceShape DEF HandlerReturns
  <2> HIDE DEF rest
  <2>4. CASE x = t
    <3>1. stack'[t] = rest BY <2>1, <2>3, SMT
    <3>2. 1 \in 1..Len(rest) BY <2>1, SMT
    <3>3. \A s : Noticing(rest, s) BY <2>1, <3>2 DEF Noticing, Ahead
    <3> QED BY <2>1, <2>4, <3>1, <3>3 DEF Noticed
  <2>5. CASE x # t BY <2>2, <2>3, <2>5, QuietNotices, SMTT(30)
  <2> QED BY <2>4, <2>5
<1>6. CASE WaitStarts(t)
  <2> DEFINE rest == Tail(stack[t])
  <2>1. /\ Top(t).pc = "wait"
        /\ rest \in Seq(FrameType) /\ Guarded(rest)
        /\ \A s \in pending[t] \ blocked[t] :
              do_post[t] \/ Ahead(Top(t), s) \/ Noticing(rest, s)
    BY <1>6, TopAndRest DEF WaitStarts
  <2>2. UNCHANGED <<pending, blocked, do_post>> BY <1>6 DEF WaitStarts
  <2>3. stack'[t] = <<>> \o rest /\ \A y \in Threads \ {t} : stack'[y] = stack[y]
    BY <1>0, <1>6, <2>1, ReplaceShape DEF WaitStarts
  <2> HIDE DEF rest
  <2>4. CASE x = t
    <3>1. stack'[t] = rest BY <2>1, <2>3, SMT
    <3>2. \A s : ~ Ahead(Top(t), s) BY <2>1 DEF Ahead
    <3> QED BY <2>1, <2>2, <2>4, <3>1, <3>2 DEF Noticed
  <2>5. CASE x # t BY <2>2, <2>3, <2>5, QuietNotices
  <2> QED BY <2>4, <2>5
<1>7. CASE WaitTimesOut(t)
  BY <1>7, QuietNotices, SMTT(30) DEF WaitTimesOut
<1>8. CASE KillSend(t)
  <2> DEFINE rest == Tail(stack[t])
             flags == Marked(Top(t).set)
  <2>1. /\ Top(t).pc = "send"
        /\ rest \in Seq(FrameType) /\ Guarded(rest)
        /\ \A s \in pending[t] \ blocked[t] :
              do_post[t] \/ Ahead(Top(t), s) \/ Noticing(rest, s)
    BY <1>8, TopAndRest, SMTT(30) DEF KillSend
  <2>2. UNCHANGED <<pending, blocked>> /\ DispatchEnds(t, flags, rest)
    BY <1>8 DEF KillSend
  <2>3. flags \in [Threads -> BOOLEAN] /\ \A y \in Threads : do_post[y] => flags[y]
    BY DEF Marked
  <2> HIDE DEF rest, flags
  <2>4. CASE x = t
    <3>1. \A s : ~ Ahead(Top(t), s) BY <2>1 DEF Ahead
    <3>2. \A s \in pending'[t] \ blocked'[t] : flags[t] \/ Noticing(rest, s)
      BY <2>1, <2>2, <2>3, <3>1
    <3> QED BY <2>1, <2>2, <2>3, <2>4, <3>2, DispatchNotices
  <2>5. CASE x # t
    <3>0. \A y \in Threads \ {t} : do_post'[y] = flags[y] /\ stack'[y] = stack[y]
      BY <2>1, <2>2, <2>3, DispatchShape
    <3>1. stack'[x] = stack[x] /\ do_post'[x] = flags[x]
      BY <2>5, <3>0
    <3> QED BY <2>2, <2>3, <3>1, QuietNotices
  <2> QED BY <2>4, <2>5
<1> QED BY <1>1, <1>2, <1>3, <1>4, <1>5, <1>6, <1>7, <1>8 DEF Step

\* A frame that is neither a search nor a handler
LEMMA PlainPush ==
  ASSUME TypeInv, NoticeInv, NEW t \in Threads, NEW f \in FrameType,
         f.pc \in {"send", "wait"}, Push(t, f),
         \A y \in Threads : pending'[y] \ blocked'[y] \subseteq pending[y] \ blocked[y],
         UNCHANGED do_post, NEW x \in Threads
  PROVE  Guarded(stack[x])' /\ Noticed(x)'
<1>1. /\ stack'[t] = <<f>> \o stack[t]
      /\ \A y \in Threads \ {t} : stack'[y] = stack[y]
  BY PushShape
<1>2. CASE x = t
  <2>1. stack[t] \in Seq(FrameType) /\ Guarded(stack[t]) /\ Noticed(t)
    BY DEF TypeInv, NoticeInv
  <2>2. Guarded(<<f>> \o stack[t]) BY <2>1, PushedGuarded
  <2>3. ASSUME NEW s \in pending'[t] \ blocked'[t]
        PROVE  do_post'[t] \/ Noticing(<<f>> \o stack[t], s)
    <3>1. do_post[t] \/ Noticing(stack[t], s) BY <2>1 DEF Noticed
    <3> QED BY <2>1, <3>1, PushedNotices
  <2> QED BY <1>1, <1>2, <2>2, <2>3 DEF Noticed
<1>3. CASE x # t BY <1>1, <1>3, QuietNotices
<1> QED BY <1>2, <1>3

LEMMA CallNotices ==
  ASSUME TypeInv, NoticeInv, Call, NEW x \in Threads
  PROVE  Guarded(stack[x])' /\ Noticed(x)'
<1> USE PosixAssumption
<1>1. ASSUME NEW s \in Signals, KillFromISR(s) PROVE Guarded(stack[x])' /\ Noticed(x)'
  <2>1. do_post' = Marked(Target(s)) /\ UNCHANGED <<blocked, pending, stack>>
    BY <1>1 DEF KillFromISR
  <2>2. do_post[x] => do_post'[x] BY <2>1 DEF Marked
  <2> QED BY <2>1, <2>2, QuietNotices
<1>2. ASSUME NEW t \in Threads, NEW i \in 1..Len(Order), KillSearch(t, i)
      PROVE  Guarded(stack[x])' /\ Noticed(x)'
  <2> DEFINE f == Frame("send", i, Target(Order[i]))
  <2>1. f \in FrameType /\ f.pc = "send" BY TargetType DEF Frame, FrameType
  <2>2. Push(t, f) /\ UNCHANGED <<pending, blocked, do_post>>
    BY <1>2 DEF KillSearch, threadVars
  <2> HIDE DEF f
  <2> QED BY <2>1, <2>2, PlainPush
<1>3. ASSUME NEW t \in Threads, NEW m \in Sets, Sigmask(t, m)
      PROVE  Guarded(stack[x])' /\ Noticed(x)'
  <2> DEFINE flags == [do_post EXCEPT ![t] = TRUE]
  <2>1. flags \in [Threads -> BOOLEAN] /\ flags[t] /\ \A y \in Threads \ {t} : flags[y] = do_post[y]
    BY DEF TypeInv
  <2>2. stack[t] \in Seq(FrameType) /\ Guarded(stack[t]) BY DEF TypeInv, NoticeInv
  <2>3. /\ UNCHANGED pending
        /\ blocked'[t] = m /\ \A y \in Threads \ {t} : blocked'[y] = blocked[y]
    BY <1>3 DEF Sigmask, TypeInv
  <2>4. CASE Deliverable(t, m)
    <3>1. DispatchEnds(t, flags, stack[t]) BY <1>3, <2>4 DEF Sigmask
    <3> HIDE DEF flags
    <3>2. CASE x = t BY <2>1, <2>2, <3>1, <3>2, DispatchNotices
    <3>3. CASE x # t
      <4>1. \A y \in Threads \ {t} : do_post'[y] = flags[y] /\ stack'[y] = stack[y]
        BY <2>1, <2>2, <3>1, DispatchShape, SMTT(30)
      <4> QED BY <2>1, <2>3, <3>3, <4>1, QuietNotices, SMTT(30)
    <3> QED BY <3>2, <3>3
  <2>5. CASE ~ Deliverable(t, m)
    <3>1. UNCHANGED <<do_post, stack>> BY <1>3, <2>5 DEF Sigmask
    <3>2. pending'[t] \ blocked'[t] = {} BY <2>3, <2>5 DEF Deliverable
    <3> QED BY <2>3, <3>1, <3>2, QuietNotices
  <2> QED BY <2>4, <2>5
<1>4. ASSUME NEW t \in Threads, NEW set \in Sets, Sigtimedwait(t, set)
      PROVE  Guarded(stack[x])' /\ Noticed(x)'
  <2> DEFINE f == Frame("wait", 0, set)
             v == Get_highest(pending[t])
  <2>1. f \in FrameType /\ f.pc = "wait" BY DEF Frame, FrameType
  <2>2. UNCHANGED <<blocked, do_post>> BY <1>4 DEF Sigtimedwait
  <2>3. Push(t, f) \/ UNCHANGED stack BY <1>4 DEF Sigtimedwait
  <2>4. UNCHANGED pending \/ ClearLocal(t, v) BY <1>4 DEF Sigtimedwait
  <2> HIDE DEF f, v
  <2>5. \A y \in Threads : pending'[y] \subseteq pending[y]
    <3> DEFINE p == pending[t] \ {v}
    <3>1. UNCHANGED pending \/ pending' = [pending EXCEPT ![t] = p] BY <2>4 DEF ClearLocal
    <3>2. pending \in [Threads -> SUBSET Signals] /\ p \subseteq pending[t] BY DEF TypeInv
    <3> HIDE DEF p
    <3> QED BY <3>1, <3>2
  <2>6. CASE Push(t, f) BY <2>1, <2>2, <2>5, <2>6, PlainPush, SMTT(30)
  <2>7. CASE UNCHANGED stack BY <2>2, <2>5, <2>7, QuietNotices
  <2> QED BY <2>3, <2>6, <2>7
<1>5. ASSUME NEW t \in Threads, NEW s \in Signals, NEW act \in Actions, Sigaction(t, s, act)
      PROVE  Guarded(stack[x])' /\ Noticed(x)'
  BY <1>5, QuietNotices DEF Sigaction, threadVars
<1>6. ASSUME NEW t \in Threads, NEW s \in Signals, NEW u \in Threads,
             PthreadKillFromThread(u, t, s)
      PROVE  Guarded(stack[x])' /\ Noticed(x)'
  <2> DEFINE flags == Flagged(t)
  <2>1. PthreadKill(t, s) /\ DispatchEnds(u, flags, stack[u])
    BY <1>6 DEF PthreadKillFromThread
  <2>2. flags \in [Threads -> BOOLEAN] BY <2>1, PthreadKillTypes
  <2>3. flags[t] /\ \A y \in Threads \ {t} : flags[y] = do_post[y] BY DEF Flagged, TypeInv
  <2>4. /\ UNCHANGED blocked
        /\ \A y \in Threads \ {t} : pending'[y] = pending[y]
    BY <2>1 DEF PthreadKill, TypeInv
  <2>5. stack[u] \in Seq(FrameType) /\ Guarded(stack[u]) /\ Noticed(u)
    BY DEF TypeInv, NoticeInv
  <2> HIDE DEF flags
  <2>6. CASE x = u
    <3>1. \A n \in pending'[u] \ blocked'[u] : flags[u] \/ Noticing(stack[u], n)
      BY <2>3, <2>4, <2>5 DEF Noticed
    <3> QED BY <2>1, <2>2, <2>5, <2>6, <3>1, DispatchNotices
  <2>7. CASE x # u
    <3>1. \A y \in Threads \ {u} : do_post'[y] = flags[y] /\ stack'[y] = stack[y]
      BY <2>1, <2>2, <2>5, DispatchShape
    <3>2. CASE x = t
      <4>1. do_post'[x] /\ stack'[x] = stack[x] BY <2>3, <2>7, <3>1, <3>2, SMTT(30)
      <4> QED BY <4>1 DEF NoticeInv, Noticed
    <3>3. CASE x # t BY <2>3, <2>4, <2>7, <3>1, <3>3, QuietNotices
    <3> QED BY <3>2, <3>3
  <2> QED BY <2>6, <2>7
<1>7. ASSUME NEW t \in Threads, NEW s \in Signals, PthreadKillFromISR(t, s)
      PROVE  Guarded(stack[x])' /\ Noticed(x)'
  <2> DEFINE flags == Flagged(t)
  <2>1. PthreadKill(t, s) BY <1>7 DEF PthreadKillFromISR
  <2>2. \/ DispatchEnds(t, flags, stack[t])
        \/ do_post' = flags /\ UNCHANGED stack
    BY <1>7 DEF PthreadKillFromISR
  <2>3. flags \in [Threads -> BOOLEAN] BY <2>1, PthreadKillTypes
  <2>4. flags[t] /\ \A y \in Threads \ {t} : flags[y] = do_post[y] BY DEF Flagged, TypeInv
  <2>5. /\ UNCHANGED blocked
        /\ \A y \in Threads \ {t} : pending'[y] = pending[y]
    BY <2>1 DEF PthreadKill, TypeInv
  <2>6. stack[t] \in Seq(FrameType) /\ Guarded(stack[t]) BY DEF TypeInv, NoticeInv
  <2> HIDE DEF flags
  <2>7. CASE do_post' = flags /\ UNCHANGED stack
    <3>1. CASE x = t BY <2>4, <2>7, <3>1 DEF NoticeInv, Noticed
    <3>2. CASE x # t BY <2>4, <2>5, <2>7, <3>2, QuietNotices
    <3> QED BY <3>1, <3>2
  <2>8. CASE DispatchEnds(t, flags, stack[t])
    <3>1. CASE x = t BY <2>3, <2>4, <2>6, <2>8, <3>1, DispatchNotices
    <3>2. CASE x # t
      <4>1. \A y \in Threads \ {t} : do_post'[y] = flags[y] /\ stack'[y] = stack[y]
        BY <2>3, <2>6, <2>8, DispatchShape
      <4> QED BY <2>4, <2>5, <3>2, <4>1, QuietNotices
    <3> QED BY <3>1, <3>2
  <2> QED BY <2>2, <2>7, <2>8
<1> QED BY <1>1, <1>2, <1>3, <1>4, <1>5, <1>6, <1>7 DEF Call

LEMMA NoticeKept == ASSUME TypeInv, NoticeInv, [Next]_vars PROVE NoticeInv'
<1>1. CASE Next BY <1>1, StepNotices, CallNotices DEF Next, NoticeInv
<1>2. CASE UNCHANGED vars BY <1>2, QuietNotices DEF vars, threadVars, NoticeInv
<1> QED BY <1>1, <1>2

\* A signal sent to a thread that does not block it, or blocks it no longer, is
\* noticed, whatever handlers nest and whatever masks they set.
THEOREM SignalsNoticed == Spec => []DirectedNoticed
<1>1. Init => NoticeInv
  <2> SUFFICES ASSUME Init, NEW t \in Threads PROVE Guarded(stack[t]) /\ Noticed(t)
    BY DEF NoticeInv
  <2>1. stack[t] = <<>> /\ pending[t] = {} BY DEF Init
  <2> QED BY <2>1, SMT DEF Guarded, Noticed
<1>2. NoticeInv => DirectedNoticed BY DEF NoticeInv, Noticed, Noticing, DirectedNoticed
<1> QED BY <1>1, <1>2, TypesAtStart, TypesKept, NoticeKept, PTL DEF Spec

-----------------------------------------------------------------------------
(* A thread sleeps only on the signals that came after it looked.           *)

\* What holds while sigtimedwait is between its checks and its wait, of a stack
\* of frames, the thread's pending signals and those sent since the look ...
WaitOK(st, p, u) ==
  \A i \in 1..Len(st) : st[i].pc = "wait" => st[i].set \cap p \subseteq u
\* ... and of a thread that sleeps.
Slept(t) == waiting[t] # NULL => waiting[t] \cap pending[t] \subseteq unseen[t]
Awake(t) == running = t => waiting[t] = NULL
Waits(t) == WaitOK(stack[t], pending[t], unseen[t]) /\ Slept(t) /\ Awake(t)
WaitInv ==
  /\ unseen \in [Threads -> SUBSET Signals]
  /\ \A t \in Threads : Waits(t)

LEMMA PushedWait ==
  ASSUME NEW st \in Seq(FrameType), NEW f \in FrameType, NEW p, NEW u
  PROVE  WaitOK(<<f>> \o st, p, u) <=>
           (f.pc = "wait" => f.set \cap p \subseteq u) /\ WaitOK(st, p, u)
<1>1. ASSUME WaitOK(<<f>> \o st, p, u)
      PROVE  (f.pc = "wait" => f.set \cap p \subseteq u) /\ WaitOK(st, p, u)
  <2>1. 1 \in 1..Len(<<f>> \o st) /\ (<<f>> \o st)[1] = f BY Pushed, SMT
  <2>2. f.pc = "wait" => f.set \cap p \subseteq u BY <1>1, <2>1 DEF WaitOK
  <2>3. ASSUME NEW i \in 1..Len(st), st[i].pc = "wait" PROVE st[i].set \cap p \subseteq u
    <3>1. i + 1 \in 1..Len(<<f>> \o st) BY Pushed, SMT
    <3>2. (<<f>> \o st)[i + 1] = st[i] BY Pushed, SMT
    <3> QED BY <1>1, <2>3, <3>1, <3>2 DEF WaitOK
  <2> QED BY <2>2, <2>3 DEF WaitOK
<1>2. ASSUME f.pc = "wait" => f.set \cap p \subseteq u, WaitOK(st, p, u)
      PROVE  WaitOK(<<f>> \o st, p, u)
  <2>1. ASSUME NEW i \in 1..Len(<<f>> \o st), (<<f>> \o st)[i].pc = "wait"
        PROVE  (<<f>> \o st)[i].set \cap p \subseteq u
    <3>1. CASE i = 1
      <4>1. (<<f>> \o st)[i] = f BY <3>1, Pushed
      <4> QED BY <1>2, <2>1, <4>1
    <3>2. CASE i # 1
      <4>1. i - 1 \in 1..Len(st) /\ (<<f>> \o st)[i] = st[i - 1] BY <3>2, Pushed
      <4> QED BY <1>2, <2>1, <4>1 DEF WaitOK
    <3> QED BY <3>1, <3>2
  <2> QED BY <2>1 DEF WaitOK
<1> QED BY <1>1, <1>2

\* A frame of another kind does not matter.
LEMMA PlainFrame ==
  ASSUME NEW st \in Seq(FrameType), NEW f \in FrameType, f.pc # "wait", NEW p, NEW u,
         WaitOK(st, p, u)
  PROVE  WaitOK(<<f>> \o st, p, u)
BY PushedWait

LEMMA WaitFrame ==
  ASSUME NEW st \in Seq(FrameType), NEW f \in FrameType, NEW p, NEW u,
         f.set \cap p \subseteq u, WaitOK(st, p, u)
  PROVE  WaitOK(<<f>> \o st, p, u)
BY PushedWait

\* A thread that is sent nothing and does not go to sleep
LEMMA QuietWaits ==
  ASSUME WaitInv, NEW x \in Threads, UNCHANGED unseen,
         pending'[x] \subseteq pending[x], waiting'[x] \in {waiting[x], NULL},
         running' = x => running = x \/ waiting[x] = NULL,
         WaitOK(stack'[x], pending[x], unseen[x])
  PROVE  Waits(x)'
<1>1. Slept(x) /\ Awake(x) BY DEF WaitInv, Waits
<1>2. Slept(x)' BY <1>1 DEF Slept
<1>3. Awake(x)' BY <1>1 DEF Awake
<1>4. WaitOK(stack'[x], pending'[x], unseen'[x]) BY DEF WaitOK
<1> QED BY <1>2, <1>3, <1>4 DEF Waits

\* The frames a thread returns to
LEMMA RestWaits ==
  ASSUME TypeInv, WaitInv, NEW t \in Threads, stack[t] # <<>>
  PROVE  /\ Tail(stack[t]) \in Seq(FrameType)
         /\ WaitOK(Tail(stack[t]), pending[t], unseen[t])
         /\ Top(t).pc = "wait" => Top(t).set \cap pending[t] \subseteq unseen[t]
<1>1. /\ Tail(stack[t]) \in Seq(FrameType) /\ Head(stack[t]) \in FrameType
      /\ stack[t] = <<Head(stack[t])>> \o Tail(stack[t])
  BY Popped DEF TypeInv
<1>2. WaitOK(<<Head(stack[t])>> \o Tail(stack[t]), pending[t], unseen[t])
  BY <1>1 DEF WaitInv, Waits
<1>3. /\ Head(stack[t]).pc = "wait" => Head(stack[t]).set \cap pending[t] \subseteq unseen[t]
      /\ WaitOK(Tail(stack[t]), pending[t], unseen[t])
  <2> DEFINE f == Head(stack[t])
             st == Tail(stack[t])
  <2>1. WaitOK(<<f>> \o st, pending[t], unseen[t]) /\ f \in FrameType /\ st \in Seq(FrameType)
    BY <1>1, <1>2
  <2> HIDE DEF f, st
  <2>2. (f.pc = "wait" => f.set \cap pending[t] \subseteq unseen[t])
        /\ WaitOK(st, pending[t], unseen[t])
    BY <2>1, PushedWait
  <2> QED BY <2>2 DEF f, st
<1> QED BY <1>1, <1>3 DEF Top

\* A thread that comes out of a dispatch, and the others
LEMMA DispatchWaits ==
  ASSUME TypeInv, WaitInv, NEW t \in Threads,
         NEW flags \in [Threads -> BOOLEAN], NEW frames \in Seq(FrameType),
         WaitOK(frames, pending[t], unseen[t]), DispatchEnds(t, flags, frames),
         NEW x \in Threads
  PROVE  WaitOK(stack'[x], pending[x], unseen[x])
<1>1. Frame("restart", 0, {}).pc # "wait" BY DEF Frame
<1>2. WaitOK(<<Frame("restart", 0, {})>> \o frames, pending[t], unseen[t])
  BY <1>1, RestartFrame, PlainFrame
<1>3. CASE x = t
  <2>1. stack'[t] = frames \/ stack'[t] = <<Frame("restart", 0, {})>> \o frames
    BY DispatchShape
  <2> QED BY <1>2, <1>3, <2>1
<1>4. CASE x # t
  <2>1. stack'[x] = stack[x] BY <1>4, DispatchShape
  <2> QED BY <2>1 DEF WaitInv, Waits
<1> QED BY <1>3, <1>4

LEMMA ReplaceWaits ==
  ASSUME TypeInv, WaitInv, NEW t \in Threads, stack[t] # <<>>,
         NEW fs \in Seq(FrameType), Replace(t, fs),
         WaitOK(fs \o Tail(stack[t]), pending[t], unseen[t]), NEW x \in Threads
  PROVE  WaitOK(stack'[x], pending[x], unseen[x])
<1>1. Tail(stack[t]) \in Seq(FrameType) BY Popped DEF TypeInv
<1>2. stack'[t] = fs \o Tail(stack[t]) /\ \A y \in Threads \ {t} : stack'[y] = stack[y]
  BY <1>1, ReplaceShape
<1> QED BY <1>2 DEF WaitInv, Waits

LEMMA StepWaits ==
  ASSUME TypeInv, WaitInv, NEW t \in Threads, Step(t), NEW x \in Threads
  PROVE  Waits(x)'
<1> USE PosixAssumption
<1>0. /\ stack[t] \in Seq(FrameType) /\ <<>> \in Seq(FrameType)
      /\ \A y \in Threads : WaitOK(stack[y], pending[y], unseen[y])
  BY SMT DEF WaitInv, Waits, TypeInv
<1>1. CASE Switch(t)
  <2>1. /\ do_post \in [Threads -> BOOLEAN] /\ DispatchEnds(t, do_post, stack[t])
        /\ UNCHANGED <<pending, waiting, unseen>> /\ running' = t /\ waiting[t] = NULL
    BY <1>1 DEF Switch, TypeInv
  <2>2. WaitOK(stack'[x], pending[x], unseen[x]) BY <1>0, <2>1, DispatchWaits
  <2> QED BY <2>1, <2>2, QuietWaits
<1>2. CASE Restart(t)
  <2> DEFINE f == Frame("search", 0, {})
             fs == IF Unblocked(t) = {} THEN <<>> ELSE <<f>>
             rest == Tail(stack[t])
  <2>1. stack[t] # <<>> /\ Replace(t, fs) /\ UNCHANGED <<pending, waiting, running, unseen>>
    BY <1>2, RunsShape DEF Restart, threadVars
  <2>2. rest \in Seq(FrameType) /\ WaitOK(rest, pending[t], unseen[t]) BY <2>1, RestWaits
  <2>3. f \in FrameType /\ f.pc # "wait" BY DEF Frame, FrameType
  <2> HIDE DEF f, rest
  <2>4. WaitOK(<<f>> \o rest, pending[t], unseen[t]) /\ <<>> \o rest = rest
    BY <2>2, <2>3, PlainFrame, SMT
  <2>5. fs \in Seq(FrameType) /\ WaitOK(fs \o rest, pending[t], unseen[t])
    <3>1. CASE Unblocked(t) = {} BY <1>0, <2>2, <2>4, <3>1
    <3>2. CASE Unblocked(t) # {} BY <2>3, <2>4, <3>2, SMT
    <3> QED BY <3>1, <3>2
  <2> HIDE DEF fs
  <2>6. WaitOK(stack'[x], pending[x], unseen[x])
    BY <2>1, <2>5, ReplaceWaits DEF rest
  <2> QED BY <2>1, <2>6, QuietWaits
<1>3. CASE CheckPasses(t) \/ CheckTakes(t)
  <2> DEFINE f == Top(t)
             v == Visited(f)
             rest == Tail(stack[t])
             h == Frame("handler", 0, blocked[t])
             r == Frame("restart", 0, {})
  <2>1. Runs(t, "search") BY <1>3 DEF CheckPasses, CheckTakes
  <2>2. stack[t] # <<>> /\ f \in FrameType /\ f.pc = "search"
    BY <2>1, RunsShape
  <2>3. rest \in Seq(FrameType) /\ WaitOK(rest, pending[t], unseen[t]) BY <2>2, RestWaits
  <2>4. UNCHANGED <<waiting, running, unseen>> /\ \A y \in Threads : pending'[y] \subseteq pending[y]
    <3>1. UNCHANGED <<waiting, running, unseen>> /\ (UNCHANGED pending \/ ClearLocal(t, v))
      BY <1>3 DEF CheckPasses, CheckTakes, threadVars
    <3> DEFINE p == pending[t] \ {v}
    <3>2. UNCHANGED pending \/ pending' = [pending EXCEPT ![t] = p]
      BY <3>1 DEF ClearLocal
    <3>3. pending \in [Threads -> SUBSET Signals] /\ p \subseteq pending[t] BY DEF TypeInv
    <3> HIDE DEF p
    <3>4. \A y \in Threads : pending'[y] \subseteq pending[y] BY <3>2, <3>3, SMTT(30)
    <3> QED BY <3>1, <3>4
  <2>5. Replace(t, Advanced(f)) \/ UNCHANGED stack \/ Replace(t, Entered(t, v))
    BY <1>3 DEF CheckPasses, CheckTakes
  <2>6. h \in FrameType /\ h.pc # "wait" /\ r \in FrameType /\ r.pc # "wait"
        /\ Entered(t, v) \in Seq(FrameType) /\ Entered(t, v) = <<h>> \o <<r>>
    BY EnteredType, RestartFrame DEF Frame
  <2> HIDE DEF f, v, rest, h, r
  <2>7. Advanced(f) \in Seq(FrameType) /\ WaitOK(Advanced(f) \o rest, pending[t], unseen[t])
    <3> DEFINE g == [f EXCEPT !.at = f.at + 1]
    <3>1. CASE Advanced(f) = <<>>
      <4>1. <<>> \o rest = rest BY <2>3, SMT
      <4> QED BY <1>0, <2>3, <3>1, <4>1
    <3>2. CASE Advanced(f) = <<g>> /\ g \in FrameType
      <4>1. g.pc # "wait" BY <2>2 DEF FrameType
      <4> HIDE DEF g
      <4>2. WaitOK(<<g>> \o rest, pending[t], unseen[t]) BY <2>3, <3>2, <4>1, PlainFrame
      <4>3. <<g>> \in Seq(FrameType) BY <3>2, SMT
      <4> QED BY <3>2, <4>2, <4>3
    <3> QED BY <2>2, <3>1, <3>2, AdvancedType
  <2>8. WaitOK(Entered(t, v) \o rest, pending[t], unseen[t])
    <3>1. (<<h>> \o <<r>>) \o rest = <<h>> \o (<<r>> \o rest) BY <2>3, <2>6, SMT
    <3>2. <<r>> \o rest \in Seq(FrameType) /\ WaitOK(<<r>> \o rest, pending[t], unseen[t])
      BY <2>3, <2>6, Pushed, PlainFrame
    <3>3. WaitOK(<<h>> \o (<<r>> \o rest), pending[t], unseen[t]) BY <2>6, <3>2, PlainFrame
    <3> QED BY <2>6, <3>1, <3>3
  <2>9. WaitOK(stack'[x], pending[x], unseen[x])
    BY <1>0, <2>2, <2>5, <2>6, <2>7, <2>8, ReplaceWaits DEF rest
  <2> QED BY <2>4, <2>9, QuietWaits
<1>4. CASE HandlerReturns(t)
  <2>1. stack[t] # <<>> /\ Replace(t, <<>>) /\ UNCHANGED <<pending, waiting, running, unseen>>
    BY <1>4, RunsShape DEF HandlerReturns
  <2>2. Tail(stack[t]) \in Seq(FrameType) /\ WaitOK(Tail(stack[t]), pending[t], unseen[t])
    BY <2>1, RestWaits
  <2>3. <<>> \o Tail(stack[t]) = Tail(stack[t]) BY <2>2, SMT
  <2>4. WaitOK(stack'[x], pending[x], unseen[x])
    BY <1>0, <2>1, <2>2, <2>3, ReplaceWaits
  <2> QED BY <2>1, <2>4, QuietWaits
<1>5. CASE WaitStarts(t)
  <2>1. stack[t] # <<>> /\ Top(t).pc = "wait" BY <1>5, RunsShape DEF WaitStarts
  <2>2. /\ Tail(stack[t]) \in Seq(FrameType)
        /\ WaitOK(Tail(stack[t]), pending[t], unseen[t])
        /\ Top(t).set \cap pending[t] \subseteq unseen[t]
    BY <2>1, RestWaits
  <2>3. <<>> \o Tail(stack[t]) = Tail(stack[t]) BY <2>2, SMT
  <2>4. Replace(t, <<>>) /\ running' = NULL /\ UNCHANGED <<pending, unseen>>
    BY <1>5 DEF WaitStarts
  <2>5. WaitOK(stack'[x], pending[x], unseen[x])
    BY <1>0, <2>1, <2>2, <2>3, <2>4, ReplaceWaits
  <2>6. waiting'[t] = Top(t).set /\ \A y \in Threads \ {t} : waiting'[y] = waiting[y]
    BY <1>5 DEF WaitStarts, TypeInv
  <2>7. CASE x = t
    <3>1. Slept(t)' BY <2>2, <2>4, <2>6 DEF Slept
    <3>2. Awake(t)' BY <2>4 DEF Awake
    <3> QED BY <2>4, <2>5, <2>7, <3>1, <3>2 DEF Waits
  <2>8. CASE x # t
    <3>1. waiting'[x] = waiting[x] BY <2>6, <2>8
    <3> QED BY <2>4, <2>5, <3>1, QuietWaits
  <2> QED BY <2>7, <2>8
<1>6. CASE WaitTimesOut(t)
  <2>1. /\ UNCHANGED <<pending, stack, running, unseen>>
        /\ \A y \in Threads : waiting'[y] \in {waiting[y], NULL}
    BY <1>6 DEF WaitTimesOut, TypeInv
  <2>2. WaitOK(stack'[x], pending[x], unseen[x]) BY <1>0, <2>1
  <2> QED BY <2>1, <2>2, QuietWaits
<1>7. CASE KillSend(t)
  <2> DEFINE rest == Tail(stack[t])
             flags == Marked(Top(t).set)
  <2>1. stack[t] # <<>> BY <1>7, RunsShape DEF KillSend
  <2>2. rest \in Seq(FrameType) /\ WaitOK(rest, pending[t], unseen[t]) BY <2>1, RestWaits
  <2>3. UNCHANGED <<pending, running, unseen>> /\ DispatchEnds(t, flags, rest)
    BY <1>7 DEF KillSend
  <2>4. flags \in [Threads -> BOOLEAN] BY DEF Marked
  <2>5. \A y \in Threads : waiting'[y] \in {waiting[y], NULL}
    BY <1>7, SMT DEF KillSend, Process_it, TypeInv
  <2> HIDE DEF rest, flags
  <2>6. WaitOK(stack'[x], pending[x], unseen[x]) BY <2>2, <2>3, <2>4, DispatchWaits
  <2> QED BY <2>3, <2>5, <2>6, QuietWaits
<1> QED BY <1>1, <1>2, <1>3, <1>4, <1>5, <1>6, <1>7 DEF Step

\* A signal sent to a thread: it is awake and between its look and its wait, and
\* the signal counts as unseen, or it has not looked, or it sleeps and is woken
\* if it waits for the signal.
LEMMA SentWaits ==
  ASSUME TypeInv, WaitInv, NEW t \in Threads, NEW s \in Signals, PthreadKill(t, s),
         NEW x \in Threads, WaitOK(stack'[x], pending[x], unseen[x]),
         x = t => (Looked(t)' <=> Looked(t))
  PROVE  Waits(x)'
<1>1. /\ pending'[t] = pending[t] \cup {s} /\ UNCHANGED running
      /\ \A y \in Threads \ {t} : pending'[y] = pending[y] /\ waiting'[y] = waiting[y]
  BY DEF PthreadKill, TypeInv
<1>2. waiting'[t] = IF Wakes(t, s) THEN NULL ELSE waiting[t]
  BY DEF PthreadKill, TypeInv
<1>3. /\ unseen'[t] = IF Looked(t) THEN unseen[t] \cup {s} ELSE unseen[t]
      /\ \A y \in Threads \ {t} : unseen'[y] = unseen[y]
  BY DEF PthreadKill, WaitInv
<1>4. Slept(x) /\ Awake(x) BY DEF WaitInv, Waits
<1>5. CASE x # t
  <2>1. /\ pending'[x] = pending[x] /\ waiting'[x] = waiting[x] /\ unseen'[x] = unseen[x]
    BY <1>1, <1>3, <1>5
  <2>2. Slept(x)' BY <1>4, <2>1 DEF Slept
  <2>3. Awake(x)' BY <1>1, <1>4, <2>1 DEF Awake
  <2> QED BY <2>1, <2>2, <2>3 DEF Waits
<1>6. CASE x = t
  <2>1. waiting'[t] # NULL => waiting'[t] = waiting[t] /\ s \notin waiting[t]
    BY <1>2, SMTT(30) DEF Wakes
  <2>2. unseen[t] \subseteq unseen'[t] BY <1>3
  <2>3. Slept(t)'
    <3> SUFFICES ASSUME waiting'[t] # NULL
                 PROVE  waiting'[t] \cap pending'[t] \subseteq unseen'[t]
      BY DEF Slept
    <3>1. waiting[t] \cap pending[t] \subseteq unseen[t] BY <1>4, <1>6, <2>1 DEF Slept
    <3> QED BY <1>1, <2>1, <2>2, <3>1
  <2>4. Awake(t)' BY <1>1, <1>2, <1>4, <1>6 DEF Awake
  <2>5. WaitOK(stack'[t], pending'[t], unseen'[t])
    <3>1. CASE Looked(t)
      <4>1. unseen'[t] = unseen[t] \cup {s} BY <1>3, <3>1
      <4> QED BY <1>1, <1>6, <4>1 DEF WaitOK
    <3>2. CASE ~ Looked(t)
      <4>1. ~ Looked(t)' BY <1>6, <3>2
      <4>2. \A i \in 1..Len(stack'[t]) : stack'[t][i].pc # "wait" BY <4>1 DEF Looked
      <4> QED BY <4>2 DEF WaitOK
    <3> QED BY <3>1, <3>2
  <2> QED BY <1>6, <2>3, <2>4, <2>5 DEF Waits
<1> QED BY <1>5, <1>6

\* A dispatch pushes no frame of sigtimedwait.
LEMMA DispatchLooked ==
  ASSUME TypeInv, NEW u \in Threads, NEW flags \in [Threads -> BOOLEAN],
         DispatchEnds(u, flags, stack[u]), NEW t \in Threads
  PROVE  Looked(t)' <=> Looked(t)
<1> DEFINE r == Frame("restart", 0, {})
<1>1. stack[u] \in Seq(FrameType) /\ r \in FrameType /\ r.pc # "wait"
  BY RestartFrame DEF TypeInv, Frame
<1>2. /\ \A y \in Threads \ {u} : stack'[y] = stack[y]
      /\ stack'[u] = stack[u] \/ stack'[u] = <<r>> \o stack[u]
  BY <1>1, DispatchShape
<1> HIDE DEF r
<1>3. CASE stack'[t] = stack[t] BY <1>3 DEF Looked
<1>4. CASE t = u /\ stack'[u] = <<r>> \o stack[u]
  <2> DEFINE st == stack[u]
             n == <<r>> \o st
  <2>1. /\ Len(n) = Len(st) + 1 /\ n[1] = r /\ Len(st) \in Nat
        /\ \A i \in 1..Len(st) : n[i + 1] = st[i]
        /\ \A i \in 1..Len(n) : i = 1 \/ (i - 1 \in 1..Len(st) /\ n[i] = st[i - 1])
    BY <1>1, Pushed, SMT
  <2> HIDE DEF n, st
  <2>2. ASSUME NEW i \in 1..Len(n), n[i].pc = "wait" PROVE \E j \in 1..Len(st) : st[j].pc = "wait"
    <3>1. i # 1 BY <1>1, <2>1, <2>2
    <3> QED BY <2>1, <2>2, <3>1
  <2>3. ASSUME NEW i \in 1..Len(st), st[i].pc = "wait" PROVE \E j \in 1..Len(n) : n[j].pc = "wait"
    <3>1. i + 1 \in 1..Len(n) BY <2>1, SMT
    <3> QED BY <2>1, <2>3, <3>1
  <2>4. stack'[t] = n /\ stack[t] = st BY <1>4 DEF n, st
  <2> QED BY <2>2, <2>3, <2>4 DEF Looked
<1> QED BY <1>2, <1>3, <1>4

LEMMA CallWaits == ASSUME TypeInv, WaitInv, Call, NEW x \in Threads PROVE Waits(x)'
<1> USE PosixAssumption
<1>0. \A y \in Threads : WaitOK(stack[y], pending[y], unseen[y]) /\ stack[y] \in Seq(FrameType)
  BY DEF WaitInv, Waits, TypeInv
<1>1. ASSUME NEW s \in Signals, KillFromISR(s) PROVE Waits(x)'
  <2>1. UNCHANGED <<pending, stack, running, unseen>> BY <1>1 DEF KillFromISR
  <2>2. \A y \in Threads : waiting'[y] \in {waiting[y], NULL}
    BY <1>1, SMTT(30) DEF KillFromISR, Process_it, TypeInv
  <2>3. WaitOK(stack'[x], pending[x], unseen[x]) BY <1>0, <2>1
  <2> QED BY <2>1, <2>2, <2>3, QuietWaits
<1>2. ASSUME NEW t \in Threads, NEW i \in 1..Len(Order), KillSearch(t, i) PROVE Waits(x)'
  <2> DEFINE f == Frame("send", i, Target(Order[i]))
  <2>1. f \in FrameType /\ f.pc # "wait" BY TargetType DEF Frame, FrameType
  <2>2. Push(t, f) /\ UNCHANGED <<pending, waiting, running, unseen>>
    BY <1>2 DEF KillSearch, threadVars
  <2> HIDE DEF f
  <2>3. stack'[t] = <<f>> \o stack[t] /\ \A y \in Threads \ {t} : stack'[y] = stack[y]
    BY <2>1, <2>2, PushShape
  <2>4. WaitOK(<<f>> \o stack[t], pending[t], unseen[t]) BY <1>0, <2>1, PlainFrame
  <2>5. WaitOK(stack'[x], pending[x], unseen[x]) BY <1>0, <2>3, <2>4
  <2> QED BY <2>2, <2>5, QuietWaits
<1>3. ASSUME NEW t \in Threads, NEW m \in Sets, Sigmask(t, m) PROVE Waits(x)'
  <2> DEFINE flags == [do_post EXCEPT ![t] = TRUE]
  <2>1. flags \in [Threads -> BOOLEAN] BY DEF TypeInv
  <2>2. /\ UNCHANGED <<pending, waiting, running, unseen>>
        /\ DispatchEnds(t, flags, stack[t]) \/ UNCHANGED stack
    BY <1>3 DEF Sigmask
  <2> HIDE DEF flags
  <2>3. WaitOK(stack'[x], pending[x], unseen[x]) BY <1>0, <2>1, <2>2, DispatchWaits
  <2> QED BY <2>2, <2>3, QuietWaits
<1>4. ASSUME NEW t \in Threads, NEW set \in Sets, Sigtimedwait(t, set) PROVE Waits(x)'
  <2> DEFINE f == Frame("wait", 0, set)
             v == Get_highest(pending[t])
             u == IF Looked(t) THEN unseen[t] ELSE {}
  <2>1. f \in FrameType /\ f.pc = "wait" /\ f.set = set BY DEF Frame, FrameType
  <2>2. UNCHANGED <<waiting, running>> /\ running = t
    BY <1>4 DEF Sigtimedwait, Application
  <2>3. \/ ClearLocal(t, v) /\ UNCHANGED <<stack, unseen>>
        \/ /\ Push(t, f) \/ UNCHANGED stack
           /\ unseen' = [unseen EXCEPT ![t] = u]
           /\ UNCHANGED pending /\ set \cap pending[t] = {}
    BY <1>4 DEF Sigtimedwait
  <2>4. Looked(t) => u = unseen[t] OBVIOUS
  <2> HIDE DEF f, v, u
  <2>5. CASE ClearLocal(t, v) /\ UNCHANGED <<stack, unseen>>
    <3> DEFINE p == pending[t] \ {v}
    <3>1. pending' = [pending EXCEPT ![t] = p] BY <2>5 DEF ClearLocal
    <3>2. pending \in [Threads -> SUBSET Signals] /\ p \subseteq pending[t] BY DEF TypeInv
    <3> HIDE DEF p
    <3>3. pending'[x] \subseteq pending[x] BY <3>1, <3>2, SMTT(30)
    <3>4. WaitOK(stack'[x], pending[x], unseen[x]) BY <1>0, <2>5
    <3> QED BY <2>2, <2>5, <3>3, <3>4, QuietWaits
  <2>6. CASE /\ Push(t, f) \/ UNCHANGED stack
             /\ unseen' = [unseen EXCEPT ![t] = u]
             /\ UNCHANGED pending /\ set \cap pending[t] = {}
    <3>1. unseen'[t] = u /\ \A y \in Threads \ {t} : unseen'[y] = unseen[y]
      BY <2>6 DEF WaitInv
    <3>2. /\ stack'[t] = <<f>> \o stack[t] \/ stack'[t] = stack[t]
          /\ \A y \in Threads \ {t} : stack'[y] = stack[y]
      BY <2>1, <2>6, PushShape
    <3>3. CASE x # t
      <4>1. Slept(x) /\ Awake(x) BY DEF WaitInv, Waits
      <4>2. stack'[x] = stack[x] /\ unseen'[x] = unseen[x] BY <3>1, <3>2, <3>3
      <4>3. Slept(x)' /\ Awake(x)' BY <2>2, <2>6, <4>1, <4>2 DEF Slept, Awake
      <4> QED BY <1>0, <2>6, <4>2, <4>3 DEF Waits
    <3>4. CASE x = t
      <4>1. waiting[t] = NULL BY <2>2 DEF WaitInv, Waits, Awake
      <4>2. Slept(t)' /\ Awake(t)' BY <2>2, <4>1 DEF Slept, Awake
      <4>3. WaitOK(stack[t], pending[t], u)
        <5>1. CASE Looked(t) BY <1>0, <2>4, <5>1
        <5>2. CASE ~ Looked(t) BY <5>2 DEF Looked, WaitOK
        <5> QED BY <5>1, <5>2
      <4>4. WaitOK(<<f>> \o stack[t], pending[t], u)
        <5>1. stack[t] \in Seq(FrameType) BY <1>0
        <5>2. f.set \cap pending[t] \subseteq u BY <2>1, <2>6
        <5>3. f \in FrameType BY <2>1
        <5> QED BY <4>3, <5>1, <5>2, <5>3, WaitFrame
      <4> QED BY <2>6, <3>1, <3>2, <3>4, <4>2, <4>3, <4>4 DEF Waits
    <3> QED BY <3>3, <3>4
  <2> QED BY <2>3, <2>5, <2>6
<1>5. ASSUME NEW t \in Threads, NEW s \in Signals, NEW act \in Actions, Sigaction(t, s, act)
      PROVE  Waits(x)'
  <2>1. UNCHANGED <<pending, waiting, stack, running, unseen>>
    BY <1>5 DEF Sigaction, threadVars
  <2>2. WaitOK(stack'[x], pending[x], unseen[x]) BY <1>0, <2>1
  <2> QED BY <2>1, <2>2, QuietWaits
<1>6. ASSUME NEW t \in Threads, NEW s \in Signals, NEW u \in Threads,
             PthreadKillFromThread(u, t, s)
      PROVE  Waits(x)'
  <2>1. PthreadKill(t, s) /\ DispatchEnds(u, Flagged(t), stack[u])
    BY <1>6 DEF PthreadKillFromThread
  <2>2. Flagged(t) \in [Threads -> BOOLEAN] BY <2>1, PthreadKillTypes
  <2>3. WaitOK(stack'[x], pending[x], unseen[x]) BY <1>0, <2>1, <2>2, DispatchWaits
  <2>4. Looked(t)' <=> Looked(t) BY <2>1, <2>2, DispatchLooked
  <2> QED BY <2>1, <2>3, <2>4, SentWaits
<1>7. ASSUME NEW t \in Threads, NEW s \in Signals, PthreadKillFromISR(t, s) PROVE Waits(x)'
  <2>1. /\ PthreadKill(t, s)
        /\ DispatchEnds(t, Flagged(t), stack[t]) \/ UNCHANGED stack
    BY <1>7 DEF PthreadKillFromISR
  <2>2. Flagged(t) \in [Threads -> BOOLEAN] BY <2>1, PthreadKillTypes
  <2>3. WaitOK(stack'[x], pending[x], unseen[x]) BY <1>0, <2>1, <2>2, DispatchWaits
  <2>4. Looked(t)' <=> Looked(t)
    <3>1. CASE UNCHANGED stack BY <3>1 DEF Looked
    <3>2. CASE DispatchEnds(t, Flagged(t), stack[t]) BY <2>2, <3>2, DispatchLooked
    <3> QED BY <2>1, <3>1, <3>2
  <2> QED BY <2>1, <2>3, <2>4, SentWaits
<1> QED BY <1>1, <1>2, <1>3, <1>4, <1>5, <1>6, <1>7, SMTT(30) DEF Call

\* What is sent to a thread after it looked is a set of signals.
LEMMA UnseenType ==
  ASSUME WaitInv, Next PROVE unseen' \in [Threads -> SUBSET Signals]
<1>0. unseen \in [Threads -> SUBSET Signals] BY DEF WaitInv
<1>1. ASSUME NEW t \in Threads, NEW s \in Signals, PthreadKill(t, s)
      PROVE  unseen' \in [Threads -> SUBSET Signals]
  <2>1. unseen[t] \cup {s} \in SUBSET Signals /\ unseen[t] \in SUBSET Signals BY <1>0
  <2>2. unseen' = [unseen EXCEPT ![t] = IF Looked(t) THEN unseen[t] \cup {s} ELSE unseen[t]]
    BY <1>1 DEF PthreadKill
  <2> QED BY <1>0, <2>1, <2>2
<1>2. ASSUME NEW t \in Threads, NEW set \in Sets, Sigtimedwait(t, set)
      PROVE  unseen' \in [Threads -> SUBSET Signals]
  <2>1. UNCHANGED unseen \/ unseen' = [unseen EXCEPT ![t] = IF Looked(t) THEN unseen[t] ELSE {}]
    BY <1>2 DEF Sigtimedwait
  <2> QED BY <1>0, <2>1
<1>3. CASE \E t \in Threads : Step(t)
  <2>1. UNCHANGED unseen
    BY <1>3 DEF Step, Switch, Restart, CheckPasses, CheckTakes, HandlerReturns, WaitStarts,
      WaitTimesOut, KillSend
  <2> QED BY <1>0, <2>1
<1>4. CASE Call
  <2>1. \/ UNCHANGED unseen
        \/ \E t \in Threads, s \in Signals : PthreadKill(t, s)
        \/ \E t \in Threads, set \in Sets : Sigtimedwait(t, set)
    BY <1>4 DEF Call, KillFromISR, KillSearch, Sigmask, Sigaction, PthreadKillFromThread,
      PthreadKillFromISR
  <2> QED BY <1>0, <1>1, <1>2, <2>1
<1> QED BY <1>3, <1>4 DEF Next

\* A thread sleeps in sigtimedwait on a signal that is pending for it only if it
\* was sent between sigtimedwait's look at the pending signals and the wait, at
\* whatever moment handlers and other threads send, and however handlers nest.
THEOREM SleepersHaveNone == Spec => []NoMissedDirected
<1>1. Init => WaitInv
  <2> SUFFICES ASSUME Init, NEW t \in Threads PROVE Waits(t)
    BY DEF WaitInv, Init
  <2>1. stack[t] = <<>> /\ waiting[t] = NULL BY DEF Init
  <2>2. WaitOK(<<>>, pending[t], unseen[t]) BY SMT DEF WaitOK
  <2> QED BY <2>1, <2>2 DEF Waits, Slept, Awake
<1>2. TypeInv /\ WaitInv /\ [Next]_vars => WaitInv'
  <2> SUFFICES ASSUME TypeInv, WaitInv, [Next]_vars PROVE WaitInv' OBVIOUS
  <2>1. CASE Next
    <3>1. \A x \in Threads : Waits(x)' BY <2>1, StepWaits, CallWaits DEF Next
    <3> QED BY <2>1, <3>1, UnseenType DEF WaitInv
  <2>2. CASE UNCHANGED vars
    <3>1. UNCHANGED <<stack, waiting, pending, running, unseen>> BY <2>2 DEF vars, threadVars
    <3> QED BY <3>1 DEF WaitInv, Waits, Slept, Awake
  <2> QED BY <2>1, <2>2
<1>3. WaitInv => NoMissedDirected BY DEF WaitInv, Waits, Slept, NoMissedDirected
<1> QED BY <1>1, <1>2, <1>3, TypesAtStart, TypesKept, PTL DEF Spec

-----------------------------------------------------------------------------
(* Handlers give back the mask. *)

Handlers(st) == {i \in 1..Len(st) : st[i].pc = "handler"}
Outermost(H) == CHOOSE i \in H : \A j \in H : j <= i
Own(st, mask) == IF Handlers(st) = {} THEN mask ELSE st[Outermost(Handlers(st))].set

LEMMA OwnMaskIsOwn ==
  ASSUME NEW t \in Threads PROVE OwnMask(t) = Own(stack[t], blocked[t])
BY DEF OwnMask, Own, Handlers, Outermost

LEMMA OutermostIs ==
  ASSUME NEW H \in SUBSET Nat, NEW m \in H, \A j \in H : j <= m
  PROVE  Outermost(H) = m
<1> DEFINE c == Outermost(H)
<1>1. c \in H /\ \A j \in H : j <= c BY DEF Outermost
<1> HIDE DEF c
<1>2. c = m BY <1>1, SMT
<1> QED BY <1>2 DEF c

LEMMA LessThan == OpToRel(<, Nat) = {ss \in Nat \X Nat : ss[1] < ss[2]}
BY DEF OpToRel

LEMMA LeastNatural ==
  ASSUME NEW T, T \subseteq Nat, T # {}
  PROVE  \E x \in T : \A y \in T : x <= y
<1> DEFINE R == OpToRel(<, Nat)
<1>1. IsWellFoundedOn(R, Nat) BY NatLessThanWellFounded
<1>2. R = {ss \in Nat \X Nat : ss[1] < ss[2]} BY LessThan
<1> HIDE DEF R
<1>3. PICK x \in T : \A y \in T : ~ (<<y, x>> \in R) BY <1>1, WFMin
<1>4. ASSUME NEW y \in T PROVE x <= y
  <2>1. <<y, x>> \notin R BY <1>3
  <2>2. x \in Nat /\ y \in Nat OBVIOUS
  <2>3. ~ (y < x) BY <1>2, <2>1, <2>2
  <2> QED BY <2>2, <2>3, SMT
<1> QED BY <1>4

LEMMA OutermostExists ==
  ASSUME NEW n \in Nat, NEW H \in SUBSET (1..n), H # {}
  PROVE  \E m \in H : \A j \in H : j <= m
<1> DEFINE T == {n - i : i \in H}
<1>1. T \subseteq Nat /\ T # {}
  <2>1. ASSUME NEW i \in H PROVE n - i \in Nat BY SMT
  <2>2. PICK i \in H : TRUE OBVIOUS
  <2>3. n - i \in T OBVIOUS
  <2>4. T \subseteq Nat BY <2>1
  <2> HIDE DEF T
  <2> QED BY <2>3, <2>4
<1> HIDE DEF T
<1>2. PICK x \in T : \A y \in T : x <= y BY <1>1, LeastNatural
<1>3. PICK m \in H : x = n - m BY DEF T
<1>4. ASSUME NEW j \in H PROVE j <= m
  <2>1. n - j \in T BY DEF T
  <2>2. x <= n - j BY <1>2, <2>1
  <2> QED BY <1>3, <2>2, SMT
<1> QED BY <1>4

\* One more frame: only a handler's matters, and it replaces the mask.
LEMMA OwnPushed ==
  ASSUME NEW st \in Seq(FrameType), NEW f \in FrameType, NEW mask
  PROVE  Own(<<f>> \o st, mask) = Own(st, IF f.pc = "handler" THEN f.set ELSE mask)
<1> DEFINE r == <<f>> \o st
           H == Handlers(st)
           G == Handlers(r)
<1>0. /\ Len(st) \in Nat /\ Len(r) = Len(st) + 1 /\ r[1] = f
      /\ \A i \in 1..Len(st) : r[i + 1] = st[i]
      /\ \A i \in 1..Len(r) : i = 1 \/ (i - 1 \in 1..Len(st) /\ r[i] = st[i - 1])
  BY Pushed, SMT
<1>1. H \subseteq 1..Len(st) /\ G \subseteq 1..Len(r) BY DEF Handlers
<1>2. \A i \in H : i + 1 \in G BY <1>0, SMT DEF Handlers
<1>3. \A i \in G : i = 1 \/ i - 1 \in H BY <1>0 DEF Handlers
<1>4. 1 \in G <=> f.pc = "handler" BY <1>0, SMT DEF Handlers
<1>5. CASE H # {}
  <2>1. PICK m \in H : \A j \in H : j <= m BY <1>0, <1>1, <1>5, OutermostExists
  <2> HIDE DEF H, G, r
  <2>2. m + 1 \in G /\ \A j \in G : j <= m + 1
    <3>1. m \in 1..Len(st) /\ m + 1 \in G BY <1>1, <1>2, <2>1
    <3>2. ASSUME NEW j \in G PROVE j <= m + 1
      <4>1. j = 1 \/ j - 1 <= m BY <1>3, <2>1
      <4>2. j \in 1..Len(r) BY <1>1
      <4> QED BY <1>0, <3>1, <4>1, <4>2, SMT
    <3> QED BY <3>1, <3>2
  <2>3. Outermost(H) = m
    <3>1. H \in SUBSET Nat BY <1>0, <1>1, SMT
    <3> QED BY <2>1, <3>1, OutermostIs
  <2>4. Outermost(G) = m + 1
    <3>1. G \in SUBSET Nat BY <1>0, <1>1, SMT
    <3> QED BY <2>2, <3>1, OutermostIs
  <2>5. r[m + 1] = st[m] BY <1>0, <1>1
  <2> QED BY <1>5, <2>2, <2>3, <2>4, <2>5 DEF Own, H, G, r
<1>6. CASE H = {} /\ f.pc = "handler"
  <2> HIDE DEF H, G, r
  <2>1. 1 \in G /\ \A j \in G : j <= 1 BY <1>3, <1>4, <1>6, SMT
  <2>2. Outermost(G) = 1
    <3>1. G \in SUBSET Nat BY <1>0, <1>1, SMT
    <3> QED BY <2>1, <3>1, OutermostIs
  <2> QED BY <1>0, <1>6, <2>1, <2>2 DEF Own, H, G, r
<1>7. CASE H = {} /\ f.pc # "handler"
  <2>1. G = {} BY <1>3, <1>4, <1>7
  <2> QED BY <1>7, <2>1 DEF Own
<1> QED BY <1>5, <1>6, <1>7

\* A thread whose stack and mask no one touches
LEMMA QuietMask ==
  ASSUME NEW x \in Threads, stack'[x] = stack[x], blocked'[x] = blocked[x]
  PROVE  OwnMask(x)' = OwnMask(x)
BY SMT DEF OwnMask

LEMMA DispatchMask ==
  ASSUME TypeInv, NEW t \in Threads, NEW flags \in [Threads -> BOOLEAN],
         NEW frames \in Seq(FrameType), DispatchEnds(t, flags, frames)
  PROVE  /\ OwnMask(t)' = Own(frames, blocked'[t])
         /\ \A x \in Threads \ {t} : stack'[x] = stack[x]
<1> DEFINE r == Frame("restart", 0, {})
<1>1. r \in FrameType /\ r.pc # "handler" BY RestartFrame DEF Frame
<1>2. OwnMask(t)' = Own(stack'[t], blocked'[t]) BY DEF OwnMask, Own, Handlers, Outermost
<1>3. stack'[t] = frames \/ stack'[t] = <<r>> \o frames BY DispatchShape
<1> HIDE DEF r
<1>4. Own(<<r>> \o frames, blocked'[t]) = Own(frames, blocked'[t]) BY <1>1, OwnPushed
<1>5. \A x \in Threads \ {t} : stack'[x] = stack[x] BY DispatchShape
<1> QED BY <1>2, <1>3, <1>4, <1>5

\* The innermost frame and the mask
LEMMA TopMask ==
  ASSUME TypeInv, NEW t \in Threads, stack[t] # <<>>
  PROVE  /\ Top(t) \in FrameType /\ Tail(stack[t]) \in Seq(FrameType)
         /\ OwnMask(t) = Own(Tail(stack[t]),
                             IF Top(t).pc = "handler" THEN Top(t).set ELSE blocked[t])
<1>1. /\ Top(t) \in FrameType /\ Tail(stack[t]) \in Seq(FrameType)
      /\ stack[t] = <<Top(t)>> \o Tail(stack[t])
  BY Popped DEF TypeInv, Top
<1> HIDE DEF Top
<1>2. OwnMask(t) = Own(<<Top(t)>> \o Tail(stack[t]), blocked[t])
  BY <1>1, OwnMaskIsOwn
<1> QED BY <1>1, <1>2, OwnPushed

LEMMA ReplaceMask ==
  ASSUME TypeInv, NEW t \in Threads, NEW fs \in Seq(FrameType),
         stack[t] # <<>>, Replace(t, fs)
  PROVE  /\ OwnMask(t)' = Own(fs \o Tail(stack[t]), blocked'[t])
         /\ \A x \in Threads \ {t} : stack'[x] = stack[x]
<1>1. Tail(stack[t]) \in Seq(FrameType) BY Popped DEF TypeInv
<1>2. OwnMask(t)' = Own(stack'[t], blocked'[t]) BY DEF OwnMask, Own, Handlers, Outermost
<1> QED BY <1>1, <1>2, ReplaceShape

LEMMA StepMask ==
  ASSUME TypeInv, NEW t \in Threads, Step(t), NEW x \in Threads
  PROVE  OwnMask(x)' = OwnMask(x)
<1> DEFINE rest == Tail(stack[t])
<1>0. stack[t] \in Seq(FrameType) /\ <<>> \in Seq(FrameType) BY SMT DEF TypeInv
<1>1. CASE Switch(t)
  <2>1. do_post \in [Threads -> BOOLEAN] /\ DispatchEnds(t, do_post, stack[t])
        /\ UNCHANGED blocked
    BY <1>1 DEF Switch, TypeInv
  <2>2. OwnMask(t)' = Own(stack[t], blocked'[t])
        /\ \A y \in Threads \ {t} : stack'[y] = stack[y]
    BY <1>0, <2>1, DispatchMask
  <2>3. CASE x = t BY <2>1, <2>2, <2>3, OwnMaskIsOwn
  <2>4. CASE x # t BY <2>1, <2>2, <2>4, QuietMask
  <2> QED BY <2>3, <2>4
<1>2. CASE Restart(t)
  <2> DEFINE f == Frame("search", 0, {})
             fs == IF Unblocked(t) = {} THEN <<>> ELSE <<f>>
  <2>1. stack[t] # <<>> /\ Top(t).pc = "restart" BY <1>2, RunsShape DEF Restart
  <2>2. rest \in Seq(FrameType) /\ OwnMask(t) = Own(rest, blocked[t])
    BY <2>1, TopMask
  <2>3. UNCHANGED blocked /\ Replace(t, fs) BY <1>2 DEF Restart, threadVars
  <2>4. f \in FrameType /\ f.pc # "handler" BY DEF Frame, FrameType
  <2>5. fs \in Seq(FrameType) BY <1>0, <2>4, SMT
  <2> HIDE DEF f
  <2>6. Own(fs \o rest, blocked[t]) = Own(rest, blocked[t])
    <3>1. CASE Unblocked(t) = {}
      <4>1. <<>> \o rest = rest BY <2>2, SMT
      <4> QED BY <3>1, <4>1
    <3>2. CASE Unblocked(t) # {}
      <4> HIDE DEF rest
      <4> QED BY <2>2, <2>4, <3>2, OwnPushed
    <3> QED BY <3>1, <3>2
  <2> HIDE DEF fs
  <2>7. OwnMask(t)' = Own(fs \o rest, blocked'[t])
        /\ \A y \in Threads \ {t} : stack'[y] = stack[y]
    BY <2>1, <2>3, <2>5, ReplaceMask
  <2>8. CASE x = t BY <2>2, <2>3, <2>6, <2>7, <2>8
  <2>9. CASE x # t BY <2>3, <2>7, <2>9, QuietMask
  <2> QED BY <2>8, <2>9
<1>3. CASE CheckPasses(t) \/ CheckTakes(t)
  <2> DEFINE f == Top(t)
             v == Visited(f)
             h == Frame("handler", 0, blocked[t])
             r == Frame("restart", 0, {})
  <2>1. Runs(t, "search") BY <1>3 DEF CheckPasses, CheckTakes
  <2>2. stack[t] # <<>> /\ f \in FrameType /\ f.pc = "search" BY <2>1, RunsShape
  <2>3. rest \in Seq(FrameType) /\ OwnMask(t) = Own(rest, blocked[t])
    BY <2>2, TopMask
  <2>4. \/ Replace(t, Advanced(f)) /\ UNCHANGED blocked
        \/ UNCHANGED <<stack, blocked>>
        \/ /\ Replace(t, Entered(t, v))
           /\ blocked' = [blocked EXCEPT ![t] = @ \cup Vectors[v].mask]
    BY <1>3 DEF CheckPasses, CheckTakes, threadVars
  <2>5. h \in FrameType /\ h.pc = "handler" /\ h.set = blocked[t]
        /\ r \in FrameType /\ r.pc = "restart"
        /\ Entered(t, v) \in Seq(FrameType) /\ Entered(t, v) = <<h>> \o <<r>>
    BY EnteredType, RestartFrame DEF Frame
  <2> HIDE DEF f, v, h, r, rest
  <2>6. CASE Replace(t, Advanced(f)) /\ UNCHANGED blocked
    <3> DEFINE g == [f EXCEPT !.at = f.at + 1]
    <3>1. Advanced(f) \in Seq(FrameType)
          /\ (Advanced(f) = <<>> \/ (Advanced(f) = <<g>> /\ g \in FrameType))
      BY <2>2, AdvancedType
    <3>2. g.pc # "handler" BY <2>2 DEF FrameType
    <3> HIDE DEF g
    <3>3. Own(Advanced(f) \o rest, blocked[t]) = Own(rest, blocked[t])
      <4>1. CASE Advanced(f) = <<>>
        <5>1. <<>> \o rest = rest BY <2>3, SMT
        <5> QED BY <4>1, <5>1
      <4>2. CASE Advanced(f) = <<g>> /\ g \in FrameType
        BY <2>3, <3>2, <4>2, OwnPushed
      <4> QED BY <3>1, <4>1, <4>2
    <3>4. OwnMask(t)' = Own(Advanced(f) \o rest, blocked'[t])
          /\ \A y \in Threads \ {t} : stack'[y] = stack[y]
      BY <2>2, <2>6, <3>1, ReplaceMask DEF rest
    <3>5. CASE x = t BY <2>3, <2>6, <3>3, <3>4, <3>5
    <3>6. CASE x # t BY <2>6, <3>4, <3>6, QuietMask
    <3> QED BY <3>5, <3>6
  <2>7. CASE UNCHANGED <<stack, blocked>> BY <2>7, QuietMask
  <2>8. CASE /\ Replace(t, Entered(t, v))
             /\ blocked' = [blocked EXCEPT ![t] = @ \cup Vectors[v].mask]
    <3>1. OwnMask(t)' = Own(Entered(t, v) \o rest, blocked'[t])
          /\ \A y \in Threads \ {t} : stack'[y] = stack[y]
      BY <2>2, <2>5, <2>8, ReplaceMask DEF rest
    <3>2. (<<h>> \o <<r>>) \o rest = <<h>> \o (<<r>> \o rest) BY <2>3, <2>5, SMT
    <3>3. <<r>> \o rest \in Seq(FrameType) BY <2>3, <2>5, Pushed
    <3>4. Own(<<h>> \o (<<r>> \o rest), blocked'[t]) = Own(<<r>> \o rest, blocked[t])
      BY <2>5, <3>3, OwnPushed, ZenonT(30)
    <3>5. Own(<<r>> \o rest, blocked[t]) = Own(rest, blocked[t])
      BY <2>3, <2>5, OwnPushed
    <3>6. CASE x = t BY <2>3, <2>5, <3>1, <3>2, <3>4, <3>5, <3>6
    <3>7. CASE x # t
      <4>1. blocked'[x] = blocked[x] BY <2>8, <3>7 DEF TypeInv
      <4> QED BY <3>1, <3>7, <4>1, QuietMask
    <3> QED BY <3>6, <3>7
  <2> QED BY <2>4, <2>6, <2>7, <2>8
<1>4. CASE HandlerReturns(t)
  <2>1. stack[t] # <<>> /\ Top(t).pc = "handler" BY <1>4, RunsShape DEF HandlerReturns
  <2>2. rest \in Seq(FrameType) /\ OwnMask(t) = Own(rest, Top(t).set)
    BY <2>1, TopMask
  <2>3. Replace(t, <<>>) /\ blocked'[t] = Top(t).set
        /\ \A y \in Threads \ {t} : blocked'[y] = blocked[y]
    BY <1>4 DEF HandlerReturns, RestoredMask, TypeInv
  <2>4. OwnMask(t)' = Own(<<>> \o rest, blocked'[t])
        /\ \A y \in Threads \ {t} : stack'[y] = stack[y]
    BY <1>0, <2>1, <2>3, ReplaceMask
  <2>5. <<>> \o rest = rest BY <2>2, SMT
  <2>6. CASE x = t BY <2>2, <2>3, <2>4, <2>5, <2>6
  <2>7. CASE x # t BY <2>3, <2>4, <2>7, QuietMask
  <2> QED BY <2>6, <2>7
<1>5. CASE WaitStarts(t)
  <2>1. stack[t] # <<>> /\ Top(t).pc = "wait" BY <1>5, RunsShape DEF WaitStarts
  <2>2. rest \in Seq(FrameType) /\ OwnMask(t) = Own(rest, blocked[t])
    BY <2>1, TopMask
  <2>3. Replace(t, <<>>) /\ UNCHANGED blocked BY <1>5 DEF WaitStarts
  <2>4. OwnMask(t)' = Own(<<>> \o rest, blocked'[t])
        /\ \A y \in Threads \ {t} : stack'[y] = stack[y]
    BY <1>0, <2>1, <2>3, ReplaceMask
  <2>5. <<>> \o rest = rest BY <2>2, SMT
  <2>6. CASE x = t BY <2>2, <2>3, <2>4, <2>5, <2>6
  <2>7. CASE x # t BY <2>3, <2>4, <2>7, QuietMask
  <2> QED BY <2>6, <2>7
<1>6. CASE WaitTimesOut(t)
  BY <1>6, QuietMask DEF WaitTimesOut
<1>7. CASE KillSend(t)
  <2> DEFINE flags == Marked(Top(t).set)
  <2>1. stack[t] # <<>> /\ Top(t).pc = "send" BY <1>7, RunsShape DEF KillSend
  <2>2. rest \in Seq(FrameType) /\ OwnMask(t) = Own(rest, blocked[t])
    BY <2>1, TopMask
  <2>3. DispatchEnds(t, flags, rest) /\ UNCHANGED blocked BY <1>7 DEF KillSend
  <2>4. flags \in [Threads -> BOOLEAN] BY DEF Marked
  <2> HIDE DEF flags, rest
  <2>5. OwnMask(t)' = Own(rest, blocked'[t])
        /\ \A y \in Threads \ {t} : stack'[y] = stack[y]
    BY <2>2, <2>3, <2>4, DispatchMask
  <2>6. CASE x = t BY <2>2, <2>3, <2>5, <2>6
  <2>7. CASE x # t BY <2>3, <2>5, <2>7, QuietMask
  <2> QED BY <2>6, <2>7
<1> QED BY <1>1, <1>2, <1>3, <1>4, <1>5, <1>6, <1>7 DEF Step

LEMMA CallMask ==
  ASSUME TypeInv, Call, NEW x \in Threads, stack[x] # <<>>
  PROVE  OwnMask(x)' = OwnMask(x)
<1> USE PosixAssumption
<1>1. ASSUME NEW s \in Signals, KillFromISR(s) PROVE OwnMask(x)' = OwnMask(x)
  BY <1>1, QuietMask DEF KillFromISR
<1>2. ASSUME NEW t \in Threads, NEW f \in FrameType, f.pc # "handler", Push(t, f),
             UNCHANGED blocked
      PROVE  OwnMask(x)' = OwnMask(x)
  <2>1. stack'[t] = <<f>> \o stack[t] /\ \A y \in Threads \ {t} : stack'[y] = stack[y]
    BY <1>2, PushShape
  <2>2. OwnMask(t)' = Own(stack'[t], blocked'[t]) BY DEF OwnMask, Own, Handlers, Outermost
  <2>3. stack[t] \in Seq(FrameType) BY DEF TypeInv
  <2>4. Own(<<f>> \o stack[t], blocked[t]) = Own(stack[t], blocked[t])
    BY <1>2, <2>3, OwnPushed, SMT
  <2>5. CASE x = t BY <1>2, <2>1, <2>2, <2>4, <2>5, OwnMaskIsOwn
  <2>6. CASE x # t BY <1>2, <2>1, <2>6, QuietMask
  <2> QED BY <2>5, <2>6
<1>3. ASSUME NEW t \in Threads, NEW i \in 1..Len(Order), KillSearch(t, i)
      PROVE  OwnMask(x)' = OwnMask(x)
  <2> DEFINE f == Frame("send", i, Target(Order[i]))
  <2>1. f \in FrameType /\ f.pc # "handler" BY TargetType DEF Frame, FrameType
  <2>2. Push(t, f) /\ UNCHANGED blocked BY <1>3 DEF KillSearch, threadVars
  <2> HIDE DEF f
  <2> QED BY <1>2, <2>1, <2>2, SMTT(30)
<1>4. ASSUME NEW t \in Threads, NEW m \in Sets, Sigmask(t, m)
      PROVE  OwnMask(x)' = OwnMask(x)
  <2> DEFINE flags == [do_post EXCEPT ![t] = TRUE]
  <2>1. flags \in [Threads -> BOOLEAN] /\ stack[t] \in Seq(FrameType) BY DEF TypeInv
  <2>2. DispatchEnds(t, flags, stack[t]) \/ UNCHANGED stack BY <1>4 DEF Sigmask
  <2> HIDE DEF flags
  <2>3. OwnMask(t)' = Own(stack[t], blocked'[t])
        /\ \A y \in Threads \ {t} : stack'[y] = stack[y]
    <3>1. CASE DispatchEnds(t, flags, stack[t]) BY <2>1, <3>1, DispatchMask
    <3>2. CASE UNCHANGED stack BY <3>2, SMT DEF OwnMask, Own, Handlers, Outermost
    <3> QED BY <2>2, <3>1, <3>2
  <2>4. CASE x # t
    <3>1. blocked'[x] = blocked[x] BY <1>4, <2>4 DEF Sigmask, TypeInv
    <3> QED BY <2>3, <2>4, <3>1, QuietMask
  <2>5. CASE x = t
    <3>0. Application(t) BY <1>4 DEF Sigmask
    <3>1. stack[t] # <<>> /\ Top(t).pc = "handler"
      <4>1. Top(t).pc # "body" BY <2>5, TopMask DEF FrameType
      <4> QED BY <2>5, <3>0, <4>1 DEF Application, Place
    <3>2. Top(t) \in FrameType /\ Tail(stack[t]) \in Seq(FrameType)
          /\ OwnMask(t) = Own(Tail(stack[t]), Top(t).set)
      BY <3>1, TopMask
    <3>3. stack[t] = <<Top(t)>> \o Tail(stack[t]) BY <2>1, <3>1, SMT DEF Top
    <3>4. Own(<<Top(t)>> \o Tail(stack[t]), blocked'[t]) = Own(Tail(stack[t]), Top(t).set)
      BY <3>1, <3>2, OwnPushed, ZenonT(30)
    <3> QED BY <2>3, <2>5, <3>2, <3>3, <3>4
  <2> QED BY <2>4, <2>5
<1>5. ASSUME NEW t \in Threads, NEW set \in Sets, Sigtimedwait(t, set)
      PROVE  OwnMask(x)' = OwnMask(x)
  <2> DEFINE f == Frame("wait", 0, set)
  <2>1. f \in FrameType /\ f.pc # "handler" BY DEF Frame, FrameType
  <2>2. UNCHANGED blocked /\ (Push(t, f) \/ UNCHANGED stack) BY <1>5 DEF Sigtimedwait
  <2> HIDE DEF f
  <2> QED BY <1>2, <2>1, <2>2, QuietMask
<1>6. ASSUME NEW t \in Threads, NEW s \in Signals, NEW act \in Actions, Sigaction(t, s, act)
      PROVE  OwnMask(x)' = OwnMask(x)
  BY <1>6, QuietMask DEF Sigaction, threadVars
<1>7. ASSUME NEW t \in Threads, NEW s \in Signals, NEW u \in Threads,
             PthreadKillFromThread(u, t, s)
      PROVE  OwnMask(x)' = OwnMask(x)
  <2>1. PthreadKill(t, s) /\ DispatchEnds(u, Flagged(t), stack[u]) /\ UNCHANGED blocked
    BY <1>7 DEF PthreadKillFromThread, PthreadKill
  <2>2. Flagged(t) \in [Threads -> BOOLEAN] /\ stack[u] \in Seq(FrameType)
    BY <2>1, PthreadKillTypes, SMTT(30) DEF TypeInv
  <2>3. OwnMask(u)' = Own(stack[u], blocked'[u])
        /\ \A y \in Threads \ {u} : stack'[y] = stack[y]
    BY <2>1, <2>2, DispatchMask
  <2>4. CASE x = u BY <2>1, <2>3, <2>4, OwnMaskIsOwn, SMTT(30)
  <2>5. CASE x # u BY <2>1, <2>3, <2>5, QuietMask
  <2> QED BY <2>4, <2>5
<1>8. ASSUME NEW t \in Threads, NEW s \in Signals, PthreadKillFromISR(t, s)
      PROVE  OwnMask(x)' = OwnMask(x)
  <2>1. /\ PthreadKill(t, s) /\ UNCHANGED blocked
        /\ DispatchEnds(t, Flagged(t), stack[t]) \/ UNCHANGED stack
    BY <1>8 DEF PthreadKillFromISR, PthreadKill
  <2>2. CASE UNCHANGED stack BY <2>1, <2>2, QuietMask
  <2>3. CASE DispatchEnds(t, Flagged(t), stack[t])
    <3>1. Flagged(t) \in [Threads -> BOOLEAN] /\ stack[t] \in Seq(FrameType)
      BY <2>1, PthreadKillTypes, SMTT(30) DEF TypeInv
    <3>2. /\ OwnMask(t)' = Own(stack[t], blocked'[t])
          /\ \A y \in Threads \ {t} : stack'[y] = stack[y]
      BY <2>3, <3>1, DispatchMask
    <3>3. CASE x = t BY <2>1, <3>2, <3>3, OwnMaskIsOwn, SMTT(30)
    <3>4. CASE x # t BY <2>1, <3>2, <3>4, QuietMask
    <3> QED BY <3>3, <3>4
  <2> QED BY <2>1, <2>2, <2>3
<1> QED BY <1>1, <1>3, <1>4, <1>5, <1>6, <1>7, <1>8 DEF Call

\* A handler gives the thread's mask back: only pthread_sigmask called by the
\* thread's own code changes the mask its own code runs with, however deep the
\* handlers nest and whatever masks they set.
THEOREM MasksGivenBack == Spec => MaskRestored
<1> DEFINE Kept == \A t \in Threads : OwnMask(t)' # OwnMask(t) => stack[t] = <<>>
<1>1. TypeInv /\ [Next]_vars => [Kept]_vars
  <2> SUFFICES ASSUME TypeInv, Next PROVE Kept OBVIOUS
  <2>1. SUFFICES ASSUME NEW x \in Threads, stack[x] # <<>> PROVE OwnMask(x)' = OwnMask(x)
    OBVIOUS
  <2> QED BY <2>1, StepMask, CallMask DEF Next
<1>2. Spec => [][Kept]_vars
  <2> HIDE DEF Kept
  <2> QED BY <1>1, PosixTypes, PTL DEF Spec
<1> QED BY <1>2 DEF MaskRestored
=============================================================================
