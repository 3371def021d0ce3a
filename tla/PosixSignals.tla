---------------------------- MODULE PosixSignals ----------------------------
(***************************************************************************)
(* POSIX signals (posix/src/psignal.c) on one processor: signals sent to   *)
(* the process and to a thread, the signal mask, the handlers a thread     *)
(* runs on its way out of _Thread_Dispatch, and sigtimedwait.              *)
(*                                                                         *)
(* A thread is a stack of frames, the innermost first: the two parts of    *)
(* _POSIX_signals_Post_switch_extension (the test at "restart" and the     *)
(* search), a signal handler, killinfo between its search and its          *)
(* delivery, and sigtimedwait between its checks and its blocking.         *)
(* Interrupts come between any two steps, and so does another thread where *)
(* dispatching is enabled.  The "signals_pending |=" of pthread_kill, which*)
(* the code marks "XXX critical section", is taken to be one instruction.  *)
(***************************************************************************)
EXTENDS Integers, Sequences, FiniteSets

CONSTANTS
  Threads,     \* POSIX threads; the other tasks block every signal
  Rank,        \* [Threads -> Nat], distinct priorities, 0 the most urgent
  Signals,
  Order,       \* the signals as the search visits them, SIGRTMIN first
  RealTime,    \* those ignored by default; the others terminate
  Sets,        \* the signal sets programs use as masks, and wait for
  maximum_queued_signals, \* the values of this configuration parameter
  Modulus,     \* 2^32 in the code: _Thread_Do_post_task_switch_extension wraps
  MaxStack,    \* [Threads -> Nat], bound on the frames of a thread
  MaxCalls,    \* bound on the calls made of the signal interface
  NULL

ASSUME PosixAssumption ==
  /\ maximum_queued_signals \subseteq Nat
  /\ Modulus \in Nat \ {0}
  /\ MaxStack \in [Threads -> Nat] /\ MaxCalls \in Nat
  /\ RealTime \subseteq Signals
  /\ Sets \subseteq SUBSET Signals
  /\ Order \in Seq(Signals)
  /\ \A s \in Signals : \E i \in 1..Len(Order) : Order[i] = s
  /\ NULL \notin Threads

VARIABLES
  Vectors,     \* _POSIX_signals_Vectors: what a signal does, and its sa_mask
  Pending,     \* _POSIX_signals_Pending, of the process
  Siginfo,     \* length of each chain _POSIX_signals_Siginfo
  Inactive,    \* length of _POSIX_signals_Inactive_siginfo
  do_post_all, \* _Thread_Do_post_task_switch_extension
  blocked,     \* POSIX_API_Control.signals_blocked of each thread
  pending,     \* POSIX_API_Control.signals_pending of each thread
  do_post,     \* Thread_Control.do_post_task_switch_extension
  waiting,     \* Wait.option of a thread on _POSIX_signals_Wait_queue, or NULL
  stack,       \* the frames of each thread, innermost first
  unseen,      \* history: the signals sent to a thread since its sigtimedwait
               \* looked for them
  running,     \* _Thread_Executing, NULL for a task of another API
  status,      \* "up", or how the program ended
  calls        \* the calls made so far

processVars == <<Pending, do_post_all>>
queueVars == <<Siginfo, Inactive>>
threadVars == <<blocked, pending, do_post, waiting>>
vars == <<Vectors, processVars, queueVars, threadVars, stack, unseen, running,
          status, calls>>

Frame(pc, at, set) == [pc |-> pc, at |-> at, set |-> set]

\* _POSIX_signals_Default_vectors
SIG_DFL(s) == [kind |-> IF s \in RealTime THEN "ignore" ELSE "terminate",
               mask |-> Signals]

\* _POSIX_signals_Manager_Initialization.  The mask of a new thread is not set
\* from its creator's: _POSIX_Threads_Create_extension assigns the field to
\* itself, so any value may be found there.
Init ==
  /\ Vectors = [s \in Signals |-> SIG_DFL(s)]
  /\ Pending = {} /\ do_post_all = 0
  /\ Siginfo = [s \in Signals |-> 0] /\ Inactive \in maximum_queued_signals
  /\ blocked \in [Threads -> Sets]
  /\ pending = [t \in Threads |-> {}]
  /\ do_post = [t \in Threads |-> FALSE]
  /\ waiting = [t \in Threads |-> NULL]
  /\ stack = [t \in Threads |-> <<>>]
  /\ unseen = [t \in Threads |-> {}]
  /\ running = NULL /\ status = "up" /\ calls = 0

-----------------------------------------------------------------------------
Top(t) == Head(stack[t])
Place(t) == IF stack[t] = <<>> THEN "body" ELSE Top(t).pc
Runs(t, pc) == status = "up" /\ running = t /\ Place(t) = pc

\* Code of the application: the thread's own, or a handler's
Application(t) ==
  /\ status = "up" /\ running = t
  /\ Place(t) \in {"body", "handler"}
  /\ Len(stack[t]) < MaxStack[t]

Push(t, f) == stack' = [stack EXCEPT ![t] = <<f>> \o @]
Replace(t, fs) == stack' = [stack EXCEPT ![t] = fs \o Tail(@)]

\* _POSIX_signals_Set_process_signals
Set_process_signals(s) ==
  /\ Pending' = Pending \cup {s}
  /\ do_post_all' = IF Pending = {} THEN (do_post_all + 1) % Modulus
                                    ELSE do_post_all

\* _POSIX_signals_Clear_process_signals: it decrements also when nothing was
\* pending before
Clear_process_signals(s) ==
  /\ Pending' = Pending \ {s}
  /\ do_post_all' = IF Pending \ {s} = {} THEN (do_post_all - 1) % Modulus
                                          ELSE do_post_all

\* _POSIX_signals_Clear_signals, once the signal is found pending
ClearGlobal(s) ==
  LET queued == Siginfo[s] > 0 IN
  IF Vectors[s].kind = "siginfo"
  THEN /\ Siginfo' = [Siginfo EXCEPT ![s] = IF queued THEN @ - 1 ELSE 0]
       /\ Inactive' = IF queued THEN Inactive + 1 ELSE Inactive
       /\ IF Siginfo[s] <= 1 THEN Clear_process_signals(s)
                             ELSE UNCHANGED processVars
  ELSE Clear_process_signals(s) /\ UNCHANGED queueVars

ClearLocal(t, s) == pending' = [pending EXCEPT ![t] = @ \ {s}]

Unblocked(t) == (pending[t] \cup Pending) \ blocked[t]

-----------------------------------------------------------------------------
\* An interrupt may come now: its handler, the alarm's timer service routine for
\* one, sends a signal or makes a thread ready.
Interrupt == status = "up"

\* The end of _Thread_Dispatch: does the thread look at its signals?  flags are
\* the values of do_post_task_switch_extension by then, frames what the thread
\* returns to.
DispatchEnds(t, flags, frames) ==
  IF do_post_all' # 0 \/ flags[t]
  THEN /\ do_post' = [flags EXCEPT ![t] = FALSE]
       /\ stack' = [stack EXCEPT ![t] = <<Frame("restart", 0, {})>> \o frames]
  ELSE do_post' = flags /\ stack' = [stack EXCEPT ![t] = frames]

\* _Thread_Dispatch gives the processor to another ready thread, which comes
\* out of the dispatch in which it once left it.
Switch(t) ==
  /\ Interrupt
  /\ running # t /\ waiting[t] = NULL
  /\ running # NULL => ~ Runs(running, "send")
  /\ Len(stack[t]) < MaxStack[t]
  /\ running' = t
  /\ UNCHANGED <<Vectors, processVars, queueVars, blocked, pending, waiting,
                 status, unseen>>
  /\ DispatchEnds(t, do_post, stack[t])

\* _POSIX_signals_Post_switch_extension at restart
Restart(t) ==
  /\ Runs(t, "restart")
  /\ Replace(t, IF Unblocked(t) = {} THEN <<>> ELSE <<Frame("search", 0, {})>>)
  /\ UNCHANGED <<Vectors, processVars, queueVars, threadVars, running, status,
                 unseen>>

\* The search visits each signal twice, the thread's before the process's.
Visited(f) == Order[(f.at \div 2) + 1]
IsGlobal(f) == f.at % 2 = 1
Advanced(f) == IF f.at + 1 = 2 * Len(Order) THEN <<>>
               ELSE <<[f EXCEPT !.at = @ + 1]>>
Found(t, f) ==
  Visited(f) \in (IF IsGlobal(f) THEN Pending ELSE pending[t]) \ blocked[t]

\* _POSIX_signals_Check_signal: nothing to take
CheckPasses(t) ==
  /\ Runs(t, "search")
  /\ ~ Found(t, Top(t))
  /\ Replace(t, Advanced(Top(t)))
  /\ UNCHANGED <<Vectors, processVars, queueVars, threadVars, running, status,
                 unseen>>

\* What the handler is entered with: the search starts again behind it, and it
\* holds the mask to restore.
Entered(t, s) == <<Frame("handler", 0, blocked[t]), Frame("restart", 0, {})>>

\* _POSIX_signals_Check_signal: a signal taken, and its handler called
CheckTakes(t) ==
  LET f == Top(t)
      s == Visited(f)
      kind == Vectors[s].kind
  IN  /\ Runs(t, "search")
      /\ Found(t, f)
      /\ IF IsGlobal(f)
         THEN ClearGlobal(s) /\ UNCHANGED pending
         ELSE ClearLocal(t, s) /\ UNCHANGED <<processVars, queueVars>>
      /\ \/ /\ kind = "ignore"
            /\ Replace(t, Advanced(f)) /\ UNCHANGED <<blocked, status>>
         \/ /\ kind = "terminate"
            /\ status' = "exited" /\ UNCHANGED <<blocked, stack>>
         \/ /\ kind = "siginfo" /\ ~ IsGlobal(f)
            /\ status' = "assert" /\ UNCHANGED <<blocked, stack>>
         \/ /\ kind = "handler" \/ (kind = "siginfo" /\ IsGlobal(f))
            /\ Len(stack[t]) < MaxStack[t]
            /\ Replace(t, Entered(t, s))
            /\ blocked' = [blocked EXCEPT ![t] = @ \cup Vectors[s].mask]
            /\ UNCHANGED status
      /\ UNCHANGED <<Vectors, do_post, waiting, running, unseen>>

\* The handler returns: _POSIX_signals_Check_signal puts the mask back.
MaskKept(t) == blocked[t]
RestoredMask(t) == Top(t).set
HandlerReturns(t) ==
  /\ Runs(t, "handler")
  /\ blocked' = [blocked EXCEPT ![t] = RestoredMask(t)]
  /\ Replace(t, <<>>)
  /\ UNCHANGED <<Vectors, processVars, queueVars, pending, do_post, waiting,
                 running, status, unseen>>

-----------------------------------------------------------------------------
\* sigaction, but for its read of the old vector
Sigaction(t, s, act) ==
  /\ Application(t)
  /\ \/ /\ act = NULL
        /\ Vectors' = [Vectors EXCEPT ![s] = SIG_DFL(s)]
        /\ UNCHANGED processVars
     \/ /\ act # NULL
        /\ Vectors' = [Vectors EXCEPT ![s] = act]
        /\ Clear_process_signals(s)
  /\ UNCHANGED <<queueVars, threadVars, stack, running, status, unseen>>

\* pthread_sigmask and sigprocmask: whatever "how" is, a new mask results; a
\* signal that may now be delivered is, in the dispatch that ends the call.
Deliverable(t, m) == (pending[t] \cup Pending) \ m # {}
Sigmask(t, m) ==
  /\ Application(t)
  /\ blocked' = [blocked EXCEPT ![t] = m]
  /\ UNCHANGED <<Vectors, processVars, queueVars, pending, waiting, running,
                 status, unseen>>
  /\ IF Deliverable(t, m)
     THEN DispatchEnds(t, [do_post EXCEPT ![t] = TRUE], stack[t])
     ELSE UNCHANGED <<do_post, stack>>

\* _POSIX_signals_Get_highest
Get_highest(set) ==
  Order[CHOOSE i \in 1..Len(Order) :
          Order[i] \in set /\ \A j \in 1..(i - 1) : Order[j] \notin set]

\* Has the thread looked for the signals it wants, and not blocked yet?
Looked(t) == \E i \in 1..Len(stack[t]) : stack[t][i].pc = "wait"

\* sigtimedwait (sigwaitinfo, sigsuspend and pause call it) up to its wait.  A
\* signal of the process that is already pending is taken, yet the thread goes
\* on to wait.
Sigtimedwait(t, set) ==
  /\ Application(t)
  /\ \/ /\ set \cap pending[t] # {}
        /\ ClearLocal(t, Get_highest(pending[t]))
        /\ UNCHANGED <<processVars, queueVars, stack, unseen>>
     \/ /\ set \cap pending[t] = {}
        /\ IF set \cap Pending # {} THEN ClearGlobal(Get_highest(Pending))
           ELSE UNCHANGED <<processVars, queueVars>>
        /\ Push(t, Frame("wait", 0, set)) \/ UNCHANGED stack  \* EINVAL
        /\ unseen' = [unseen EXCEPT ![t] = IF Looked(t) THEN @ ELSE {}]
        /\ UNCHANGED pending
  /\ UNCHANGED <<Vectors, blocked, do_post, waiting, running, status>>

\* sigtimedwait: _Thread_queue_Enqueue and the dispatch away
WaitStarts(t) ==
  /\ Runs(t, "wait")
  /\ waiting' = [waiting EXCEPT ![t] = Top(t).set]
  /\ Replace(t, <<>>)
  /\ running' = NULL
  /\ UNCHANGED <<Vectors, processVars, queueVars, blocked, pending, do_post,
                 status, unseen>>

\* The time-out of a wait
WaitTimesOut(t) ==
  /\ status = "up" /\ waiting[t] # NULL
  /\ waiting' = [waiting EXCEPT ![t] = NULL]
  /\ UNCHANGED <<Vectors, processVars, queueVars, blocked, pending, do_post,
                 stack, running, status, unseen>>

-----------------------------------------------------------------------------
WakesIfUnblocked(t, s) == waiting[t] # NULL /\ s \notin blocked[t]
Wakes(t, s) == waiting[t] # NULL /\ (s \in waiting[t] \/ s \notin blocked[t])
MostUrgent(ts) == {t \in ts : \A u \in ts : Rank[t] <= Rank[u]}

\* killinfo's search: the executing thread if interested, else the first
\* waiting thread this signal would wake, else the most urgent interested one
Target(s) ==
  LET interested == {t \in Threads : s \notin blocked[t]}
      waiters == {t \in Threads : Wakes(t, s)}
  IN  IF running \in interested THEN {running}
      ELSE IF waiters # {} THEN MostUrgent(waiters)
      ELSE MostUrgent(interested)

Marked(target) == [t \in Threads |-> do_post[t] \/ t \in target]

\* The rest of killinfo, for the threads of a set of at most one: a thread that
\* waits takes the signal, else it is left to the process.
Process_it(s, target) ==
  /\ IF \E t \in target : Wakes(t, s)
     THEN /\ waiting' = [t \in Threads |-> IF t \in target THEN NULL
                                                           ELSE waiting[t]]
          /\ UNCHANGED <<processVars, queueVars, status>>
     ELSE /\ Set_process_signals(s)
          /\ IF Vectors[s].kind # "siginfo" THEN UNCHANGED <<queueVars, status>>
             ELSE IF Inactive = 0
             THEN \* EAGAIN, and dispatching stays disabled for good
                  status' = "disabled" /\ UNCHANGED queueVars
             ELSE /\ Siginfo' = [Siginfo EXCEPT ![s] = @ + 1]
                  /\ Inactive' = Inactive - 1
                  /\ UNCHANGED status
          /\ UNCHANGED waiting

\* kill and sigqueue from an interrupt handler
KillFromISR(s) ==
  /\ Interrupt
  /\ Vectors[s].kind # "ignore"
  /\ Process_it(s, Target(s)) /\ do_post' = Marked(Target(s))
  /\ UNCHANGED <<Vectors, blocked, pending, stack, running, unseen>>

\* kill and sigqueue from a thread: the search, with dispatching disabled ...
KillSearch(t, i) ==
  /\ Application(t)
  /\ Vectors[Order[i]].kind # "ignore"
  /\ Push(t, Frame("send", i, Target(Order[i])))
  /\ UNCHANGED <<Vectors, processVars, queueVars, threadVars, running, status,
                 unseen>>

\* ... and the delivery, which ends in a dispatch
KillSend(t) ==
  /\ Runs(t, "send")
  /\ Process_it(Order[Top(t).at], Top(t).set)
  /\ DispatchEnds(t, Marked(Top(t).set), Tail(stack[t]))
  /\ UNCHANGED <<Vectors, blocked, pending, running, unseen>>

\* pthread_kill: the signal stays pending even if it ends the target's wait.
NotFlagged(t) == do_post
Flagged(t) == [do_post EXCEPT ![t] = TRUE]
PthreadKill(t, s) ==
  /\ Vectors[s].kind \in {"handler", "terminate"}
  /\ pending' = [pending EXCEPT ![t] = @ \cup {s}]
  /\ waiting' = [waiting EXCEPT ![t] = IF Wakes(t, s) THEN NULL ELSE @]
  /\ unseen' = [unseen EXCEPT ![t] = IF Looked(t) THEN @ \cup {s} ELSE @]
  /\ UNCHANGED <<Vectors, processVars, queueVars, blocked, running, status>>

\* With _ISR_Signals_to_thread_executing the interrupt ends in a dispatch, but
\* not where dispatching is disabled: in killinfo, and in the last part of
\* sigtimedwait before its wait.
PthreadKillFromISR(t, s) ==
  /\ Interrupt
  /\ PthreadKill(t, s)
  /\ \/ /\ running = t /\ Place(t) # "send" /\ Len(stack[t]) < MaxStack[t]
        /\ DispatchEnds(t, Flagged(t), stack[t])
     \/ /\ running = t => Place(t) \in {"send", "wait"}
        /\ do_post' = Flagged(t) /\ UNCHANGED stack

PthreadKillFromThread(u, t, s) ==
  /\ Application(u)
  /\ PthreadKill(t, s)
  /\ DispatchEnds(u, Flagged(t), stack[u])

Actions == {NULL} \cup [kind : {"ignore"}, mask : {{}}]
                  \cup [kind : {"handler", "siginfo"}, mask : Sets]

\* The steps of a thread inside the signal code, and of the dispatcher
Step(t) ==
  /\ \/ Switch(t) \/ Restart(t)
     \/ CheckPasses(t) \/ CheckTakes(t) \/ HandlerReturns(t)
     \/ WaitStarts(t) \/ WaitTimesOut(t) \/ KillSend(t)
  /\ UNCHANGED calls

\* The calls of threads and of interrupt handlers
Call ==
  /\ calls < MaxCalls /\ calls' = calls + 1
  /\ \/ \E s \in Signals : KillFromISR(s)
     \/ \E t \in Threads, i \in 1..Len(Order) : KillSearch(t, i)
     \/ \E t \in Threads, set \in Sets :
          Sigmask(t, set) \/ Sigtimedwait(t, set)
     \/ \E t \in Threads, s \in Signals :
          \/ \E act \in Actions : Sigaction(t, s, act)
          \/ \E u \in Threads : PthreadKillFromThread(u, t, s)
          \/ PthreadKillFromISR(t, s)

Next == Call \/ \E t \in Threads : Step(t)

Spec == Init /\ [][Next]_vars

-----------------------------------------------------------------------------
Kinds == {"ignore", "terminate", "handler", "siginfo"}
Frames == [pc : {"restart", "search", "handler", "send", "wait"},
           at : 0..(2 * Len(Order)), set : SUBSET (Signals \cup Threads)]

\* Type invariant of the signal state and of the threads' frames
TypeOK ==
  /\ Vectors \in [Signals -> [kind : Kinds, mask : SUBSET Signals]]
  /\ Pending \subseteq Signals /\ do_post_all \in 0..(Modulus - 1)
  /\ Siginfo \in [Signals -> Nat]
  /\ Inactive \in Nat
  /\ \A t \in Threads :
       /\ blocked[t] \subseteq Signals /\ pending[t] \subseteq Signals
       /\ do_post[t] \in BOOLEAN
       /\ waiting[t] = NULL \/ waiting[t] \subseteq Signals
       /\ \A i \in 1..Len(stack[t]) : stack[t][i] \in Frames
  /\ unseen \in [Threads -> SUBSET Signals]
  /\ running \in Threads \cup {NULL}
  /\ status \in {"up", "exited", "assert", "disabled"}

\* A frame whose search has still to visit signal s of the thread
Ahead(f, s) ==
  \/ f.pc = "restart"
  \/ f.pc = "search" /\ \E i \in 1..Len(Order) :
                           Order[i] = s /\ f.at <= 2 * (i - 1)

\* A signal sent to a thread that does not block it is noticed: the flag that
\* makes the end of its next dispatch look is set, or a search it is in the
\* middle of has still to come to the signal.  The flag is reset before the
\* search, nested searches reset it again, a handler may change the mask and its
\* return does (do_post_task_switch_extension in _Thread_Dispatch,
\* pthread_kill, pthread_sigmask, _POSIX_signals_Post_switch_extension).
DirectedNoticed ==
  \A t \in Threads : \A s \in pending[t] \ blocked[t] :
    \/ do_post[t]
    \/ \E i \in 1..Len(stack[t]) : Ahead(stack[t][i], s)

\* The mask the thread's own code lives with: under handlers, the one the
\* outermost of them will put back
OwnMask(t) ==
  LET handlers == {i \in 1..Len(stack[t]) : stack[t][i].pc = "handler"} IN
  IF handlers = {} THEN blocked[t]
  ELSE stack[t][CHOOSE i \in handlers : \A j \in handlers : j <= i].set

\* However handlers nest, and whatever masks they set, only a call the thread
\* makes outside every handler changes the mask its own code lives with
\* (saved_signals_blocked in _POSIX_signals_Check_signal).
MaskRestored ==
  [][\A t \in Threads : OwnMask(t)' # OwnMask(t) => stack[t] = <<>>]_vars

\* A thread sleeps in sigtimedwait on a signal that is pending for it only if
\* the signal was sent after sigtimedwait looked for it and before the thread
\* was on the wait queue: earlier ones are found by the look, later ones end the
\* wait (_POSIX_signals_Unblock_thread in pthread_kill).
NoMissedDirected ==
  \A t \in Threads :
    waiting[t] # NULL => waiting[t] \cap pending[t] \subseteq unseen[t]
=============================================================================
