------------------------------ MODULE Blocking ------------------------------
(***************************************************************************)
(* What the objects a thread can wait for have in common: how threads and  *)
(* interrupt handlers interleave on the one processor, and how a thread    *)
(* that was taken out of its wait is made ready.  ThreadQueue and Event    *)
(* extend this module.                                                     *)
(*                                                                         *)
(* The unit of atomicity is a stretch of code with interrupts disabled.    *)
(* frame[0] is the directive the executing thread is in, frame[1] ..       *)
(* frame[nest] are the interrupt handlers that interrupted it and each     *)
(* other; only frame[nest] takes steps.                                    *)
(*                                                                         *)
(* Which ready thread runs is left open: any may be dispatched whenever    *)
(* dispatching is enabled.  The watchdog behind a time-out is reduced to   *)
(* what Watchdog shows of it: an ACTIVE one may fire at a clock tick, and  *)
(* its service routine is only called if it is ACTIVE then.                *)
(***************************************************************************)
EXTENDS Naturals, FiniteSets

CONSTANTS
  Threads,
  MaxNest,            \* deepest nesting of interrupt handlers
  TickInterruptible,  \* may a handler interrupt the clock tick handler?
  NULL

ASSUME BlockingAssumption ==
  /\ MaxNest \in Nat
  /\ TickInterruptible \in BOOLEAN
  /\ NULL \notin Threads

VARIABLES
  state,        \* Thread_Control.current_state: is it waiting for the object?
  timer,        \* Thread_Control.Timer.state
  return_code,  \* Thread_Control.Wait.return_code
  calling,      \* the threads that are in a call that blocks
  executing,    \* _Thread_Executing; NULL is the idle thread
  nest,         \* _ISR_Nest_level
  frame         \* what each level is in the middle of

threadVars == <<state, timer, return_code, calling, executing, nest, frame>>

Levels == 0 .. MaxNest
SyncStates == {"SYNCHRONIZED", "NOTHING_HAPPENED", "TIMEOUT", "SATISFIED"}

\* thread: the thread the operation op is about; search: where its search has
\* got to; after: where it goes on once the thread is unblocked; timed, value:
\* what else the operation has to remember.
IdleFrame == [pc |-> "idle", op |-> "none", thread |-> NULL, search |-> NULL,
              after |-> "idle", timed |-> FALSE, value |-> 0]

ThreadTypeOK(places, ops, statuses) ==
  /\ state \in [Threads -> {"ready", "waiting"}]
  /\ timer \in [Threads -> {"INACTIVE", "ACTIVE", "REMOVE_IT"}]
  /\ return_code \in [Threads -> statuses]
  /\ calling \subseteq Threads
  /\ executing \in Threads \cup {NULL}
  /\ nest \in Levels
  /\ frame \in [Levels ->
       [pc : places, op : ops \cup {"none", "timeout"},
        thread : Threads \cup {NULL}, search : Threads \cup {NULL},
        after : places, timed : BOOLEAN, value : Nat]]

ThreadInit ==
  /\ state = [t \in Threads |-> "ready"]
  /\ timer = [t \in Threads |-> "INACTIVE"]
  /\ return_code = [t \in Threads |-> "SUCCESSFUL"]
  /\ calling = {}
  /\ executing \in Threads
  /\ nest = 0
  /\ frame = [l \in Levels |-> IdleFrame]

-----------------------------------------------------------------------------
\* Who may make a call at level lv: the thread between two calls (dispatching
\* is enabled), or an interrupt handler that is taken now.
Calls(lv) ==
  \/ /\ lv = 0 /\ nest = 0 /\ frame[0].pc = "idle"
     /\ executing # NULL /\ executing \notin calling
  \/ /\ lv = nest + 1 /\ lv \in Levels
     /\ frame[nest].op = "timeout" => TickInterruptible

At(pc) == frame[nest].pc = pc
Goto(pc) == frame' = [frame EXCEPT ![nest].pc = pc] /\ UNCHANGED nest
Begin(lv, f) == frame' = [frame EXCEPT ![lv] = f] /\ nest' = lv

\* The handler, or the directive of the thread, is over.
InHandler == nest > 0
Finish ==
  /\ frame' = [frame EXCEPT ![nest] = IdleFrame]
  /\ nest' = IF InHandler THEN nest - 1 ELSE nest

\* _Watchdog_Is_active( &the_thread->Timer )
Timed(t) == timer[t] = "ACTIVE"

\* Thread t was taken out of its wait: its time-out is deactivated with
\* interrupts still disabled, what is left is done later.
Take(lv, op, t, after) ==
  /\ timer' = [timer EXCEPT ![t] = IF Timed(t) THEN "REMOVE_IT" ELSE @]
  /\ Begin(lv, [IdleFrame EXCEPT !.pc = IF Timed(t) THEN "remove" ELSE "unblock",
                                 !.op = op, !.thread = t, !.after = after])

\* _Watchdog_Remove( &the_thread->Timer )
RemoveTimer ==
  /\ At("remove")
  /\ timer' = [timer EXCEPT ![frame[nest].thread] = "INACTIVE"]
  /\ Goto("unblock")
  /\ UNCHANGED <<state, return_code, calling, executing>>

\* _Thread_Unblock( the_thread )
Unblock ==
  /\ At("unblock")
  /\ state' = [state EXCEPT ![frame[nest].thread] = "ready"]
  /\ IF frame[nest].after = "idle" THEN Finish ELSE Goto(frame[nest].after)
  /\ UNCHANGED <<timer, return_code, calling, executing>>

\* _Watchdog_Initialize and _Watchdog_Insert_ticks on the executing thread's
StartTimer(after) ==
  /\ At("timer")
  /\ timer' = [timer EXCEPT ![executing] = "ACTIVE"]
  /\ Goto(after)
  /\ UNCHANGED <<state, return_code, calling, executing>>

\* _Thread_Set_state( executing, ... )
Block(after) ==
  /\ At("block")
  /\ state' = [state EXCEPT ![executing] = "waiting"]
  /\ Goto(after)
  /\ UNCHANGED <<timer, return_code, calling, executing>>

\* The clock tick fires the time-out of t.
Expire(t) ==
  /\ timer[t] = "ACTIVE"
  /\ Calls(nest + 1)
  /\ timer' = [timer EXCEPT ![t] = "INACTIVE"]
  /\ Begin(nest + 1,
           [IdleFrame EXCEPT !.pc = "timeout", !.op = "timeout", !.thread = t])
  /\ UNCHANGED <<state, return_code, calling, executing>>

-----------------------------------------------------------------------------
\* Dispatching is enabled: some ready thread runs, the idle thread if none is.
Dispatch ==
  /\ nest = 0 /\ frame[0].pc \in {"idle", "blocked"}
  /\ LET ready == {t \in Threads : state[t] = "ready"}
     IN executing' \in (IF ready = {} THEN {NULL} ELSE ready)
  /\ frame' = [frame EXCEPT ![0] = IdleFrame]
  /\ UNCHANGED <<state, timer, return_code, calling, nest>>

\* The call in which the executing thread waited is about to return.
Returning == nest = 0 /\ frame[0].pc = "idle" /\ executing \in calling

Return ==
  /\ Returning
  /\ calling' = calling \ {executing}
  /\ UNCHANGED <<state, timer, return_code, executing, nest, frame>>
=============================================================================
