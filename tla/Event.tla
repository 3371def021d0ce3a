------------------------------- MODULE Event -------------------------------
(***************************************************************************)
(* The event manager (rtems/src/event.c): threads and interrupt handlers   *)
(* send events to a thread, which receives them, waiting if need be.       *)
(***************************************************************************)
EXTENDS Blocking

CONSTANTS
  Events,
  FlashInterruptible  \* may an interrupt come at the _ISR_Flash of a send?

ASSUME EventAssumption == FlashInterruptible \in BOOLEAN

VARIABLES
  pending_events,  \* RTEMS_API_Control.pending_events
  condition,       \* Thread_Control.Wait.count
  any,             \* Thread_Control.Wait.option: RTEMS_EVENT_ANY?
  event_out,       \* what Wait.return_argument points to
  Sync_state,      \* _Event_Sync_state
  seized           \* history: the events taken for the current receive

eventVars == <<pending_events, condition, any, event_out, Sync_state, seized>>
vars == <<threadVars, eventVars>>

\* Places where code stops with interrupts enabled:
\*   timer, block, check, blocked        in _Event_Seize
\*   surrender, flash                    in rtems_event_send
\*   timeout, sync, mark, expired        in _Event_Timeout
Places == {"idle", "timer", "block", "check", "blocked", "remove", "unblock",
           "surrender", "flash", "timeout", "sync", "mark", "expired"}
Statuses == {"SUCCESSFUL", "TIMEOUT", "UNSATISFIED"}

\* Every variable has a value the code gives it.
TypeOK ==
  /\ ThreadTypeOK(Places, {}, Statuses)
  /\ pending_events \in [Threads -> SUBSET Events]
  /\ condition \in [Threads -> SUBSET Events]
  /\ any \in [Threads -> BOOLEAN]
  /\ event_out \in [Threads -> SUBSET Events]
  /\ Sync_state \in SyncStates
  /\ seized \in [Threads -> SUBSET Events]

\* _Event_Manager_initialization, and the create extension of the tasks
Init ==
  /\ ThreadInit
  /\ pending_events = [t \in Threads |-> {}]
  /\ condition = [t \in Threads |-> {}]
  /\ any = [t \in Threads |-> FALSE]
  /\ event_out = [t \in Threads |-> {}]
  /\ Sync_state = "SYNCHRONIZED"
  /\ seized = [t \in Threads |-> {}]

-----------------------------------------------------------------------------
\* Do the events in S satisfy the condition c?
Satisfies(S, c, anyOf) == S \cap c # {} /\ (c \subseteq S \/ anyOf)

\* What happened is left for the thread that is on its way to its wait.
Told == "SATISFIED"
NoStatus == "SUCCESSFUL"
TimeoutCode == "TIMEOUT"

\* The pending events of t that satisfy c are taken.
Seized(t, c) ==
  /\ pending_events' = [pending_events EXCEPT ![t] = @ \ c]
  /\ event_out' = [event_out EXCEPT ![t] = pending_events[t] \cap c]
  /\ seized' = [seized EXCEPT ![t] = @ \cup (pending_events[t] \cap c)]

\* rtems_event_receive by the executing thread, with _Event_Seize up to its
\* first _ISR_Enable.
Receive(c, anyOf, wait, timed) ==
  /\ Calls(0)
  /\ LET t == executing
         now == Satisfies(pending_events[t], c, anyOf)
     IN /\ return_code' = [return_code EXCEPT ![t] =
             IF now \/ wait THEN "SUCCESSFUL" ELSE "UNSATISFIED"]
        /\ \/ /\ now
              /\ Seized(t, c)
              /\ UNCHANGED <<calling, nest, frame, condition, any, Sync_state>>
           \/ /\ ~now /\ ~wait
              /\ event_out' = [event_out EXCEPT ![t] = pending_events[t] \cap c]
              /\ UNCHANGED <<calling, nest, frame, pending_events, condition, any,
                             Sync_state, seized>>
           \/ /\ ~now /\ wait
              /\ Sync_state' = "NOTHING_HAPPENED"
              /\ condition' = [condition EXCEPT ![t] = c]
              /\ any' = [any EXCEPT ![t] = anyOf]
              /\ seized' = [seized EXCEPT ![t] = {}]
              /\ calling' = calling \cup {t}
              /\ Begin(0, [IdleFrame EXCEPT !.thread = t,
                             !.pc = IF timed THEN "timer" ELSE "block"])
              /\ UNCHANGED <<pending_events, event_out>>
  /\ UNCHANGED <<state, timer, executing>>

\* ... start the timer, block
SeizeBlock == (StartTimer("block") \/ Block("check")) /\ UNCHANGED eventVars

\* ... and see what happened meanwhile.
SeizeCheck ==
  /\ At("check")
  /\ Sync_state' = "SYNCHRONIZED"
  /\ \/ /\ Sync_state \in {"SYNCHRONIZED", "NOTHING_HAPPENED"}
        /\ Goto("blocked")
        /\ UNCHANGED <<timer, return_code>>
     \/ /\ Sync_state = "TIMEOUT"
        /\ return_code' = [return_code EXCEPT ![executing] = TimeoutCode]
        /\ Begin(0, [frame[0] EXCEPT !.pc = "unblock", !.after = "blocked"])
        /\ UNCHANGED timer
     \/ /\ Sync_state = "SATISFIED"
        /\ Take(0, "none", executing, "blocked")
        /\ UNCHANGED return_code
  /\ UNCHANGED <<state, calling, executing, pending_events, condition, any,
                 event_out, seized>>

-----------------------------------------------------------------------------
\* rtems_event_send to thread t, from a thread or an interrupt handler:
\* _Event_sets_Post
Send(lv, t, e) ==
  /\ Calls(lv)
  /\ frame[nest].pc = "flash" => FlashInterruptible
  /\ pending_events' = [pending_events EXCEPT ![t] = @ \cup {e}]
  /\ Begin(lv, [IdleFrame EXCEPT !.pc = "surrender", !.thread = t])
  /\ UNCHANGED <<state, timer, return_code, calling, executing, condition, any,
                 event_out, Sync_state, seized>>

\* ... _Event_Surrender up to its _ISR_Flash or _ISR_Enable: the thread waits,
\* or it is about to.
NeverOnItsWay(t) == FALSE
OnItsWay(t) == Sync_state \in {"NOTHING_HAPPENED", "TIMEOUT"} /\ executing = t

Surrender ==
  /\ At("surrender")
  /\ LET t == frame[nest].thread
         ok == Satisfies(pending_events[t], condition[t], any[t])
     IN \/ /\ ok /\ state[t] = "waiting"
           /\ Seized(t, condition[t])
           /\ Goto("flash")
           /\ UNCHANGED Sync_state
        \/ /\ ok /\ state[t] # "waiting" /\ OnItsWay(t)
           /\ Seized(t, condition[t])
           /\ Sync_state' = Told
           /\ Finish
        \/ /\ ~ok \/ (state[t] # "waiting" /\ ~OnItsWay(t))
           /\ Finish
           /\ UNCHANGED <<pending_events, event_out, seized, Sync_state>>
  /\ UNCHANGED <<state, timer, return_code, calling, executing, condition, any>>

\* ... after the flash
SurrenderEnd ==
  /\ At("flash")
  /\ Take(nest, "none", frame[nest].thread, "idle")
  /\ UNCHANGED <<state, return_code, calling, executing, eventVars>>

-----------------------------------------------------------------------------
\* _Event_Timeout
StillBlocking(t) == Sync_state # "SYNCHRONIZED" /\ executing = t
NotSatisfied == Sync_state # "SATISFIED"

TimeoutTest ==
  \/ /\ At("timeout")
     /\ Goto(IF StillBlocking(frame[nest].thread) THEN "sync" ELSE "expired")
     /\ UNCHANGED <<state, timer, return_code, calling, executing, eventVars>>
  \/ /\ At("sync")
     /\ IF NotSatisfied THEN Goto("mark") ELSE Finish
     /\ UNCHANGED <<state, timer, return_code, calling, executing, eventVars>>

TimeoutMark ==
  /\ At("mark")
  /\ Sync_state' = "TIMEOUT"
  /\ Finish
  /\ UNCHANGED <<state, timer, return_code, calling, executing, pending_events,
                 condition, any, event_out, seized>>

TimeoutStatus ==
  /\ At("expired")
  /\ return_code' = [return_code EXCEPT ![frame[nest].thread] = TimeoutCode]
  /\ Goto("unblock")
  /\ UNCHANGED <<state, timer, calling, executing, eventVars>>

-----------------------------------------------------------------------------
EventStep ==
  \/ (RemoveTimer \/ Unblock) /\ UNCHANGED eventVars
  \/ SeizeBlock \/ SeizeCheck \/ Surrender \/ SurrenderEnd
  \/ TimeoutTest \/ TimeoutMark \/ TimeoutStatus

\* The clock tick is an interrupt like any other.
Tick(t) ==
  /\ frame[nest].pc = "flash" => FlashInterruptible
  /\ Expire(t)
  /\ UNCHANGED eventVars

Next ==
  \/ EventStep
  \/ (Dispatch \/ Return) /\ UNCHANGED eventVars
  \/ \E t \in Threads : Tick(t)
  \/ \E c \in SUBSET Events \ {{}}, anyOf, wait, timed \in BOOLEAN :
       (timed => wait) /\ Receive(c, anyOf, wait, timed)
  \/ \E lv \in Levels, t \in Threads, e \in Events : Send(lv, t, e)

Spec == Init /\ [][Next]_vars

-----------------------------------------------------------------------------
\* Some code is under way that wakes t, or has yet to look at its events.
BeingServed(t) ==
  \/ \E l \in 0 .. nest : frame[l].thread = t /\ frame[l].pc # "blocked"
  \/ Sync_state = "SATISFIED" /\ executing = t

\* No wake-up is missed: a thread does not sleep while the events it waits for
\* are pending, whenever they came (_Event_Surrender and _Event_Seize).
NoMissedWakeup ==
  \A t \in Threads :
    /\ state[t] = "waiting"
    /\ Satisfies(pending_events[t], condition[t], any[t])
    => BeingServed(t)

\* What a receive that waited returns as SUCCESSFUL satisfies what it asked for.
ReturnsCondition ==
  Returning /\ return_code[executing] = "SUCCESSFUL" =>
    /\ Satisfies(event_out[executing], condition[executing], any[executing])
    /\ event_out[executing] \subseteq condition[executing]
=============================================================================
