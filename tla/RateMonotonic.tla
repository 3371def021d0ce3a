--------------------------- MODULE RateMonotonic ---------------------------
(***************************************************************************)
(* A period (rtems/src/ratemon.c): its owner calls                         *)
(* rtems_rate_monotonic_period to wait for the period's end, which the     *)
(* clock tick announces (_Rate_monotonic_Timeout).                         *)
(***************************************************************************)
EXTENDS TaskStack

CONSTANTS
  Length,         \* of the period, in ticks
  LongCall,       \* may the period end twice while its owner is blocking on it?
  DeleteWaited    \* may others delete a period that its owner waits for?

ASSUME RateMonotonicAssumption ==
  /\ Length \in Nat \ {0}
  /\ {LongCall, DeleteWaited} \subseteq BOOLEAN

VARIABLES
  exists,   \* is the period's id in the local table?
  period,   \* Rate_monotonic_Control.state
  left,     \* ticks left of Rate_monotonic_Control.Timer; 0 if it is not active
  ended     \* history: periods that ended since the owner last called

periodVars == <<exists, period, left, ended>>

PeriodInit == exists = FALSE /\ period = "INACTIVE" /\ left = 0 /\ ended = 0

Blocking == {"OWNER_IS_BLOCKING", "EXPIRED_WHILE_BLOCKING"}

-----------------------------------------------------------------------------
\* rtems_rate_monotonic_create by the task, which owns the period
Create ==
  /\ Application /\ ~exists
  /\ exists' = TRUE
  /\ period' = "INACTIVE" /\ left' = 0
  /\ UNCHANGED <<taskVars, ended>>

\* rtems_rate_monotonic_cancel by its owner
Cancel ==
  /\ Application /\ exists
  /\ period' = "INACTIVE" /\ left' = 0
  /\ UNCHANGED <<taskVars, exists, ended>>

\* rtems_rate_monotonic_delete by any task
Delete ==
  /\ exists /\ Top.pc \notin InDirective
  /\ waiting => DeleteWaited
  /\ exists' = FALSE
  /\ period' = "INACTIVE" /\ left' = 0
  /\ UNCHANGED <<taskVars, ended>>

-----------------------------------------------------------------------------
\* rtems_rate_monotonic_period by the owner, with dispatching disabled
PeriodCall ==
  /\ Application /\ exists
  /\ Push(Call("begin", {}, FALSE))
  /\ UNCHANGED <<waiting, periodVars>>

\* ... up to its first _ISR_Enable: start the period, or begin to block on it
Leave == Become(Call("test", {}, FALSE))
PeriodBegin ==
  /\ At("begin")
  /\ \/ /\ period \in {"INACTIVE", "EXPIRED"}
        /\ period' = "ACTIVE" /\ left' = Length /\ ended' = 0
        /\ Leave
     \/ /\ period = "ACTIVE"
        /\ period' = "OWNER_IS_BLOCKING"
        /\ ended' = 0
        /\ Goto("wait")
        /\ UNCHANGED left
  /\ UNCHANGED <<waiting, exists>>

\* ... _Thread_Set_state( _Thread_Executing, STATES_WAITING_FOR_PERIOD )
PeriodWait ==
  /\ At("wait")
  /\ waiting' = TRUE
  /\ Goto("look")
  /\ UNCHANGED periodVars

\* ... "Did the watchdog timer expire while we were actually blocking on it?"
BlockingAtAll == period \in Blocking
HasExpired == period = "EXPIRED_WHILE_BLOCKING"
PeriodLook ==
  /\ At("look")
  /\ period' = "ACTIVE"
  /\ IF HasExpired THEN Goto("clear") ELSE Leave
  /\ UNCHANGED <<waiting, exists, left, ended>>

\* ... _Thread_Clear_state
PeriodClear ==
  /\ At("clear")
  /\ waiting' = FALSE
  /\ Leave
  /\ UNCHANGED periodVars

\* The clock ticks; _Rate_monotonic_Timeout if that ends the period
ResetNever == 0
Reset == Length
StaysBlocked == waiting
Unblock == FALSE
Tick ==
  /\ left > 0
  /\ left = 1 /\ ended > 0 /\ Top.pc \in InDirective => LongCall
  /\ IF left > 1 THEN left' = left - 1 /\ UNCHANGED <<waiting, period, ended>>
     ELSE /\ ended' = IF ended < 2 THEN ended + 1 ELSE ended
          /\ \/ /\ waiting
                /\ waiting' = Unblock
                /\ left' = Reset
                /\ UNCHANGED period
             \/ /\ ~waiting /\ period = "OWNER_IS_BLOCKING"
                /\ period' = "EXPIRED_WHILE_BLOCKING"
                /\ left' = Length
                /\ UNCHANGED waiting
             \/ /\ ~waiting /\ period # "OWNER_IS_BLOCKING"
                /\ period' = "EXPIRED"
                /\ left' = 0
                /\ UNCHANGED waiting
  /\ UNCHANGED <<stack, exists>>

PeriodStep == PeriodBegin \/ PeriodWait \/ PeriodLook \/ PeriodClear
PeriodCalls == Create \/ Cancel \/ Delete \/ PeriodCall

-----------------------------------------------------------------------------
\* An owner that waits for its period is woken at its end and not later: it
\* never sleeps when the end has passed, the timer runs, and the state says what
\* the timer's routine has to know.  And the cases of which the directive says
\* "These should never happen" do not.
PeriodWakes ==
  /\ waiting /\ Top.pc \notin InDirective =>
       ended = 0 /\ left > 0 /\ period = "ACTIVE"
  /\ At("begin") => period \notin Blocking

\* A call that waits for the end of the period does not return before it,
\* wherever in the call the tick interrupts it.
NotBeforeTheEnd ==
  [][(waiting \/ Top.pc = "look") /\ ~waiting' => ended' > 0]_<<taskVars, periodVars>>
=============================================================================
