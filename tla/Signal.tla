------------------------------- MODULE Signal -------------------------------
(***************************************************************************)
(* Signals to a task (rtems/src/signal.c) and its asynchronous signal      *)
(* routine, the ASR, which the task runs at the end of a dispatch          *)
(* (_RTEMS_tasks_Switch_extension), with the part of rtems_task_mode that  *)
(* enables and disables it.                                                *)
(***************************************************************************)
EXTENDS TaskStack

CONSTANT Signals

VARIABLES
  handler,          \* ASR_Information.handler # NULL
  mode_set,         \* does ASR_Information.mode_set leave ASRs enabled?
  is_enabled,       \* ASR_Information.is_enabled
  signals_posted,   \* ASR_Information.signals_posted
  signals_pending,  \* ASR_Information.signals_pending
  do_post,          \* Thread_Control.do_post_task_switch_extension
  owed              \* history: signals accepted and not yet given to the ASR

asrVars == <<handler, mode_set, is_enabled>>
setVars == <<signals_posted, signals_pending, do_post, owed>>
signalVars == <<asrVars, setVars>>

\* _ASR_Initialize, from _RTEMS_tasks_Create_extension
SignalInit ==
  /\ handler = FALSE /\ mode_set = TRUE /\ is_enabled = TRUE
  /\ signals_posted = {} /\ signals_pending = {}
  /\ do_post = FALSE /\ owed = {}

-----------------------------------------------------------------------------
\* rtems_signal_catch: a handler, or _ASR_Initialize for none
Catch(present, enabled) ==
  /\ Application
  /\ handler' = present
  /\ mode_set' = (present => enabled)
  /\ is_enabled' = (present => is_enabled)
  /\ signals_posted' = IF present THEN signals_posted ELSE {}
  /\ signals_pending' = IF present THEN signals_pending ELSE {}
  /\ owed' = IF present THEN owed ELSE {}
  /\ UNCHANGED <<taskVars, do_post>>

\* _Thread_Dispatch as the task comes out of it: the end of a directive, of an
\* interrupt that dispatched, or of a time in which others ran.
Dispatch == Call("test", {}, FALSE)

\* rtems_signal_send by an interrupt handler or another task (or by several,
\* while the task itself does not run).  If it dispatches, the task runs its
\* ASR on the way back; a directive dispatches itself when it is over.
Send(s) ==
  /\ handler
  /\ owed' = owed \cup s
  /\ \/ /\ is_enabled
        /\ signals_posted' = signals_posted \cup s
        /\ do_post' = TRUE
        /\ IF waiting \/ Top.pc \in InDirective THEN UNCHANGED stack ELSE Push(Dispatch)
        /\ UNCHANGED signals_pending
     \/ /\ ~is_enabled
        /\ signals_pending' = signals_pending \cup s
        /\ UNCHANGED <<signals_posted, do_post, stack>>
  /\ UNCHANGED <<asrVars, waiting>>

\* The task is preempted, and resumed by a dispatch; it makes a difference only
\* if there is something to do then.
Preempt ==
  /\ do_post /\ ~waiting /\ Top.pc \notin InDirective \cup {"test"}
  /\ Push(Dispatch)
  /\ UNCHANGED <<waiting, signalVars>>

-----------------------------------------------------------------------------
\* rtems_task_mode with RTEMS_ASR_MASK, up to the store to is_enabled; it is
\* called by the task, and around the ASR.
Mode(enabled) == Call("mode", {}, enabled)

TaskMode(enabled) ==
  /\ Application
  /\ Push(Mode(enabled))
  /\ UNCHANGED <<waiting, signalVars>>

ModeStore ==
  /\ At("mode")
  /\ is_enabled' = Top.flag
  /\ IF Top.flag # is_enabled THEN Goto("swap") ELSE Return
  /\ UNCHANGED <<waiting, handler, mode_set, setVars>>

\* ... _ASR_Swap_signals
NoSwap == UNCHANGED <<signals_posted, signals_pending>>
Swap ==
  /\ signals_posted' = signals_pending
  /\ signals_pending' = signals_posted
ModeSwap ==
  /\ At("swap")
  /\ Swap
  /\ Goto("check")
  /\ UNCHANGED <<waiting, asrVars, do_post, owed>>

\* ... and dispatch if there are signals to be processed now.
ModeCheck ==
  /\ At("check")
  /\ IF signals_posted # {} THEN do_post' = TRUE /\ Become(Dispatch)
     ELSE Return /\ UNCHANGED do_post
  /\ UNCHANGED <<waiting, asrVars, signals_posted, signals_pending, owed>>

-----------------------------------------------------------------------------
\* The end of _Thread_Dispatch: test and clear do_post_task_switch_extension
DispatchTest ==
  /\ At("test")
  /\ IF do_post THEN Goto("reset") ELSE Return
  /\ UNCHANGED <<waiting, signalVars>>

DispatchReset ==
  /\ At("reset")
  /\ do_post' = FALSE
  /\ Goto("post")
  /\ UNCHANGED <<waiting, asrVars, signals_posted, signals_pending, owed>>

\* _RTEMS_tasks_Switch_extension: take the signals, ...
SwitchTake ==
  /\ At("post")
  /\ IF signals_posted = {} THEN Return
     ELSE Become(Call("enter", signals_posted, FALSE))
  /\ signals_posted' = {}
  /\ UNCHANGED <<waiting, asrVars, signals_pending, do_post, owed>>

\* ... rtems_task_mode( asr->mode_set, RTEMS_ALL_MODE_MASKS, &prev_mode ), ...
SwitchEnter ==
  /\ At("enter")
  /\ stack' = Below \o <<[Top EXCEPT !.pc = "call", !.flag = is_enabled],
                          Mode(mode_set)>>
  /\ UNCHANGED <<waiting, signalVars>>

\* ... call the handler ...
SwitchCall ==
  /\ At("call")
  /\ owed' = owed \ Top.set
  /\ Goto("handler")
  /\ UNCHANGED <<waiting, asrVars, signals_posted, signals_pending, do_post>>

\* ... and go back to the mode before, once it returns.
SwitchLeave ==
  /\ At("handler")
  /\ Become(Mode(Top.flag))
  /\ UNCHANGED <<waiting, signalVars>>

SignalStep ==
  \/ ModeStore \/ ModeSwap \/ ModeCheck
  \/ DispatchTest \/ DispatchReset
  \/ SwitchTake \/ SwitchEnter \/ SwitchCall \/ SwitchLeave

SignalCalls ==
  \/ \E present, enabled \in BOOLEAN : Catch(present, enabled)
  \/ \E enabled \in BOOLEAN : TaskMode(enabled)
  \/ \E s \in SUBSET Signals \ {{}} : Send(s)
  \/ Preempt

-----------------------------------------------------------------------------
\* The signals a call has taken and not yet given to the handler.
InHand == UNION {stack[i].set : i \in {j \in DOMAIN stack :
                   stack[j].pc \in {"enter", "call"}}}

\* No signal is lost between a send, the mode changes and the ASR: one that was
\* accepted is posted, pending or in the hands of a dispatch until the handler
\* gets it.  And when the task is back in its body none is left behind: with
\* ASRs enabled all have been handled, with ASRs disabled they are kept where
\* the next mode change finds them.
SignalsKept ==
  /\ owed \subseteq signals_posted \cup signals_pending \cup InHand
  /\ stack = <<Body>> /\ ~waiting =>
       signals_posted = {} /\ (is_enabled => signals_pending = {})
=============================================================================
