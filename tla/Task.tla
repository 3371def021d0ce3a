-------------------------------- MODULE Task --------------------------------
(***************************************************************************)
(* A task with an asynchronous signal routine that owns a period: the      *)
(* directives of Signal and of RateMonotonic on one stack, with the        *)
(* interrupt handlers and the other tasks that send it signals.            *)
(***************************************************************************)
EXTENDS Signal, RateMonotonic

vars == <<taskVars, signalVars, periodVars>>

Init == TaskInit /\ SignalInit /\ PeriodInit

Step == (SignalStep /\ UNCHANGED periodVars) \/ (PeriodStep /\ UNCHANGED signalVars)
TickStep == Tick /\ UNCHANGED signalVars

Next ==
  \/ Step \/ TickStep
  \/ SignalCalls /\ UNCHANGED periodVars
  \/ PeriodCalls /\ UNCHANGED signalVars

Spec == Init /\ [][Next]_vars

\* The clock ticks, and a task that runs gets on with its directive.
FairSpec == Spec /\ WF_vars(TickStep) /\ WF_vars(Step)

\* A task that waits for its period does not wait for ever, whatever signals
\* come meanwhile.
OwnerWakes == waiting ~> ~waiting
=============================================================================
