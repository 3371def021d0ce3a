---------------------------- MODULE MCScheduler ----------------------------
(* Instances of Scheduler for TLC. *)
EXTENDS Scheduler, TLC

Symmetry == Permutations(Threads \ {Idle})

RoutineStep ==
  \/ ClearStateEnd \/ SetStateEnd \/ ReadyEnd \/ SetPriority \/ Requeue
  \/ ResetPriority \/ RestartReady \/ RotateEnd

\* Routines in progress go on, the interrupted ones too; a switch that is due is
\* made; and the clock does not always tick within the routines of the handler.
FairSpec ==
  /\ Spec
  /\ WF_vars(Len(stack) = MaxNest /\ RoutineStep)
  /\ \A n \in 1 .. MaxNest - 1 : SF_vars(Len(stack) = n /\ RoutineStep)
  /\ SF_vars(Dispatch)
  /\ SF_vars(InThread /\ TickleTimeslice)

\* Time slicing shares the processor: a thread that stays among the most important
\* ready ones gets it again and again, unless one that has it is not preemptible,
\* or changes of priority (prepend_it) put others in front of it for ever.
ProcessorShared ==
  \A t \in Threads \ {Idle} :
    \/ []<>(executing = t)
    \/ []<>~(/\ IsReady(t) /\ preemptible[executing]
             /\ \A u \in Threads : IsReady(u) => priority[t] <= priority[u])
    \/ []<>(At("requeued") /\ Top.prepend)
=============================================================================
