----------------------------- MODULE TaskStack -----------------------------
(***************************************************************************)
(* What one task is in the middle of: the calls that are active on its     *)
(* stack, the innermost last.  Signal and RateMonotonic extend this module *)
(* with the code those calls run.                                          *)
(*                                                                         *)
(* The unit of atomicity is a stretch of the task's code that no interrupt *)
(* handler and no other task can look into.  Everything others do happens  *)
(* between two such steps, whether the task is interrupted or preempted.   *)
(***************************************************************************)
EXTENDS Naturals, Sequences

CONSTANT MaxStack  \* bound on the calls that are active

ASSUME TaskStackAssumption == MaxStack \in Nat \ {0}

VARIABLES
  stack,    \* the active calls of the task
  waiting   \* does its current_state keep it from running?

taskVars == <<stack, waiting>>

\* pc: where the call is; set, flag: what it has to remember
Call(pc, set, flag) == [pc |-> pc, set |-> set, flag |-> flag]
Body == Call("body", {}, FALSE)

\* Places where dispatching is disabled: an interrupt handler returns to the
\* task without a dispatch.
InDirective == {"begin", "wait", "look", "clear"}

TaskInit == stack = <<Body>> /\ waiting = FALSE

Top == stack[Len(stack)]
Below == SubSeq(stack, 1, Len(stack) - 1)
Room == Len(stack) + 1 < MaxStack  \* leaves one for the mode change of an ASR

\* The task runs, and its innermost call is at pc.  A task that is not ready
\* only runs to the end of the directive in which it blocks.
At(pc) == Top.pc = pc /\ (waiting => pc \in InDirective)

Become(call) == stack' = Append(Below, call)
Goto(pc) == Become([Top EXCEPT !.pc = pc])
Push(call) == Room /\ stack' = Append(stack, call)
Return == stack' = Below

\* The task's own code: outside all directives, in its body or in its ASR.
Application == ~waiting /\ Top.pc \in {"body", "handler"}
=============================================================================
