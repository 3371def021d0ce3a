---------------------------- MODULE MCSemaphore ----------------------------
(* Instances of CoreSemaphore for TLC. *)
EXTENDS CoreSemaphore, TLC

SemaphoreOps == {"surrender", "flush"}
Symmetry == Permutations(Threads)

\* What becomes of a thread's last call is of no interest after it.
View ==
  <<discipline, IF discipline = "FIFO" THEN NULL ELSE priority, queue, sync_state,
    state, timer, calling, executing, nest, frame, count,
    [t \in calling |-> <<return_code[t], served[t]>>]>>

\* The abstract semaphore behind the code's: a unit that is about to be added
\* to the count is available, a thread is granted one when it is taken off the
\* queue, and times out when its return_code says so.
ClientState(t) ==
  CASE t \notin calling -> "out"
    [] served[t] = "surrender" -> "granted"
    [] served[t] = "flush" -> "flushed"
    [] return_code[t] = "TIMEOUT" -> "timedout"
    [] OTHER -> "waiting"

Unstored == {l \in Pending : frame[l].pc \in {"dequeued", "client"}
                             /\ frame[l].thread = NULL}

Abstract == INSTANCE CountingSemaphore WITH
  Clients <- Threads, MaxUnits <- MaxCount,
  avail <- count + Cardinality(Unstored),
  client <- [t \in Threads |-> ClientState(t)],
  taken <- seizes, made <- deletes

\* The semaphore keeps what CountingSemaphore promises: no interleaving of
\* handlers with a thread on its way to the queue loses or invents a unit, or
\* lets a unit lie idle while a thread waits.
CountsUnits == Abstract!Spec

-----------------------------------------------------------------------------
AnyStep == ClientStep \/ (TqStep /\ UNCHANGED <<count, history>>)

\* Handlers end, the interrupted thread gets on in the end (interrupts are not
\* so frequent that the processor does nothing else), every ready thread is
\* dispatched again and again, and the clock ticks.
FairSpec ==
  /\ Spec
  /\ WF_vars(AnyStep /\ nest > 0)
  /\ SF_vars(AnyStep /\ nest = 0)
  /\ SF_vars(frame[0].pc = "blocked" /\ Dispatch /\ UNCHANGED <<queueVars, count, history>>)
  /\ \A t \in Threads : SF_vars(Expire(t) /\ UNCHANGED <<queueVars, count, history>>)

\* Every directive that has begun ends: the search for a place in the queue is
\* not restarted for ever, the flush of a deleted semaphore comes to its end.
DirectivesEnd == frame[0].pc # "idle" ~> frame[0].pc = "idle"

\* A thread that waits with a time-out does not wait for ever.
TimedWaitEnds == \A t \in Threads : timer[t] = "ACTIVE" ~> state[t] = "ready"
=============================================================================
