--------------------------- MODULE CoreSemaphore ---------------------------
(***************************************************************************)
(* The counting semaphore of the SuperCore (score/src/coresem.c), as used  *)
(* by the semaphore directives (rtems/src/sem.c), on its thread queue.     *)
(***************************************************************************)
EXTENDS ThreadQueue

CONSTANTS
  MaxCount,         \* bound on the count
  AtomicIncrement   \* is "count += 1" one instruction on this processor?

ASSUME CoreSemaphoreAssumption ==
  /\ MaxCount \in Nat
  /\ AtomicIncrement \in BOOLEAN
  /\ Ops = {"surrender", "flush"}

VARIABLES
  count,   \* CORE_semaphore_Control.count
  seizes,  \* history: flips with every unit an obtain takes from the count
  deletes  \* history: flips with every delete

history == <<seizes, deletes>>
vars == <<tqVars, count, history>>

\* Every variable has a value the code gives it.
TypeOK == TqTypeOK /\ count \in 0 .. MaxCount /\ {seizes, deletes} \subseteq BOOLEAN

Init == TqInit /\ count \in 0 .. MaxCount /\ seizes = FALSE /\ deletes = FALSE

-----------------------------------------------------------------------------
Available == count # 0

\* _CORE_semaphore_Seize by the executing thread, up to its _ISR_Enable.
Seize(wait, timed) ==
  /\ Calls(0)
  /\ served' = [served EXCEPT ![executing] = "none"]
  /\ return_code' = [return_code EXCEPT ![executing] =
       IF ~Available /\ ~wait THEN "UNSATISFIED_NOWAIT" ELSE "SUCCESSFUL"]
  /\ count' = IF Available THEN count - 1 ELSE count
  /\ seizes' = IF Available THEN ~seizes ELSE seizes
  /\ UNCHANGED deletes
  /\ IF ~Available /\ wait
     THEN EnterWait(timed)
     ELSE UNCHANGED <<state, timer, calling, executing, nest, frame, queue,
                      sync_state, priority, discipline>>

\* _CORE_semaphore_Surrender, from a thread or an interrupt handler
Pending == {l \in Levels : frame[l].op = "surrender"}
Surrender(lv) ==
  /\ count + Cardinality(Pending) < MaxCount
  /\ Calls(lv)
  /\ Dequeue(lv, "surrender")
  /\ UNCHANGED <<count, history>>

\* ... a thread got the unit, or count += 1
KeptAnyway == TRUE
NobodyTookIt == frame[nest].thread = NULL
SurrenderEnd ==
  /\ At("dequeued") /\ frame[nest].op = "surrender"
  /\ \/ NobodyTookIt /\ AtomicIncrement /\ count' = count + 1 /\ Finish
     \/ /\ NobodyTookIt /\ ~AtomicIncrement
        /\ frame' = [frame EXCEPT ![nest].pc = "client", ![nest].value = count]
        /\ UNCHANGED <<nest, count>>
     \/ ~NobodyTookIt /\ Finish /\ UNCHANGED count
  /\ UNCHANGED <<state, timer, return_code, calling, executing, queueVars, history>>

\* ... the second half of the increment where it is a load and a store.
SurrenderStore ==
  /\ At("client") /\ frame[nest].op = "surrender"
  /\ count' = frame[nest].value + 1
  /\ Finish
  /\ UNCHANGED <<state, timer, return_code, calling, executing, queueVars, history>>

\* rtems_semaphore_delete: _CORE_semaphore_Flush takes the waiting threads one
\* by one (_Thread_queue_Flush) ...
Flush == Calls(0) /\ Dequeue(0, "flush") /\ UNCHANGED <<count, history>>

FlushStatus ==
  /\ At("dequeued") /\ frame[nest].op = "flush" /\ frame[nest].thread # NULL
  /\ return_code' = [return_code EXCEPT ![frame[nest].thread] = "WAS_DELETED"]
  /\ Goto("client")
  /\ UNCHANGED <<state, timer, calling, executing, queueVars, count, history>>

FlushNext ==
  /\ At("client") /\ frame[nest].op = "flush"
  /\ Dequeue(nest, "flush")
  /\ UNCHANGED <<count, history>>

\* ... and the object is closed; rtems_semaphore_create makes the next one.
FlushEnd ==
  /\ At("dequeued") /\ frame[nest].op = "flush" /\ frame[nest].thread = NULL
  /\ count' \in 0 .. MaxCount
  /\ deletes' = ~deletes
  /\ Finish
  /\ UNCHANGED <<state, timer, return_code, calling, executing, queueVars, seizes>>

ClientStep ==
  \/ SurrenderEnd \/ SurrenderStore \/ FlushStatus \/ FlushNext \/ FlushEnd

Next ==
  \/ TqNext /\ UNCHANGED <<count, history>>
  \/ \E wait, timed \in BOOLEAN : (timed => wait) /\ Seize(wait, timed)
  \/ \E lv \in Levels : Surrender(lv)
  \/ Flush
  \/ ClientStep

Spec == Init /\ [][Next]_vars

-----------------------------------------------------------------------------
\* A directive about to return, after having waited, tells its caller what
\* really happened: SUCCESSFUL only to one that was given a unit, WAS_DELETED
\* only to one that a delete took off the queue, TIMEOUT to all others.
\* (_Thread_queue_Timeout, _Thread_queue_Flush, _Thread_queue_Enqueue_*)
StatusHonest ==
  Returning =>
    return_code[executing] = CASE served[executing] = "surrender" -> "SUCCESSFUL"
                               [] served[executing] = "flush" -> "WAS_DELETED"
                               [] OTHER -> "TIMEOUT"

\* A waiting thread is on the queue, or some code is under way that puts it
\* there or unblocks it: no interleaving forgets it.  And the queue holds each
\* thread once, only waiting ones.
NoLostWaiter ==
  /\ \A t \in Threads : state[t] = "waiting" =>
       \/ t \in Queued
       \/ \E l \in 0 .. nest : frame[l].thread = t
  /\ \A t \in Queued : /\ state[t] = "waiting"
                       /\ t = executing => frame[0].pc = "blocked"
  /\ \A h \in Headers, k \in Headers :
       \A i \in DOMAIN queue[h], m \in DOMAIN queue[k] :
         \A j \in DOMAIN queue[h][i], n \in DOMAIN queue[k][m] :
           queue[h][i][j] = queue[k][m][n] => <<h, i, j>> = <<k, m, n>>

\* _Thread_queue_Dequeue_priority takes "the highest priority thread waiting on
\* the_thread_queue".
HighestFirst ==
  discipline = "PRIORITY" /\ First # NULL =>
    \A t \in Queued : priority[First] <= priority[t]

\* a is served before b if nothing happens to either.
Before(a, b) ==
  \E h \in Headers : \E i, k \in DOMAIN queue[h] :
    \E j \in DOMAIN queue[h][i], n \in DOMAIN queue[h][k] :
      /\ queue[h][i][j] = a /\ queue[h][k][n] = b
      /\ i < k \/ (i = k /\ j < n)

\* Nobody is overtaken: threads keep their order while they wait, and one that
\* comes is put behind those of its own priority (behind all, in a FIFO queue).
NotOvertaken ==
  [][\A a \in Queued : \A b \in Threads \ {a} :
       /\ {a, b} \subseteq Queued'
       /\ IF b \in Queued THEN Before(a, b)
          ELSE discipline = "FIFO" \/ priority[a] = priority[b]
       => Before(a, b)']_vars
=============================================================================
