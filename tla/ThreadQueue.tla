---------------------------- MODULE ThreadQueue ----------------------------
(***************************************************************************)
(* A thread queue (score/src/threadq.c): threads block on it at thread     *)
(* level, with an optional time-out; threads and interrupt handlers take   *)
(* them off it again.  The objects built on it (CoreSemaphore) extend this *)
(* module with their own state and the calls they make.                    *)
(***************************************************************************)
EXTENDS Blocking, Sequences

CONSTANTS
  Priorities,         \* Priority_Control values, 0 the most important
  PerHeader,          \* TASK_QUEUE_DATA_PRIORITIES_PER_HEADER (64)
  Disciplines,        \* the disciplines a queue may have: "FIFO", "PRIORITY"
  Unroll,             \* CPU_UNROLL_ENQUEUE_PRIORITY
  MayChangePriority,  \* do threads change the priorities of others?
  Ops                 \* names of the operations of the object

ASSUME ThreadQueueAssumption ==
  /\ Priorities \subseteq Nat
  /\ PerHeader \in Nat \ {0}
  /\ Disciplines \subseteq {"FIFO", "PRIORITY"}
  /\ Unroll \in BOOLEAN
  /\ MayChangePriority \in BOOLEAN
  /\ "timeout" \notin Ops /\ "none" \notin Ops

VARIABLES
  queue,       \* Queues: for each header, its groups of equal priority
  sync_state,  \* Thread_queue_Control.sync_state
  priority,    \* Thread_Control.current_priority
  served,      \* history: the operation that took the thread off the queue
  discipline   \* Thread_queue_Control.discipline

queueVars == <<queue, sync_state, priority, served, discipline>>
tqVars == <<threadVars, queueVars>>

\* _Thread_queue_Header_number
Header(p) == IF discipline = "FIFO" THEN 0 ELSE p \div PerHeader
Headers == {0} \cup {p \div PerHeader : p \in Priorities}

\* Places where code stops with interrupts enabled:
\*   idle                       outside the thread queue handler
\*   block, timer, enqueue, flash, blocked    in _Thread_queue_Enqueue
\*   remove, unblock            a thread was taken: stop its timer, unblock it
\*   dequeued                   _Thread_queue_Dequeue has returned
\*   timeout, sync, mark, expired, extract    in _Thread_queue_Timeout
\*   client, count, store, link, free        in the code of the object
Places == {"idle", "block", "timer", "enqueue", "flash", "blocked", "remove",
           "unblock", "dequeued", "timeout", "sync", "mark", "expired",
           "extract", "client", "count", "store", "link", "free"}
Statuses == {"SUCCESSFUL", "TIMEOUT", "UNSATISFIED_NOWAIT", "WAS_DELETED"}

TqTypeOK ==
  /\ ThreadTypeOK(Places, Ops, Statuses)
  /\ queue \in [Headers -> Seq(Seq(Threads))]
  /\ sync_state \in SyncStates
  /\ priority \in [Threads -> Priorities]
  /\ served \in [Threads -> Ops \cup {"none"}]
  /\ discipline \in Disciplines

\* _Thread_queue_Initialize
TqInit ==
  /\ ThreadInit
  /\ discipline \in Disciplines
  /\ queue = [h \in Headers |-> << >>]
  /\ sync_state = "SYNCHRONIZED"
  /\ priority \in [Threads -> Priorities]
  /\ served = [t \in Threads |-> "none"]

-----------------------------------------------------------------------------
\* The queue: in each header a sequence of groups, the first thread of a group
\* on the header's chain, the others on its Block2n chain.

Members(h) == UNION {{queue[h][i][j] : j \in DOMAIN queue[h][i]}
                                     : i \in DOMAIN queue[h]}
Queued == UNION {Members(h) : h \in Headers}

Min(S) == CHOOSE x \in S : \A y \in S : x <= y
Used == {h \in Headers : queue[h] # << >>}

\* The thread to be served next: _Thread_queue_First
LastHeader == CHOOSE h \in Used : \A k \in Used : h >= k
FirstHeader == Min(Used)
First == IF Used = {} THEN NULL ELSE queue[FirstHeader][1][1]

\* Where t is: its header, its group there, its place in the group.
HeaderOf(t) == CHOOSE h \in Headers : t \in Members(h)
GroupWith(h, t) ==
  CHOOSE i \in DOMAIN queue[h] : \E j \in DOMAIN queue[h][i] : queue[h][i][j] = t
PlaceIn(g, t) == CHOOSE j \in DOMAIN g : g[j] = t

Dropped(s, i) == SubSeq(s, 1, i - 1) \o SubSeq(s, i + 1, Len(s))

\* Header h without t; the next of a group takes the place of its first.
HeaderWithout(h, t) ==
  LET i == GroupWith(h, t)
      g == queue[h][i]
  IN IF Len(g) = 1 THEN Dropped(queue[h], i)
     ELSE [queue[h] EXCEPT ![i] = Dropped(g, PlaceIn(g, t))]

Unlinked(t) ==
  IF t \in Queued
  THEN [queue EXCEPT ![HeaderOf(t)] = HeaderWithout(HeaderOf(t), t)]
  ELSE queue

\* The thread that heads group i, and the index of the group that t heads
\* (0 if t heads none: its links lead nowhere).
GroupOf(h, t) ==
  LET at == {i \in DOMAIN queue[h] : queue[h][i][1] = t}
  IN IF at = {} THEN 0 ELSE Min(at)
Leader(h, i) == IF i \in DOMAIN queue[h] THEN queue[h][i][1] ELSE NULL

InFront(s, x) == <<x>> \o s
Behind(s, x) == Append(s, x)
InsertAt(s, i, x) == SubSeq(s, 1, i - 1) \o <<x>> \o SubSeq(s, i, Len(s))

-----------------------------------------------------------------------------
\* A thread is on its way to the queue and has not been satisfied.
OnItsWay == sync_state \in {"NOTHING_HAPPENED", "TIMEOUT"}
Told == "SATISFIED"

\* _Thread_queue_Dequeue, called at level lv by operation op, up to its
\* _ISR_Enable.  A thread that is still on its way to the queue is satisfied by
\* telling it so.
Dequeue(lv, op) ==
  /\ \/ /\ First # NULL
        /\ queue' = Unlinked(First)
        /\ Take(lv, op, First, "dequeued")
        /\ served' = [served EXCEPT ![First] = op]
        /\ UNCHANGED sync_state
     \/ /\ First = NULL
        /\ sync_state' = IF OnItsWay THEN Told ELSE sync_state
        /\ served' = IF OnItsWay THEN [served EXCEPT ![executing] = op] ELSE served
        /\ Begin(lv, [IdleFrame EXCEPT !.pc = "dequeued", !.op = op,
                        !.thread = IF OnItsWay THEN executing ELSE NULL])
        /\ UNCHANGED <<queue, timer>>
  /\ UNCHANGED <<state, return_code, calling, executing, priority, discipline>>

\* _Thread_queue_Extract of thread t at the current level, by operation op.
Extract(op, t) ==
  /\ \/ /\ state[t] = "waiting"
        /\ queue' = Unlinked(t)
        /\ Take(nest, op, t, "idle")
     \/ state[t] # "waiting" /\ Finish /\ UNCHANGED <<queue, timer>>
  /\ UNCHANGED <<state, return_code, executing, sync_state, priority, served,
                 discipline>>

-----------------------------------------------------------------------------
\* _Thread_queue_Enqueue of the executing thread.

\* _Thread_queue_Enter_critical_section; the object's code does this with
\* interrupts disabled, when it finds that the thread has to wait.
EnterWait(timed) ==
  /\ sync_state' = "NOTHING_HAPPENED"
  /\ calling' = calling \cup {executing}
  /\ Begin(0, [IdleFrame EXCEPT !.pc = "block", !.thread = executing,
                                !.timed = timed])
  /\ UNCHANGED <<state, timer, executing, queue, priority, discipline>>

\* Block, then start the timer if there is a time-out, then enqueue.
EnqueueBegin ==
  /\ \/ Block(IF frame[0].timed THEN "timer" ELSE "enqueue")
     \/ StartTimer("enqueue")
  /\ UNCHANGED queueVars

\* Something happened to the thread on its way to the queue.  Finding the
\* queue SYNCHRONIZED is the case the code says should never happen.
Synchronize ==
  /\ sync_state # "NOTHING_HAPPENED"
  /\ sync_state' = "SYNCHRONIZED"
  /\ \/ /\ sync_state = "SATISFIED"
        /\ Take(0, "none", executing, "blocked")
        /\ UNCHANGED return_code
     \/ /\ sync_state # "SATISFIED"
        /\ return_code' = [return_code EXCEPT ![executing] =
             IF sync_state = "TIMEOUT" THEN "TIMEOUT" ELSE @]
        /\ Begin(0, [frame[0] EXCEPT !.pc = "unblock", !.after = "blocked"])
        /\ UNCHANGED timer
  /\ UNCHANGED <<state, calling, executing, queue, priority, discipline, served>>

\* The thread is put on the queue: q is the queue with the thread on it.
Link(q) ==
  /\ sync_state = "NOTHING_HAPPENED"
  /\ sync_state' = "SYNCHRONIZED"
  /\ queue' = q
  /\ Goto("blocked")
  /\ UNCHANGED <<state, timer, return_code, calling, executing, priority, served,
                 discipline>>

\* _Thread_queue_Enqueue_fifo
EnqueueFifo ==
  /\ At("enqueue") /\ discipline = "FIFO"
  /\ Synchronize \/ Link([queue EXCEPT ![0] = Behind(@, <<executing>>)])

\* Where executing belongs in header h: the search passes the groups in the
\* direction Step and stops at the first index that is not passed.
MyHeader == Header(priority[executing])
\* _Thread_queue_Is_reverse_search
Reverse == priority[executing] % PerHeader >= PerHeader \div 2
Step(i) == IF Reverse THEN i - 1 ELSE i + 1
PassesPriority(p) == IF Reverse THEN priority[executing] < p
                                ELSE priority[executing] > p
Passes(i) ==
  /\ i \in DOMAIN queue[MyHeader]
  /\ PassesPriority(priority[Leader(MyHeader, i)])

\* The queue with executing in the place where the search stopped: a member of
\* the group of its priority, or a group of its own.
Placed(i) ==
  LET q == queue[MyHeader]
      equal == i \in DOMAIN q /\ priority[Leader(MyHeader, i)] = priority[executing]
  IN [queue EXCEPT ![MyHeader] =
        IF equal THEN [q EXCEPT ![i] = Behind(@, executing)]
        ELSE InsertAt(q, IF Reverse THEN i + 1 ELSE i, <<executing>>)]

\* The search from index i up to the next _ISR_Flash, or to its end.
Search(i) ==
  LET at == IF Unroll /\ Passes(i) THEN Step(i) ELSE i
  IN \/ ~Passes(at) /\ (Synchronize \/ Link(Placed(at)))
     \/ /\ Passes(at)
        /\ Begin(0, [frame[0] EXCEPT !.pc = "flash",
                                     !.search = Leader(MyHeader, at)])
        /\ UNCHANGED <<state, timer, return_code, calling, executing, queueVars>>

\* _Thread_queue_Enqueue_priority, from restart_forward_search or
\* restart_reverse_search
EnqueuePriority ==
  /\ At("enqueue") /\ discipline = "PRIORITY"
  /\ Search(IF Reverse THEN Len(queue[MyHeader]) ELSE 1)

\* After the flash: is the thread that the search has reached still waiting?
NeverThere == FALSE
StillThere == state[frame[0].search] = "waiting"
ResumeSearch ==
  /\ At("flash")
  /\ \/ /\ ~StillThere
        /\ Goto("enqueue")
        /\ UNCHANGED <<state, timer, return_code, calling, executing, queueVars>>
     \/ StillThere /\ Search(Step(GroupOf(MyHeader, frame[0].search)))

-----------------------------------------------------------------------------
\* _Thread_queue_Timeout, called by the clock tick.

\* Is the thread still blocking?  Then it will look at sync_state itself.
NeverBlocking(t) == FALSE
SomeoneBlocking(t) == sync_state # "SYNCHRONIZED"
StillBlocking(t) == sync_state # "SYNCHRONIZED" /\ executing = t
InAnyCase == TRUE
NotSatisfied == sync_state # "SATISFIED"

TimeoutTest ==
  \/ /\ At("timeout")
     /\ Goto(IF StillBlocking(frame[nest].thread) THEN "sync" ELSE "expired")
     /\ UNCHANGED <<state, timer, return_code, calling, executing, queueVars>>
  \/ /\ At("sync")
     /\ IF NotSatisfied THEN Goto("mark") ELSE Finish
     /\ UNCHANGED <<state, timer, return_code, calling, executing, queueVars>>

TimeoutMark ==
  /\ At("mark")
  /\ sync_state' = "TIMEOUT"
  /\ Finish
  /\ UNCHANGED <<state, timer, return_code, calling, executing, queue, priority,
                 served, discipline>>

TimeoutStatus ==
  /\ At("expired")
  /\ return_code' = [return_code EXCEPT ![frame[nest].thread] = "TIMEOUT"]
  /\ Goto("extract")
  /\ UNCHANGED <<state, timer, calling, executing, queueVars>>

\* ... also the step of a Restart that takes the thread out of its call
ExtractStep ==
  /\ At("extract")
  /\ Extract(frame[nest].op, frame[nest].thread)
  /\ calling' = IF frame[nest].op = "timeout" THEN calling
                ELSE calling \ {frame[nest].thread}

-----------------------------------------------------------------------------
\* The executing thread restarts another (_Thread_Restart), or deletes it
\* (_Thread_Close) and creates it again.
Restart(t) ==
  /\ Calls(0) /\ t \in calling
  /\ Begin(0, [IdleFrame EXCEPT !.pc = "extract", !.thread = t])
  /\ UNCHANGED <<state, timer, return_code, calling, executing, queueVars>>

\* The executing thread changes the priority of a thread
\* (_Thread_Change_priority); a waiting thread keeps its place.
ChangePriority(t, p) ==
  /\ MayChangePriority /\ Calls(0)
  /\ priority' = [priority EXCEPT ![t] = p]
  /\ UNCHANGED <<threadVars, queue, sync_state, served, discipline>>

\* The steps of code that is under way.
TqStep ==
  \/ (RemoveTimer \/ Unblock) /\ UNCHANGED queueVars
  \/ EnqueueBegin \/ EnqueueFifo \/ EnqueuePriority \/ ResumeSearch
  \/ TimeoutTest \/ TimeoutMark \/ TimeoutStatus \/ ExtractStep

TqNext ==
  \/ TqStep
  \/ (Dispatch \/ Return) /\ UNCHANGED queueVars
  \/ \E t \in Threads : Expire(t) /\ UNCHANGED queueVars
  \/ \E t \in Threads : Restart(t)
  \/ \E t \in Threads, p \in Priorities : ChangePriority(t, p)
=============================================================================
