# A TLA+ verification of the RTEMS 3.6 executive

RTEMS is a real-time executive for one CPU per node.  This project models the
parts of `src/c/src/exec` in which the order of events matters, checks them on
small instances with TLC, and proves the central properties for instances of any
size with TLAPS.  `PROJECT.json` lists the runs, the theorems, the hazards and,
for every definition, the lines of C it stands for.

## The system

`score/` (the SuperCore) implements threads and everything they block on;
`rtems/` (the classic API), `posix/` and `sapi/` are built on it.  Two kinds of
code run on a node:

* **threads**, one at a time.  A directive raises
  `_Thread_Dispatch_disable_level`, so no other thread runs until it lowers it;
* **interrupt handlers**, which may run between any two instructions at which
  interrupts are enabled, nest, and run to completion.  The clock tick, time-outs
  and device handlers call the same operations as threads do.

The SuperCore protects its data by disabling interrupts for a few instructions
at a time.  Long operations (searching a delta chain, enqueuing a thread in
priority order) open the window again with `_ISR_Flash` and re-validate what
they know afterwards: `_Watchdog_Sync_count` and `_Watchdog_Sync_level`,
`sync_state` of a thread queue, `_Event_Sync_state`.  These protocols are the
hard part of the program: they only go wrong when an interrupt arrives in one
particular window.

| Part | Hard behaviour | Modelled in |
|---|---|---|
| Watchdog handler (`watchdog.c`) | an insertion interrupted by removals, insertions and ticks at any depth | `Watchdog`, `TimeOfDay` |
| Thread queues (`threadq.c`) | a thread is satisfied, timed out or extracted while it is still enqueuing itself | `ThreadQueue` |
| Counting semaphores (`coresem.c`) | units lost or given twice | `CoreSemaphore` |
| Mutexes (`coremutex.c`) | inheritance, ceilings, hand-off | `CoreMutex` |
| Message queues (`coremsg.c`, `msg.c`) | buffers in transit, sends by handlers, deletion | `CoreMessage` |
| Events (`event.c`) | a send against a time-out against the receiver itself | `Event` |
| Threads, scheduler (`thread.c`) | heir and pending switch with handlers at each flash | `Scheduler` |
| Signals and ASRs (`signal.c`, `tasks.c`) | posting against enabling against the dispatch | `Signal`, `Task` |
| Periods (`ratemon.c`) | the call that waits against the end of the period | `RateMonotonic`, `Task` |
| Time of day, timers (`tod.c`, `clock.c`, `timer.c`) | setting the clock while things wait for it | `TimeOfDay` |
| Heap, regions, malloc (`heap.c`, `region.c`, `malloc.c`) | coalescing; who is served when memory comes back | `Heap`, `Region` |
| Multiprocessing (`mpci.c`, `threadmp.c`, `semmp.c`) | requests, proxies and answers against deletion and time-outs | `RemoteSemaphore` |
| POSIX signals (`psignal.c`) | noticing a signal; masks under nested handlers | `PosixSignals` |

Objects and their tables, partitions, dual-ported memory, extensions, the I/O
manager, initialization, the rest of the POSIX API, the CPU ports and the ported
libraries are not modelled; `PROJECT.json` gives the reason for each under
`components`, and says of each part above what is left out of it.

## Modules

A step is code that runs with interrupts disabled, or code between two points at
which nothing another actor does can matter.  Handlers interleave between steps,
nest up to a bound and run to completion, innermost first; `frame[l]` (or a
stack) is what level `l` is in the middle of.  A Boolean constant names each
assumption about the environment.

| Module | Stands for | State and actions |
|---|---|---|
| `Watchdog` | `watchdog.c` | The ticks chain link by link, deltas, the two synchronisation counters, a frame per level.  Insert with every flash, Remove, Reset, Deactivate, Tickle and the routines it calls. |
| `IntervalTimers` | what watchdogs promise | Timers that count down together and fire at zero. |
| `Blocking` | `thread.c`, `watchdog.inl`, dispatching | What everything a thread can wait for has in common: states, the timer of a wait, the executing thread, frames, dispatching. |
| `ThreadQueue` | `threadq.c` | Extends `Blocking`.  FIFO and priority queues (headers, groups of equals), `sync_state`, the search in both directions, Dequeue, Extract, Timeout. |
| `CoreSemaphore` | `coresem.c`, `sem.c` | Extends `ThreadQueue`: Seize, Surrender, Flush. |
| `CountingSemaphore` | what a semaphore promises | Units are taken, given and handed to waiters. |
| `CoreMessage` | `coremsg.c`, `msg.c` | Extends `ThreadQueue`: buffers, pending messages and their count; send, urgent, broadcast, receive, flush, delete, create, statement by statement where interrupts are enabled. |
| `MessageChannel` | what a message queue promises | A bounded channel whose messages are neither lost, doubled nor reordered. |
| `Event` | `event.c` | Extends `Blocking`: receive, send, time-out, `_Event_Sync_state`. |
| `CoreMutex` | `coremutex.c`, priorities, restart | Holders, nesting, wait queues, `resource_count`, real and current priorities.  A directive is a step: the windows of the wait itself are `ThreadQueue`'s subject. |
| `Scheduler` | `thread.c`, `priority.inl`, parts of `tasks.c` | Ready chains, two-level bit map, heir, pending switch, the routines in progress. |
| `TaskStack`, `Signal`, `RateMonotonic`, `Task` | `signal.c`, `asr.inl`, `tasks.c`, `ratemon.c` | One task with its stack of calls and signal routines; signals sent to it; its period; `Task` composes them. |
| `TimeOfDay` | `tod.c`, `clock.c`, `timer.c`, `_Watchdog_Adjust` | Calendar, seconds, the chain of seconds, timers and tasks that wait for a time of day, a `_TOD_Set` in progress. |
| `Heap` | `heap.c` | Boundary tags and the free chain in an array of words. |
| `Region` | `region.c`, `malloc.c` | Threads that get, wait for and return segments of a `Heap`; malloc, realloc and free that extend it. |
| `RemoteSemaphore` | `mpci.c`, `threadmp.c`, `semmp.c`, `objectmp.c` | A global semaphore, tasks of other nodes, packets, proxies, the receive server. |
| `PosixSignals` | `psignal.c` | Pending sets, masks, actions, queued signals, sigtimedwait, handlers that nest. |

`MC*` modules instantiate these for TLC; `*Proofs` modules hold the theorems.  A
definition that differs from the next one by a plausible slip (`NotShortened`
before `Shortened`) is there so that the properties can be seen to notice it.

## What the runs show

All runs pass.

| Run | Properties | What it shows | States |
|---|---|---|---|
| `watchdog` | `SearchValid`, `ChainLinked`, `CountsDown`, `EveryWatchdogEnds` | Whatever interrupts what, the chain keeps its structure, a search resumes only with a valid node and count, the chain implements `IntervalTimers`, and no watchdog stays active for ever. | 0.73 M |
| `semaphore_service` | `StatusHonest`, `NoLostWaiter`, `HighestFirst`, `NotOvertaken` | A thread satisfied, timed out, flushed or restarted while it enqueues itself gets one honest status and is not forgotten; queues stay in order. | 1.8 M |
| `semaphore_refines` | `CountsUnits`, `DirectivesEnd`, `TimedWaitEnds` | The semaphore implements `CountingSemaphore`; directives and timed waits end. | 0.18 M |
| `event_wakeup` | `NoMissedWakeup`, `ReturnsCondition` | No receiver sleeps on events it has; what a successful receive returns satisfies its condition. | 3.1 M |
| `mutex_priorities` | `HolderInherits`, `HolderAtCeiling`, `InheritanceEnds`, `NoIdleMutex` | For every pair of disciplines priorities are raised and lowered as promised (a ceiling does not raise the creator that holds the mutex from the start), and holders and queues agree although anybody releases, waits time out and counts wrap. | 1.3 M |
| `scheduler` | `ChainsExact`, `HeirIsHighest`, `NoMissedPreemption`, `ProcessorShared` | Chains, heir and pending switch survive handlers at every flash; time slices are shared. | 0.49 M |
| `messages` | `BuffersAccounted`, `DeleteLeavesNobody`, `CarriesMessages` | No buffer is lost, a deleted queue leaves nobody waiting, the queue implements `MessageChannel`. | 0.84 M |
| `tasks` | `SignalsKept`, `PeriodWakes`, `NotBeforeTheEnd`, `OwnerWakes` | Signals reach the routine, nested runs included; the end of a period wakes its owner, not earlier and not later. | 0.50 M |
| `region` | `SegmentsExact`, `WaitersHaveHope`, `MemoryBeyond` | The heap is sound, no segment is lost or given twice, nobody waits for an empty region, memory from sbrk is not lost. | 0.50 M |
| `remote` | `OneAnswerDue`, `UnitsConserved`, `ProxiesFollow`, `RequestsEnd` | Until a waiting task times out or is restarted, each remote wait has one request, proxy or answer under way, units are conserved, and requests end; a deleted task leaves no proxy if its node has registered the extract call-out. | 0.31 M |
| `posix_signals` | `DirectedNoticed`, `NoMissedDirected`, `MaskRestored` | A signal sent to a thread is noticed, nobody sleeps on one that was there when it looked, handlers give back the mask they found. | 9.2 M |
| `time_of_day` | `TimeAgrees`, `Punctual` | Calendar and seconds agree; nothing that waits for a time of day goes off before it, and exactly then if the clock is not changed in the middle of the call; a timer that a handler arms while the clock is being set back is early by no more than that. | 2.0 M |

### Assumptions that carry weight

The runs hold under their settings.  Changing one constant of a configuration
shows what depends on it; TLC then reports:

| Configuration | Change | Broken | What happens |
|---|---|---|---|
| `Watchdog_timing` | `TickInterruptible = TRUE` | `CountsDown` | A handler in the middle of `_Watchdog_Tickle` removes the first watchdog: Tickle decrements a delta that is zero, the state its comment says should never occur. |
| `Watchdog_timing` | `EntryRace = TRUE` | `ChainLinked` | A handler operates on a watchdog between the entry of its `_Watchdog_Insert` and the search. |
| `Semaphore_service` | `TickInterruptible = TRUE`, `MaxNest = 2`, two threads | `StatusHonest` | `_Thread_queue_Timeout` overwrites the status of a thread a nested handler has just served. |
| `Semaphore_service` | `MayChangePriority = TRUE` | `HighestFirst` | A waiter whose priority changes keeps its place. |
| `Semaphore_refines` | `AtomicIncrement = FALSE` | `CountsUnits` | Two releases, one inside the other's `count += 1`: a unit is lost. |
| `Message_queue` | `AtomicIncrement = FALSE` | `BuffersAccounted` | The same for `number_of_pending_messages += 1`. |
| `Mutex_priorities` | `HoldAndWait = TRUE` | `HolderInherits` | A waiting thread that inherits a priority does not pass it on. |
| `Mutex_priorities` | `SetWaiting = TRUE` | `HolderAtCeiling` | A waiter is raised to the ceiling when it is enqueued; setting its priority takes that away. |
| `Scheduler_dispatch` | `HandlersSuspend = TRUE` | `HeirIsHighest` | A handler suspends the thread being readied at its flash: a suspended thread becomes heir. |
| `Task` | `LongCall = TRUE` or `DeleteWaited = TRUE` | `PeriodWakes` | A call that lasts a whole period, or a period deleted while its owner waits. |
| `Region` | a size of 14, `maximum_segment_size` | `WaitersHaveHope` | A segment of the maximum size the region was told never fits, even when the region is empty. |
| `Region` | `PageSize = 3` | `SegmentsExact` | Page sizes that are not a multiple of the header's alignment. |
| `Remote` | `IsrRelease = TRUE` | `OneAnswerDue`, `UnitsConserved`, `RequestsEnd` | A handler releases while the receive server is enqueuing a proxy. |
| `Remote` | `MaxCreates = 2` | `UnitsConserved` | Releases sent for the deleted semaphore reach the one created after it. |

Other places where the models behave as the code does, and the code does not do
what a reader may expect:

* `event.c:294`, `:377`: a tick and then a send while the receiver is about to
  block, and the receive reports TIMEOUT although its events were taken;
  `event.c:317`: of two sends in that window the second overwrites the
  `event_out` of the first.
* `coremutex.c:61`: a mutex created locked makes its creator the holder and does
  not raise it to the ceiling (`HolderAtCeiling` is about the mutexes that are not
  in `created`: those held from their creation until the first release).
* `coremutex.c`: an inherited priority stays when the mutex released last is a
  FIFO mutex (`InheritanceEnds` is therefore about inheritance mutexes only).
* `coremutex.c:153`: a global binary semaphore does not exclude tasks of other
  nodes from each other: the receive server holds it for all of them and nests
  (`RemoteSemaphore!MutualExclusion`).
* A task whose remote wait times out, or which is restarted, leaves its request
  behind, and the answer finds it elsewhere: hence the conditions of the remote
  properties (`Undisturbed`).
* `threadq.c:192`: a task that is deleted in a remote wait takes its proxy along
  only if the extract call-out of the class is registered on its own node, which
  the creation of any local semaphore does (`threadq.c:53`; `libio.c:123` creates
  one).  `RemoteSemaphore` starts with and without it, and `ProxiesFollow` is about
  the nodes that have it (`callouts`).
* `rtems_region_extend` does not serve waiters; a head of the queue that times out
  leaves waiters behind it that could be served.
* `psignal.c:847`: sigtimedwait takes a pending process signal and blocks all the
  same; `:210` counts a pending signal down even if there is none; `:1197` returns
  with dispatching disabled.
* `psignal.c:835` to `:875`: a signal that an interrupt handler or, before `:869`,
  another thread sends to a thread between its look at the pending set and its wait
  is slept through.  `NoMissedDirected` lets a sleeping thread have such signals
  (`unseen`) and no others.
* `psignal.c:1281`, marked `XXX critical section`: `signals_pending |=` is taken to
  be one instruction.  As a load and a store it loses the signals an interrupt
  handler sends in between, and `DirectedNoticed` with them.
* `tod.c:88` to `:98`: the chain of seconds is set back before the clock is.  A
  handler that calls `rtems_timer_fire_when` in between reckons with the old time,
  and the timer goes off early, by what the clock is set back (`early`).
* `tod.c:93`: `ticks` may reach `Ticks_per_second` after the clock is set;
  `tod.c:137`: the year 2100 is taken for a leap year.

### Bounds

| Module | Instance |
|---|---|
| `Watchdog` | two watchdogs, intervals 1 and 2, handlers two deep |
| `CoreSemaphore` | four threads with priorities 0, 1, 2 (searched from the front, two at a time) and 9 (another header), one level of handlers; two threads with priorities 2, 3 (searched from the rear) and two levels; two units, so that a release comes inside a release |
| `CoreMessage` | three threads, one level of handlers, two buffers, messages shorter than, as long as and longer than the maximum |
| `Event` | two threads, two events, handlers two deep |
| `CoreMutex` | three threads, two mutexes, one nestable to depth 2, two priorities |
| `Scheduler` | the idle thread and three more, priorities 0 to 2 in two words of the bit map, routines two deep |
| `Task` | two signals, calls and routines four deep, a period of two ticks |
| `TimeOfDay` | a timer and two tasks, the ends of a leap February and of a year before a leap year, two ticks a second, three seconds after each setting |
| `Region` | three threads, segments of two sizes, a heap of 18 words and room to extend it by two steps |
| `RemoteSemaphore` | a local task and two of one other node, two units, one creation, one mishap, one request after it |
| `PosixSignals` | two threads, an ordinary and a real-time signal, masks empty and full, stacks of four and two, three calls |

Each protocol involves the one who is interrupted, the one who interrupts, and
one or two who are already queued, so these are enough for every window.
`PerHeader` (64 in the code) and `GroupSize` (16) are small so that both the
inside and the border of a group occur.  `Modulus` stands for 2^32: counters wrap
in the same way, only sooner.  `MaxNest`, `MaxDepth`, `MaxStack`, `MaxCount`,
`MaxCalls`, `MaxTicks`, `MaxRearms`, `MaxMishaps`, `MaxLater` and `Horizon` bound
nesting, units and the length of histories.  Symmetry is used for safety runs
only.  Deadlock is checked in every run but those of the mutexes and the remote
semaphore, where tasks that wait for each other are the application's affair, and
of the POSIX signals, where both threads may wait for a signal nobody sends.

### Fairness

Code that runs goes on running, also code that was interrupted: handlers end and
do not take the whole processor.  The clock goes on ticking, service routines
return, and a switch that is due is made.  In `remote` every node's receive
server, its most urgent task, runs, and who holds a unit gives it back.
`ProcessorShared` excludes threads that are put in front of others for ever by
changes of priority (`prepend_it`): those really starve their equals.

### What the models leave to the environment

Besides the constants above: in `TimeOfDay` interrupt handlers do not interrupt
the clock tick, and a handler leaves alone a timer that a task is just arming; an
operation on a watchdog chain is one step (its windows are `Watchdog`'s subject).
`IntervalLimit` stands for 2^32; it is larger than any interval between the
instance's times of day, the clock set back once included, so that an interval
wraps only where the code's would.  The view of `MCTime` leaves out what a
watchdog that is on no chain last waited for; that of `MCRegion` leaves out the
words of the heap that are written before they are read.  `PosixSignals` has one
dispatch at the end of an interrupt that asked for it
(`_ISR_Signals_to_thread_executing`), where dispatching is enabled; where it is
disabled the thread's own `_Thread_Enable_dispatch` follows.

## What is proved

The theorems hold for any number of threads, watchdogs, mutexes, messages,
signals, any intervals and priorities and any depth of nesting.  Each rests on an
inductive invariant that is stated in the module of the theorem or of the
component, was checked with TLC first, and is shown to hold initially and to be
kept by each action.

| Theorem | Shows | Assumes |
|---|---|---|
| `WatchdogProofs!StructureCorrect` | `ChainLinked`, and that `_Watchdog_Sync_count` counts the insertions in progress | no `EntryRace` |
| `WatchdogProofs!SearchesStayValid` | `SearchValid`, and `DeltasExact`: what a watchdog has to wait is its delta behind the one before it | also, that nothing interrupts the clock tick |
| `WatchdogProofs!ChainCountsDown` | the chain implements `IntervalTimers` | the same |
| `EventProofs!WakeupNotMissed`, `WaitReturnsCondition` | `NoMissedWakeup`, `ReturnsCondition` | nothing |
| `MessageProofs!DeleteStrandsNobody` | `DeleteLeavesNobody`, with time-outs, restarts and sends by handlers at every window of `_Thread_queue_Enqueue` | nothing |
| `MessageProofs!NoBufferLost`, `ReceiveFindsMessage` | `BuffersAccounted`; a receive that finds the count positive finds a message | `AtomicIncrement` |
| `SchedulerProofs!ReadyChainsExact`, `HeirHighest`, `PreemptionNotMissed` | `ChainsExact`, `HeirIsHighest`, `NoMissedPreemption` | handlers do not suspend threads |
| `MutexProofs!NobodyStranded` | `NoIdleMutex` | nothing |
| `MutexProofs!InheritanceWorks`, `CeilingWorks`, `InheritanceIsReturned` | `HolderInherits`, `HolderAtCeiling`, `InheritanceEnds` | nobody waits while holding, no waiter's priority is set |
| `TaskProofs!NoSignalLost` | `SignalsKept` | nothing |
| `TaskProofs!PeriodNotSleptThrough`, `PeriodNotCutShort` | `PeriodWakes`, `NotBeforeTheEnd` | calls shorter than a period, no deletion of a period that is waited for |
| `PosixProofs!SignalsNoticed`, `SleepersHaveNone`, `MasksGivenBack` | `DirectedNoticed`, `NoMissedDirected`, `MaskRestored` | nothing |
| `TimeProofs!CalendarAgrees` | `TimeAgrees` | nothing |

The assumptions are those whose need the table of changed constants shows.  The
arguments, in short:

* **Watchdog.**  `StructInv` adds to the links what every insertion in progress
  knows: the watchdog it inserts is off the chain, frames above the current level
  are idle, and a search that has not been told of a change (`sync_level`) holds
  a node of the chain.  `TimeInv` adds the time: `remaining`, a history variable
  with the ticks each watchdog still has to wait, is on the chain the delta plus
  the `remaining` of the node before (`DeltasExact`); the nodes can be numbered
  in the order of the chain (`Ranked`, which replaces the induction along it);
  when no tick is being dealt with everything on the chain has time left
  (`NoneDue`), because the first one has and nobody has less; and the clock tick
  handler is alone and works on the first node (`TickAlone`).  Removal hands its
  delta to the next node, insertion takes it from the next node, a tick takes one
  from the first and so from all.  For the refinement, a step that links a
  watchdog is `Arm`, a removal `Cancel` or, from Tickle, `Fire`, a deactivation
  `Mute`, the decrement `Tick`, and all others stutter.
* **Event.**  A receiver whose condition is met is on its way through
  `_Event_Seize`, about to be unblocked by a frame, or told by `_Event_Sync_state`;
  and what a frame has taken for a receiver satisfies its condition.
* **Message queues.**  Each level holds at most one buffer, in the places between
  its allocation and its linking or freeing; so each step moves one between the
  four places a buffer can be.  For `DeleteLeavesNobody`, `WaitInv` says where a
  waiting thread is: on the thread queue, on its way to it, or in the hands of a
  level that is about to unblock it (`WaitersKnown`); that a search which goes on
  after its flash stands at the first of a group that is still queued
  (`SearchLeads`), so that the thread does get onto the queue; and that a thread on
  the queue, or one that finds `NOTHING_HAPPENED`, and a message, pending or in the
  hands of a send, exclude each other (`NoneForWaiters`).  Then the queue is empty
  when `_CORE_message_queue_Close` flushes messages only, and when its flush of the
  threads ends nobody is left.
* **Scheduler.**  A thread is on the chain of its priority exactly when it is
  ready, except for the routine in progress that is about to put it there; the
  bits of the map follow the chains; and the heir is right but for what the
  routines on the stack have still to do.
* **Mutexes.**  `resource_count` is the number of mutexes held, queues hold each
  waiter once, and the current priority is the real one or one inherited or given
  by a mutex that is held.  A mutex leaves `created` at its first release and never
  comes back, so whoever gets it later was raised by `_CORE_mutex_Seize`.
* **Signals, periods, POSIX signals.**  A signal that was accepted is in one of
  the sets or in the hands of a frame of the stack; a thread that waits for signals
  has looked, and those of them that are pending came after that; the mask a frame will restore
  is the one its interrupted frame lives with.
* **Time of day.**  The tables of `tod.h` fit together, so that each carry of
  `_TOD_Tickle` adds one second to `_TOD_To_seconds`.

Only model-checked:

* the liveness properties (`EveryWatchdogEnds`, `DirectivesEnd`, `TimedWaitEnds`,
  `ProcessorShared`, `OwnerWakes`, `RequestsEnd`): the prover does not do
  fairness;
* `CountsDown`, in the form of the run, whose counts are sums along the chain by
  recursion; `ChainCountsDown` shows the same with `remaining`, which
  `DeltasExact` ties to the deltas node by node;
* `Punctual`, whose `Until` is a fold over the chain of seconds, and
  `SegmentsExact`, `WaitersHaveHope` and `MemoryBeyond`, which follow blocks
  through an array of words: induction over data;
* what depends on the order of a thread queue or on the history of who was served
  (`StatusHonest`, `NoLostWaiter`, `HighestFirst`, `NotOvertaken`, `CountsUnits`,
  `CarriesMessages`).  The lemmas of `MessageProofs` about the queue say who is on
  it, not in which order; `NoLostWaiter` would need the same argument as
  `DeleteLeavesNobody` with units for messages;
* the properties of the remote semaphore, whose invariant would have to follow
  packets through bags and queues of three nodes.
