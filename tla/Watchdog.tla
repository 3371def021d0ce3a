------------------------------ MODULE Watchdog ------------------------------
(***************************************************************************)
(* The watchdog handler of the SuperCore (score/src/watchdog.c): one delta *)
(* chain of interval timers, operated on by the executing thread (ISR nest *)
(* level 0) and by interrupt handlers nested up to MaxNest deep.           *)
(*                                                                         *)
(* The unit of atomicity is a stretch of code that runs with interrupts    *)
(* disabled.  Between two such stretches, and at the _ISR_Flash inside     *)
(* _Watchdog_Insert, an interrupt may be taken; it runs to completion      *)
(* before the code it interrupted goes on.  frame[l] is what ISR nest      *)
(* level l is doing; only the top one, frame[nest], takes steps.           *)
(*                                                                         *)
(* A handler with several calls is the same as several handlers taken one  *)
(* after the other at the same point, so a handler makes one call.         *)
(***************************************************************************)
EXTENDS Naturals, FiniteSets

CONSTANTS
  Watchdogs,          \* the Watchdog_Control blocks
  Intervals,          \* the intervals that callers ask for, in ticks
  IntervalMax,        \* largest Watchdog_Interval (2^32 - 1 in the code)
  MaxNest,            \* deepest nesting of interrupt handlers
  TickInterruptible,  \* may a handler interrupt the clock tick handler?
  EntryRace,          \* may a handler operate on a watchdog whose insertion
                      \* it interrupted before the search had begun?
  HEAD, TAIL, NULL    \* the two ends of the chain; the null pointer

ASSUME WatchdogAssumption ==
  /\ Intervals \subseteq Nat \ {0}
  /\ IntervalMax \in Nat
  /\ \A u \in Intervals : u <= IntervalMax
  /\ MaxNest \in Nat
  /\ TickInterruptible \in BOOLEAN
  /\ EntryRace \in BOOLEAN
  /\ HEAD \notin Watchdogs /\ TAIL \notin Watchdogs /\ NULL \notin Watchdogs
  /\ HEAD # TAIL /\ HEAD # NULL /\ TAIL # NULL

VARIABLES
  state,           \* Watchdog_Control.state
  initial,         \* Watchdog_Control.initial (0: never armed, class dormant)
  delta_interval,  \* Watchdog_Control.delta_interval
  next, previous,  \* Chain_Node links, HEAD and TAIL included
  sync_count,      \* _Watchdog_Sync_count
  sync_level,      \* _Watchdog_Sync_level
  nest,            \* _ISR_Nest_level
  frame,           \* what each ISR nest level is in the middle of
  remaining        \* history: ticks that w still has to wait, counted from
                   \* the moment its insertion last read the chain's first

chainVars == <<state, delta_interval, next, previous, remaining>>
syncVars  == <<sync_count, sync_level>>
vars      == <<state, initial, delta_interval, next, previous, sync_count,
               sync_level, nest, frame, remaining>>

Levels == 0 .. MaxNest
Nodes  == Watchdogs \cup {HEAD, TAIL}

States == {"INACTIVE", "BEING_INSERTED", "ACTIVE", "REMOVE_IT"}
OnChain(w) == state[w] \in {"ACTIVE", "REMOVE_IT"}

\* Places where code stops with interrupts enabled:
\*   idle      outside the handler        start, insert  after a _Watchdog_Remove
\*   enter     at restart:                flash     in _ISR_Flash
\*   remove    deactivated, not yet removed
\*   tickle, decrement, expire, more      inside _Watchdog_Tickle
\*   routine   in a watchdog service routine that _Watchdog_Tickle called
Places == {"idle", "start", "insert", "enter", "flash", "remove",
           "tickle", "decrement", "expire", "more", "routine"}

Frame == [pc : Places, w : Watchdogs \cup {NULL}, after : Nodes \cup {NULL},
          delta : Nat, tick : BOOLEAN]
IdleFrame == [pc |-> "idle", w |-> NULL, after |-> NULL, delta |-> 0,
              tick |-> FALSE]

TypeOK ==
  /\ state \in [Watchdogs -> States]
  /\ initial \in [Watchdogs -> Nat]
  /\ delta_interval \in [Watchdogs -> Nat]
  /\ next \in [Nodes -> Nodes \cup {NULL}]
  /\ previous \in [Nodes -> Nodes \cup {NULL}]
  /\ sync_count \in Nat
  /\ sync_level \in Levels
  /\ nest \in Levels
  /\ frame \in [Levels -> Frame]
  /\ remaining \in [Watchdogs -> Nat]

-----------------------------------------------------------------------------
\* _Watchdog_Handler_initialization, and every control block inactive.
Init ==
  /\ state = [w \in Watchdogs |-> "INACTIVE"]
  /\ initial = [w \in Watchdogs |-> 0]
  /\ delta_interval = [w \in Watchdogs |-> 0]
  /\ next = [n \in Nodes |-> IF n = HEAD THEN TAIL ELSE NULL]
  /\ previous = [n \in Nodes |-> IF n = TAIL THEN HEAD ELSE NULL]
  /\ sync_count = 0 /\ sync_level = 0
  /\ nest = 0
  /\ frame = [l \in Levels |-> IdleFrame]
  /\ remaining = [w \in Watchdogs |-> 0]

First == next[HEAD]

\* Who may make a call at level lv: the code running there between calls, or
\* an interrupt handler that is taken now.
Calls(lv) ==
  \/ lv = nest /\ frame[nest].pc \in {"idle", "routine"}
  \/ /\ lv = nest + 1 /\ lv \in Levels
     /\ frame[nest].tick => TickInterruptible

\* Whether the call may be about w (see EntryRace).
MayUse(lv, w) ==
  EntryRace \/ \A l \in Levels :
                 l < lv /\ frame[l].w = w
                    => frame[l].pc \notin {"start", "insert", "enter"}

Doing(lv, pc, w, after, d) ==
  [pc |-> pc, w |-> w, after |-> after, delta |-> d, tick |-> frame[lv].tick]

\* The call made at the current level returns: to the service routine that
\* made it, to the interrupted level, or to the thread.
Return ==
  /\ frame' = [frame EXCEPT ![nest] =
                 IF @.tick THEN Doing(nest, "routine", NULL, NULL, 0)
                           ELSE IdleFrame]
  /\ nest' = IF frame[nest].tick \/ nest = 0 THEN nest ELSE nest - 1

\* The clock tick handler is over.
LeaveTick ==
  /\ frame' = [frame EXCEPT ![nest] = IdleFrame]
  /\ nest' = nest - 1

\* _Chain_Extract_unprotected
Extract(w) ==
  /\ next' = [next EXCEPT ![previous[w]] = next[w]]
  /\ previous' = [previous EXCEPT ![next[w]] = previous[w]]

\* Link without the last assignment, before->previous = w.
LinkNoBack(after, w) ==
  LET p == previous[after]
      n == next[p]
  IN /\ next' = [next EXCEPT ![p] = w, ![w] = n]
     /\ previous' = [previous EXCEPT ![w] = p]

\* _Chain_Insert_unprotected(after->Node.previous, w)
Link(after, w) ==
  LET p == previous[after]
      n == next[p]
  IN /\ next' = [next EXCEPT ![p] = w, ![w] = n]
     /\ previous' = [previous EXCEPT ![w] = p, ![n] = w]

\* The watchdog behind a removed one waits for the time of both.
Inherited(w) ==
  IF next[w] = TAIL THEN delta_interval
  ELSE [delta_interval EXCEPT ![next[w]] = @ + delta_interval[w]]

\* A removal tells the insertions that it interrupted.
Untold(lv) == sync_level
Told(lv) == IF sync_count # 0 THEN lv ELSE sync_level

\* _Watchdog_Remove at nest level lv; the state it returns is state[w].
Remove(w, lv) ==
  /\ state' = [state EXCEPT ![w] = "INACTIVE"]
  /\ remaining' = [remaining EXCEPT ![w] = 0]
  /\ IF OnChain(w)
     THEN delta_interval' = Inherited(w) /\ sync_level' = Told(lv) /\ Extract(w)
     ELSE UNCHANGED <<next, previous, delta_interval, sync_level>>

-----------------------------------------------------------------------------
\* Calls

\* rtems_timer_cancel of a timer that is not dormant; rtems_timer_delete,
\* _Thread_Restart and _Thread_Close remove a watchdog in the same way.
Cancel(lv, w) ==
  /\ Calls(lv) /\ MayUse(lv, w)
  /\ initial[w] # 0
  /\ Remove(w, lv)
  /\ UNCHANGED <<initial, sync_count, nest, frame>>

\* rtems_timer_fire_after up to the _Watchdog_Initialize: a timer that is
\* running is removed first.
FireAfter(lv, w, units) ==
  /\ Calls(lv) /\ MayUse(lv, w)
  /\ Remove(w, lv)
  /\ nest' = lv
  /\ frame' = [frame EXCEPT ![lv] = Doing(lv, "start", w, NULL, units)]
  /\ UNCHANGED <<initial, sync_count>>

\* rtems_timer_reset and _Watchdog_Reset up to the _Watchdog_Insert.
Reset(lv, w) ==
  /\ Calls(lv) /\ MayUse(lv, w)
  /\ initial[w] # 0
  /\ Remove(w, lv)
  /\ nest' = lv
  /\ frame' = [frame EXCEPT ![lv] = Doing(lv, "insert", w, NULL, 0)]
  /\ UNCHANGED <<initial, sync_count>>

\* _Watchdog_Deactivate leaves the watchdog on the chain.
Deactivated == "REMOVE_IT"

\* _Watchdog_Deactivate under a disabled ISR, as a thread queue or an event
\* does when it satisfies a thread whose timer is running.
Deactivate(lv, w) ==
  /\ Calls(lv) /\ MayUse(lv, w)
  /\ state[w] = "ACTIVE"
  /\ state' = [state EXCEPT ![w] = Deactivated]
  /\ nest' = lv
  /\ frame' = [frame EXCEPT ![lv] = Doing(lv, "remove", w, NULL, 0)]
  /\ UNCHANGED <<initial, delta_interval, next, previous, syncVars, remaining>>

\* ... and the _Watchdog_Remove that follows it.
RemoveDeactivated ==
  /\ frame[nest].pc = "remove"
  /\ Remove(frame[nest].w, nest)
  /\ Return
  /\ UNCHANGED <<initial, sync_count>>

-----------------------------------------------------------------------------
\* _Watchdog_Insert

EnterInsert(w) ==
  /\ state' = [state EXCEPT ![w] = "BEING_INSERTED"]
  /\ sync_count' = sync_count + 1
  /\ frame' = [frame EXCEPT ![nest] = Doing(nest, "enter", w, NULL, 0)]
  /\ UNCHANGED <<delta_interval, next, previous, sync_level, nest, remaining>>

\* _Watchdog_Initialize, _Watchdog_Insert_ticks and the first three
\* statements of _Watchdog_Insert.
StartInsert ==
  /\ frame[nest].pc = "start"
  /\ initial' = [initial EXCEPT ![frame[nest].w] = frame[nest].delta]
  /\ EnterInsert(frame[nest].w)

\* The same from _Watchdog_Reset, which keeps the interval.
ResetInsert ==
  /\ frame[nest].pc = "insert"
  /\ UNCHANGED initial
  /\ EnterInsert(frame[nest].w)

\* exit_insert
ExitInsert ==
  /\ sync_level' = nest
  /\ sync_count' = sync_count - 1
  /\ Return

\* _Watchdog_Activate and the linking in front of after.
Activate(w, after) ==
  /\ state' = [state EXCEPT ![w] = "ACTIVE"]
  /\ Link(after, w)
  /\ ExitInsert

\* The watchdog expires earlier than the one at after, which then only waits
\* for the difference.
Earlier(after, d) == d < delta_interval[after]

NotShortened(w, after, d) == [delta_interval EXCEPT ![w] = d]
Shortened(w, after, d) == [delta_interval EXCEPT ![after] = @ - d, ![w] = d]

\* One pass of the for loop with after and d left to go.
SearchStep(w, after, d) ==
  LET last    == d = 0 \/ next[after] = NULL
      smaller == ~last /\ Earlier(after, d)
  IN \/ /\ last
        /\ delta_interval' = [delta_interval EXCEPT ![w] = d]
        /\ Activate(w, after)
     \/ /\ smaller
        /\ delta_interval' = Shortened(w, after, d)
        /\ Activate(w, after)
     \/ /\ ~last /\ ~smaller
        /\ frame' = [frame EXCEPT ![nest] =
             Doing(nest, "flash", w, after, d - delta_interval[after])]
        /\ UNCHANGED <<state, delta_interval, next, previous, syncVars, nest>>

\* From restart: to the end of the first pass.
BeginSearch ==
  /\ frame[nest].pc = "enter"
  /\ LET w == frame[nest].w
     IN /\ remaining' = [remaining EXCEPT ![w] = initial[w]]
        /\ SearchStep(w, First, initial[w])
  /\ UNCHANGED initial

\* Whether no handler removed the watchdog that is being inserted.
StillWanted(w) == state[w] = "BEING_INSERTED"

\* After _ISR_Flash: a handler removed the watchdog; the insert gives up.
AbortInsert ==
  /\ frame[nest].pc = "flash"
  /\ ~StillWanted(frame[nest].w)
  /\ ExitInsert
  /\ UNCHANGED <<initial, chainVars>>

\* After _ISR_Flash: a handler changed the chain; the search starts again.
RestartSearch ==
  /\ frame[nest].pc = "flash"
  /\ StillWanted(frame[nest].w)
  /\ sync_level > nest
  /\ sync_level' = nest
  /\ frame' = [frame EXCEPT ![nest] = Doing(nest, "enter", @.w, NULL, 0)]
  /\ UNCHANGED <<initial, chainVars, sync_count, nest>>

\* After _ISR_Flash: nothing relevant happened; the next pass.
ContinueSearch ==
  /\ frame[nest].pc = "flash"
  /\ StillWanted(frame[nest].w)
  /\ sync_level <= nest
  /\ SearchStep(frame[nest].w, next[frame[nest].after], frame[nest].delta)
  /\ UNCHANGED <<initial, remaining>>

-----------------------------------------------------------------------------
\* _Watchdog_Tickle, called by the clock tick handler

\* The clock interrupt is taken (rtems_clock_tick, _Watchdog_Tickle_ticks); it
\* does not interrupt itself.
ClockTick ==
  /\ nest + 1 \in Levels
  /\ \A l \in Levels : ~frame[l].tick
  /\ nest' = nest + 1
  /\ frame' = [frame EXCEPT ![nest + 1] = [IdleFrame EXCEPT !.pc = "tickle",
                                                            !.tick = TRUE]]
  /\ UNCHANGED <<initial, chainVars, syncVars>>

\* A tick passes for everything that counts (an empty chain has nothing to).
Tick(r) == IF r > 0 THEN r - 1 ELSE 0

\* _Chain_Is_empty
EmptyOrOne == First = TAIL \/ next[First] = TAIL
Empty == First = TAIL

TickleEmpty ==
  /\ frame[nest].pc = "tickle"
  /\ Empty
  /\ LeaveTick
  /\ UNCHANGED <<initial, chainVars, syncVars>>

TickleFirst ==
  /\ frame[nest].pc = "tickle"
  /\ ~Empty
  /\ frame' = [frame EXCEPT ![nest] = Doing(nest, "decrement", First, NULL, 0)]
  /\ UNCHANGED <<initial, chainVars, syncVars, nest>>

TickleDecrement ==
  /\ frame[nest].pc = "decrement"
  /\ LET w == frame[nest].w
         d == IF delta_interval[w] = 0 THEN IntervalMax
                                       ELSE delta_interval[w] - 1
     IN /\ delta_interval' = [delta_interval EXCEPT ![w] = d]
        /\ IF d # 0
           THEN LeaveTick
           ELSE /\ frame' = [frame EXCEPT ![nest].pc = "expire"]
                /\ UNCHANGED nest
  /\ remaining' = [w \in Watchdogs |-> Tick(remaining[w])]
  /\ UNCHANGED <<state, initial, next, previous, syncVars>>

\* The watchdog is removed; if it was active its service routine is called.
TickleExpire ==
  /\ frame[nest].pc = "expire"
  /\ Remove(frame[nest].w, nest)
  /\ frame' = [frame EXCEPT ![nest] =
       Doing(nest, IF state[frame[nest].w] = "ACTIVE" THEN "routine" ELSE "more",
             NULL, NULL, 0)]
  /\ UNCHANGED <<initial, sync_count, nest>>

RoutineReturns ==
  /\ frame[nest].pc = "routine"
  /\ frame' = [frame EXCEPT ![nest].pc = "more"]
  /\ UNCHANGED <<initial, chainVars, syncVars, nest>>

\* The condition of the do loop.
OneExpired == ~Empty /\ delta_interval[First] = 0

TickleMore ==
  /\ frame[nest].pc = "more"
  /\ IF OneExpired
     THEN /\ frame' = [frame EXCEPT ![nest] =
               Doing(nest, "expire", First, NULL, 0)]
          /\ UNCHANGED nest
     ELSE LeaveTick
  /\ UNCHANGED <<initial, chainVars, syncVars>>

-----------------------------------------------------------------------------
Call ==
  \E lv \in Levels, w \in Watchdogs :
     \/ Cancel(lv, w)
     \/ \E u \in Intervals : FireAfter(lv, w, u)
     \/ Reset(lv, w)
     \/ Deactivate(lv, w)

Insert == StartInsert \/ ResetInsert \/ BeginSearch \/ AbortInsert
            \/ RestartSearch \/ ContinueSearch

Tickle == TickleEmpty \/ TickleFirst \/ TickleDecrement \/ TickleExpire
            \/ RoutineReturns \/ TickleMore

Next == Call \/ RemoveDeactivated \/ Insert \/ ClockTick \/ Tickle

Spec == Init /\ [][Next]_vars

-----------------------------------------------------------------------------
\* Properties

Inserting(l) == frame[l].pc \in {"enter", "flash"}

\* The chain stays a proper doubly linked list of exactly the watchdogs that
\* are ACTIVE or REMOVE_IT, whatever interrupts what: _Watchdog_Insert links
\* in front of a node it found before a flash, _Watchdog_Remove unlinks.
ChainLinked ==
  /\ \A n \in Watchdogs \cup {HEAD} :
       n = HEAD \/ OnChain(n) =>
         /\ next[n] = TAIL \/ (next[n] \in Watchdogs /\ OnChain(next[n]))
         /\ previous[next[n]] = n
  /\ \A n \in Watchdogs \cup {TAIL} :
       n = TAIL \/ OnChain(n) =>
         /\ previous[n] = HEAD
              \/ (previous[n] \in Watchdogs /\ OnChain(previous[n]))
         /\ next[previous[n]] = n
  /\ next[TAIL] = NULL

\* The search of level l goes on after its flash, as things stand.
Resumes(l) ==
  /\ frame[l].pc = "flash"
  /\ state[frame[l].w] = "BEING_INSERTED"
  /\ sync_level <= l
  /\ \A m \in Levels : m > l => frame[m].w # frame[l].w \/ ~Inserting(m)

\* A search that resumes after _ISR_Flash without restarting holds a node that
\* is still on the chain, and what it has left is still relative to that node.
SearchValid ==
  \A l \in Levels : Resumes(l) =>
    /\ frame[l].after \in Watchdogs /\ OnChain(frame[l].after)
    /\ remaining[frame[l].w] = frame[l].delta + remaining[frame[l].after]

\* _Watchdog_Sync_count is the number of insertions in progress, so a removal
\* tells an interrupted insertion about itself exactly when there is one.
SyncCountExact == sync_count = Cardinality({l \in Levels : Inserting(l)})

-----------------------------------------------------------------------------
\* The inductive strengthening of ChainLinked

Entering == {"start", "insert", "enter"}
Ticking  == {"tickle", "decrement", "expire", "more", "routine"}

\* Levels above the current one are idle, only handlers process a tick, and a
\* frame that is in the middle of something knows its watchdog.
FramesOK ==
  \A l \in Levels :
    /\ l > nest => frame[l] = IdleFrame
    /\ frame[l].tick => l > 0
    /\ frame[l].pc \in Ticking => frame[l].tick
    /\ frame[l].pc = "idle" => ~frame[l].tick
    /\ frame[l].pc \in Entering \cup {"flash", "remove", "decrement", "expire"}
         => frame[l].w \in Watchdogs

\* A watchdog that is about to be searched a place for is off the chain, and
\* no handler that interrupted this has anything to do with it.
EntryExclusive ==
  \A l \in Levels : frame[l].pc \in Entering =>
    /\ state[frame[l].w] =
         IF frame[l].pc = "enter" THEN "BEING_INSERTED" ELSE "INACTIVE"
    /\ \A m \in Levels : m > l => frame[m].w # frame[l].w

\* A search whose sync level says nothing changed still points into the chain.
SearchOnChain ==
  \A l \in Levels : frame[l].pc = "flash" /\ sync_level <= l =>
    frame[l].after \in Watchdogs /\ OnChain(frame[l].after)

StructInv == TypeOK /\ FramesOK /\ EntryExclusive /\ ChainLinked
               /\ SearchOnChain /\ SyncCountExact

-----------------------------------------------------------------------------
\* The inductive strengthening of SearchValid

\* What each watchdog has to wait is its own delta after the one before it.
DeltasExact ==
  \A w \in Watchdogs : OnChain(w) =>
    remaining[w] = delta_interval[w]
                     + (IF previous[w] = HEAD THEN 0 ELSE remaining[previous[w]])

\* A tick has been counted and is not dealt with yet.
Processing(l) == frame[l].tick /\ frame[l].pc \notin {"tickle", "decrement"}

\* Otherwise every watchdog on the chain has time left.
NoneDue ==
  (\A l \in Levels : ~Processing(l)) =>
    \A w \in Watchdogs : OnChain(w) => remaining[w] > 0

\* The clock tick handler is not interrupted, and works on the first node.
TickAlone ==
  \A l \in Levels :
    /\ frame[l].tick => l = nest
    /\ frame[l].pc \in {"decrement", "expire"} => frame[l].w = First
    /\ frame[l].pc = "expire" => delta_interval[frame[l].w] = 0

\* Only a watchdog that is armed or being armed has something to wait, and no
\* more than it was armed with.
IntervalsKept ==
  /\ \A w \in Watchdogs :
       /\ initial[w] \in Intervals \cup {0} /\ remaining[w] <= initial[w]
       /\ state[w] = "INACTIVE" => remaining[w] = 0
  /\ \A l \in Levels :
       /\ frame[l].pc = "start" => frame[l].delta \in Intervals
       /\ frame[l].pc \in {"insert", "enter", "flash"} => initial[frame[l].w] # 0
       /\ frame[l].pc = "flash" /\ frame[l].tick => remaining[frame[l].w] > 0
=============================================================================
