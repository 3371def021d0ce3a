----------------------------- MODULE TimeOfDay -----------------------------
(***************************************************************************)
(* The time of day (score/src/tod.c), the directives that set it           *)
(* (rtems_clock_set) and advance it (rtems_clock_tick), and what waits for *)
(* it on the chain of seconds: timers (rtems_timer_fire_when) and tasks    *)
(* (rtems_task_wake_when).                                                 *)
(*                                                                         *)
(* Operations on a watchdog chain are steps here; their interleavings are  *)
(* the subject of Watchdog.  The clock tick may come between any two steps *)
(* of a directive, other tasks only while dispatching is enabled.  Timers  *)
(* are armed and cancelled by tasks and by handlers: interrupt handlers,   *)
(* which do not interrupt the clock tick, and routines of the other timers.*)
(***************************************************************************)
EXTENDS Integers, SequencesExt

CONSTANTS
  Timers, Tasks,
  Ticks_per_second,
  Intervals,        \* ticks that rtems_timer_fire_after is called with
  SetTimes,         \* times of day the clock is set to
  WallTimes,        \* times of day that timers and tasks wait for
  IntervalLimit,    \* Watchdog_Interval counts modulo this (2^32 in the code)
  Horizon,          \* bound on the seconds the clock runs after it is set
  MaxTicks,         \* bound on the ticks of one second
  MaxRearms         \* bound on the timers armed while the clock is being set

Watchdogs == Timers \cup Tasks
TODs == [year : Nat, month : Nat, day : Nat, hour : Nat, minute : Nat, second : Nat,
         ticks : Nat]

ASSUME TimeAssumption ==
  /\ SetTimes \subseteq TODs /\ WallTimes \subseteq TODs
  /\ Ticks_per_second \in Nat \ {0} /\ IntervalLimit \in Nat \ {0}

VARIABLES
  Current,          \* _TOD_Current
  Seconds,          \* _TOD_Seconds_since_epoch
  Is_set,           \* _TOD_Is_set
  second_left,      \* ticks to the expiry of _TOD_Seconds_watchdog, 0: not active
  chain,            \* _Watchdog_Seconds_chain: watchdogs and their delta_interval
  left, initial,    \* of the timers on the ticks chain; left 0: not active
  the_class,        \* of a timer; "none" when it is not created
  call,             \* of a task: fire_when or wake_when in progress
  setting,          \* the _TOD_Set in progress, and its variables
  isr,              \* the clock tick in progress
  due,              \* history: the time of day a watchdog on the chain waits for
  early,            \* history: by how much _TOD_Set had set the chain back, and not
                    \* yet the clock, when the watchdog was armed
  disturbed         \* does the clock change between the checks of a call and its end,
                    \* and are timers armed while the clock is being set?

clock == <<Current, Seconds, Is_set, second_left>>
timers == <<left, initial, the_class>>
vars == <<clock, chain, timers, call, setting, isr, due, early, disturbed>>

-----------------------------------------------------------------------------
\* The calendar.

TOD(year, month, day, hour, minute, second, ticks) ==
  [year |-> year, month |-> month, day |-> day, hour |-> hour, minute |-> minute,
   second |-> second, ticks |-> ticks]

Base_year == 1988
Leap(year) == year % 4 = 0

Days_per_month(year) ==
  IF Leap(year) THEN <<31, 29, 31, 30, 31, 30, 31, 31, 30, 31, 30, 31>>
          ELSE <<31, 28, 31, 30, 31, 30, 31, 31, 30, 31, 30, 31>>
Days_to_date(year) ==
  IF Leap(year) THEN <<0, 31, 60, 91, 121, 152, 182, 213, 244, 274, 305, 335>>
          ELSE <<0, 31, 59, 90, 120, 151, 181, 212, 243, 273, 304, 334>>
Days_since_last_leap_year(year) == <<0, 366, 731, 1096>>[(year % 4) + 1]

\* _TOD_Validate
ValidDate(tod) ==
  /\ tod.year >= Base_year /\ tod.month \in 1 .. 12
  /\ tod.day # 0 /\ tod.day <= Days_per_month(tod.year)[tod.month]
  /\ tod.hour < 24 /\ tod.minute < 60 /\ tod.second < 60
Validate(tod) == ValidDate(tod) /\ tod.ticks < Ticks_per_second

\* _TOD_To_seconds
DaysToYear(year) ==
  ((year - Base_year) \div 4) * (365 * 4 + 1) + Days_since_last_leap_year(year)
Days(tod) ==
  tod.day - 1 + Days_to_date(tod.year)[tod.month] + DaysToYear(tod.year)
To_seconds(tod) ==
  Days(tod) * (60 * 60 * 24) + (tod.hour * 60 + tod.minute) * 60 + tod.second

\* The carries of _TOD_Tickle
OrdinaryDays(tod) == Days_per_month(Base_year + 1)[tod.month]
DaysOf(tod) == Days_per_month(tod.year)[tod.month]
NextDay(tod) ==
  IF tod.day < DaysOf(tod) THEN [tod EXCEPT !.day = @ + 1]
  ELSE IF tod.month < 12 THEN [tod EXCEPT !.day = 1, !.month = @ + 1]
  ELSE [tod EXCEPT !.day = 1, !.month = 1, !.year = @ + 1]
NextSecond(tod) ==
  LET now == [tod EXCEPT !.ticks = 0] IN
  IF tod.second + 1 < 60 THEN [now EXCEPT !.second = @ + 1]
  ELSE IF tod.minute + 1 < 60 THEN [now EXCEPT !.second = 0, !.minute = @ + 1]
  ELSE IF tod.hour + 1 < 24 THEN [now EXCEPT !.second = 0, !.minute = 0, !.hour = @ + 1]
  ELSE NextDay([now EXCEPT !.second = 0, !.minute = 0, !.hour = 0])

-----------------------------------------------------------------------------
\* The chain of seconds.

\* The seconds until the n-th watchdog of c is due.
Until(c, n) == FoldLeft(LAMBDA sum, w : sum + w.delta, 0, SubSeq(c, 1, n))

\* _Watchdog_Insert: before the first one that is due later, or, when nothing of
\* the interval is left, right there.
Insert(c, w, units) ==
  LET places == {i \in 1 .. Len(c) + 1 : \/ i = Len(c) + 1
                                         \/ Until(c, i - 1) = units
                                         \/ units < Until(c, i)}
      i == CHOOSE i \in places : \A j \in places : i <= j
      delta == units - Until(c, i - 1)
      later == IF i > Len(c) THEN c ELSE [c EXCEPT ![i].delta = @ - delta]
  IN InsertAt(later, i, [who |-> w, delta |-> delta])

\* _Watchdog_Remove
ForgetDelta(c, w) == SelectSeq(c, LAMBDA x : x.who # w)
Without(c, w) ==
  LET i == SelectInSeq(c, LAMBDA x : x.who = w)
  IN IF i = 0 THEN c
     ELSE RemoveAt(IF i = Len(c) THEN c
                   ELSE [c EXCEPT ![i + 1].delta = (@ + c[i].delta) % IntervalLimit], i)

\* The first watchdog, n seconds nearer or further.
Nearer(n) == IF chain = << >> THEN chain
             ELSE [chain EXCEPT ![1].delta = (@ - n) % IntervalLimit]
Further(n) == Nearer(-n)

FirstIsDue == chain # << >> /\ Head(chain).delta = 0

-----------------------------------------------------------------------------
Idle == [pc |-> "idle"]
Epoch == TOD(Base_year, 1, 1, 0, 0, 0, 0)

\* _TOD_Handler_initialization
Init ==
  /\ Current = Epoch /\ Seconds = 0 /\ Is_set = FALSE
  /\ second_left = Ticks_per_second
  /\ chain = << >>
  /\ left = [t \in Timers |-> 0] /\ initial = [t \in Timers |-> 0]
  /\ the_class = [t \in Timers |-> "none"]
  /\ call = [k \in Tasks |-> Idle]
  /\ setting = [pc |-> "idle", tod |-> Epoch, units |-> 0, rearms |-> 0, until |-> 0]
  /\ isr = "idle"
  /\ due = [w \in Watchdogs |-> 0] /\ early = [w \in Watchdogs |-> 0]
  /\ disturbed \in BOOLEAN

\* Task code runs unless the clock tick does; another task than the one inside
\* a directive only while that one has not disabled dispatching.
Locked == setting.pc # "idle" \/ \E k \in Tasks : call[k].pc = "removed"
InTask == isr = "idle" /\ ~Locked
\* A handler may call the timer directives at any time; it leaves alone a timer
\* that a task is just putting on the chain.
MayTouch(t) == isr = "idle" /\ \A k \in Tasks : call[k].pc = "removed" => call[k].on # t
\* No call is between its check of the time and its insertion.
Unchecked == \A k \in Tasks : call[k].pc \notin {"checked", "removed"}

-----------------------------------------------------------------------------
\* The clock tick.

\* The routine of the first watchdog runs: a task wakes, a timer goes off.
Expire ==
  /\ FirstIsDue
  /\ chain' = Tail(chain)
  /\ call' = [k \in Tasks |-> IF k = Head(chain).who THEN Idle ELSE call[k]]
  /\ UNCHANGED <<due, early>>

\* The routine of a timer may arm it again for a time of day.
ExpireAndRearm(tod) ==
  LET w == Head(chain).who IN
  /\ FirstIsDue /\ w \in Timers
  /\ Is_set /\ Validate(tod) /\ To_seconds(tod) > Seconds
  /\ chain' = Insert(Tail(chain), w, To_seconds(tod) - Seconds)
  /\ due' = [due EXCEPT ![w] = To_seconds(tod)] /\ early' = [early EXCEPT ![w] = 0]
  /\ UNCHANGED call

\* rtems_clock_tick, within a second
TickWithin ==
  /\ isr = "idle" /\ second_left # 1 /\ Current.ticks < MaxTicks
  /\ Current' = [Current EXCEPT !.ticks = @ + 1]
  /\ second_left' = IF second_left = 0 THEN 0 ELSE second_left - 1
  /\ left' = [t \in Timers |-> IF left[t] = 0 THEN 0 ELSE left[t] - 1]
  /\ UNCHANGED <<Seconds, Is_set, chain, initial, the_class, call, setting, isr, due, early, disturbed>>

InHorizon(s) ==
  \E tod \in SetTimes \cup {Epoch} :
    s \in To_seconds(tod) .. To_seconds(tod) + Horizon

\* rtems_clock_tick, and _TOD_Tickle up to the first routine
SecondBegins ==
  /\ isr = "idle" /\ second_left = 1
  /\ InHorizon(Seconds + 1)
  /\ disturbed \/ Unchecked
  /\ Current' = NextSecond(Current) /\ Seconds' = Seconds + 1
  /\ second_left' = 0
  /\ left' = [t \in Timers |-> IF left[t] = 0 THEN 0 ELSE left[t] - 1]
  /\ chain' = Nearer(1)
  /\ isr' = "firing"
  /\ UNCHANGED <<Is_set, initial, the_class, call, setting, due, early, disturbed>>

TickExpires ==
  /\ isr = "firing"
  /\ Expire \/ \E tod \in WallTimes : ExpireAndRearm(tod)
  /\ UNCHANGED <<clock, timers, setting, isr, disturbed>>

SecondBegun ==
  /\ isr = "firing" /\ ~FirstIsDue
  /\ isr' = "idle" /\ second_left' = Ticks_per_second
  /\ UNCHANGED <<Current, Seconds, Is_set, chain, timers, call, setting, due, early, disturbed>>

-----------------------------------------------------------------------------
\* rtems_clock_set: _TOD_Set

Set(tod) ==
  /\ InTask /\ Validate(tod)
  /\ disturbed \/ Unchecked
  /\ setting' = [setting EXCEPT !.pc = "deactivated", !.tod = tod]
  /\ second_left' = 0
  /\ UNCHANGED <<Current, Seconds, Is_set, chain, timers, call, isr, due, early, disturbed>>

At(pc) == isr = "idle" /\ setting.pc = pc
SetTo == To_seconds(setting.tod)

\* _Watchdog_Adjust
AdjustBackward ==
  /\ At("deactivated") /\ SetTo < Seconds
  /\ chain' = Further(Seconds - SetTo)
  /\ setting' = [setting EXCEPT !.pc = "adjusted"]
  /\ UNCHANGED <<clock, timers, call, isr, due, early, disturbed>>

AdjustForward ==
  /\ At("deactivated") /\ SetTo >= Seconds
  /\ setting' = [setting EXCEPT !.pc = "forward", !.units = SetTo - Seconds]
  /\ UNCHANGED <<clock, chain, timers, call, isr, due, early, disturbed>>

Adjusted == [setting EXCEPT !.pc = "adjusted", !.units = 0]

Advance ==
  LET units == setting.units
      delta == Head(chain).delta IN
  /\ At("forward")
  /\ IF units = 0 \/ chain = << >> THEN setting' = Adjusted /\ UNCHANGED chain
     ELSE IF units < delta THEN setting' = Adjusted /\ chain' = Nearer(units)
     ELSE /\ setting' = [setting EXCEPT !.pc = "firing", !.units = @ - delta]
          /\ chain' = Nearer(delta)
  /\ UNCHANGED <<clock, timers, call, isr, due, early, disturbed>>

AdjustExpires ==
  /\ At("firing") /\ Expire
  /\ UNCHANGED <<clock, timers, setting, isr, disturbed>>

AdjustRearms(tod) ==
  /\ At("firing") /\ disturbed /\ setting.rearms < MaxRearms
  /\ ExpireAndRearm(tod)
  /\ setting' = [setting EXCEPT !.rearms = @ + 1]
  /\ UNCHANGED <<clock, timers, isr, disturbed>>

Fired ==
  /\ At("firing") /\ ~FirstIsDue
  /\ setting' = [setting EXCEPT !.pc = "forward"]
  /\ UNCHANGED <<clock, chain, timers, call, isr, due, early, disturbed>>

\* The rest of the second is what is left of the old one, by the old count of ticks.
SetCurrent ==
  /\ At("adjusted")
  /\ setting' = [setting EXCEPT !.pc = "current",
                   !.until = IF Ticks_per_second > Current.ticks
                             THEN Ticks_per_second - Current.ticks ELSE Ticks_per_second]
  /\ Current' = setting.tod
  /\ UNCHANGED <<Seconds, Is_set, second_left, chain, timers, call, isr, due, early, disturbed>>

SetSeconds ==
  /\ At("current")
  /\ Seconds' = SetTo /\ Is_set' = TRUE
  /\ setting' = [setting EXCEPT !.pc = "seconds"]
  /\ UNCHANGED <<Current, second_left, chain, timers, call, isr, due, early, disturbed>>

Activate ==
  /\ At("seconds")
  /\ second_left' = setting.until
  /\ setting' = [setting EXCEPT !.pc = "idle", !.tod = Epoch, !.until = 0,
                               !.rearms = 0]
  /\ UNCHANGED <<Current, Seconds, Is_set, chain, timers, call, isr, due, early, disturbed>>

-----------------------------------------------------------------------------
\* rtems_timer_fire_when and rtems_task_wake_when, of the task's own watchdog

Check(k, w, tod) ==
  /\ InTask /\ call[k] = Idle
  /\ Is_set /\ Validate(tod) /\ To_seconds(tod) > Seconds
  /\ call' = [call EXCEPT ![k] = [pc |-> "checked", on |-> w, until |-> To_seconds(tod)]]
  /\ UNCHANGED <<clock, chain, timers, setting, isr, due, early, disturbed>>

FireWhen(k, t, tod) == Check(k, t, tod)
WakeWhen(k, tod) == Check(k, k, [tod EXCEPT !.ticks = 0])

\* Dispatching is disabled and the watchdog initialized; the timer is taken off
\* its chain.
Disarm(k) ==
  LET w == call[k].on IN
  /\ InTask /\ call[k].pc = "checked"
  /\ IF w \in Timers /\ the_class[w] = "none"
     THEN call' = [call EXCEPT ![k] = Idle] /\ UNCHANGED <<chain, left, the_class>>
     ELSE /\ call' = [call EXCEPT ![k].pc = "removed"]
          /\ chain' = Without(chain, w)
          /\ left' = [t \in Timers |-> IF t = w THEN 0 ELSE left[t]]
          /\ the_class' = [t \in Timers |-> IF t = w THEN "TIME_OF_DAY" ELSE the_class[t]]
  /\ UNCHANGED <<clock, initial, setting, isr, due, early, disturbed>>

\* The interval is the difference to what the clock is by now.
Remaining(s) == (s - Seconds) % IntervalLimit

Arm(k) ==
  LET w == call[k].on IN
  /\ isr = "idle" /\ call[k].pc = "removed"
  /\ chain' = Insert(chain, w, Remaining(call[k].until))
  /\ due' = [due EXCEPT ![w] = call[k].until] /\ early' = [early EXCEPT ![w] = 0]
  /\ call' = [call EXCEPT ![k] = IF w = k THEN [pc |-> "asleep"] ELSE Idle]
  /\ UNCHANGED <<clock, timers, setting, isr, disturbed>>

\* rtems_timer_fire_when in a handler.  Inside _TOD_Set it reckons with the old
\* time until the new one is stored.
SetBack ==
  IF setting.pc \in {"adjusted", "current"} /\ SetTo < Seconds THEN Seconds - SetTo ELSE 0

HandlerFiresWhen(t, tod) ==
  /\ MayTouch(t) /\ the_class[t] # "none"
  /\ Is_set /\ Validate(tod) /\ To_seconds(tod) > Seconds
  /\ chain' = Insert(Without(chain, t), t, To_seconds(tod) - Seconds)
  /\ due' = [due EXCEPT ![t] = To_seconds(tod)] /\ early' = [early EXCEPT ![t] = SetBack]
  /\ the_class' = [the_class EXCEPT ![t] = "TIME_OF_DAY"]
  /\ left' = [left EXCEPT ![t] = 0]
  /\ \/ setting.pc = "idle" /\ UNCHANGED setting
     \/ /\ setting.pc # "idle" /\ disturbed /\ setting.rearms < MaxRearms
        /\ setting' = [setting EXCEPT !.rearms = @ + 1]
  /\ UNCHANGED <<clock, initial, call, isr, disturbed>>

-----------------------------------------------------------------------------
\* The other directives of the timer manager.

Create(t) ==
  /\ InTask /\ the_class[t] = "none"
  /\ the_class' = [the_class EXCEPT ![t] = "DORMANT"]
  /\ UNCHANGED <<clock, chain, left, initial, call, setting, isr, due, early, disturbed>>

Delete(t) ==
  /\ InTask /\ the_class[t] # "none"
  /\ chain' = Without(chain, t)
  /\ left' = [left EXCEPT ![t] = 0]
  /\ the_class' = [the_class EXCEPT ![t] = "none"]
  /\ UNCHANGED <<clock, initial, call, setting, isr, due, early, disturbed>>

Cancel(t) ==
  /\ MayTouch(t) /\ the_class[t] \notin {"none", "DORMANT"}
  /\ chain' = Without(chain, t)
  /\ left' = [left EXCEPT ![t] = 0]
  /\ UNCHANGED <<clock, initial, the_class, call, setting, isr, due, early, disturbed>>

FireAfter(t, n) ==
  /\ MayTouch(t) /\ the_class[t] # "none" /\ n # 0
  /\ chain' = Without(chain, t)
  /\ the_class' = [the_class EXCEPT ![t] = "INTERVAL"]
  /\ left' = [left EXCEPT ![t] = n] /\ initial' = [initial EXCEPT ![t] = n]
  /\ UNCHANGED <<clock, call, setting, isr, due, early, disturbed>>

Reset(t) ==
  /\ MayTouch(t) /\ the_class[t] = "INTERVAL"
  /\ left' = [left EXCEPT ![t] = initial[t]]
  /\ UNCHANGED <<clock, chain, initial, the_class, call, setting, isr, due, early, disturbed>>

Next ==
  \/ TickWithin \/ SecondBegins \/ TickExpires \/ SecondBegun
  \/ \E tod \in SetTimes : Set(tod)
  \/ AdjustBackward \/ AdjustForward \/ Advance \/ AdjustExpires \/ Fired
  \/ \E tod \in WallTimes : AdjustRearms(tod)
  \/ SetCurrent \/ SetSeconds \/ Activate
  \/ \E k \in Tasks : \/ \E tod \in WallTimes : \/ WakeWhen(k, tod)
                                                \/ \E t \in Timers : FireWhen(k, t, tod)
                      \/ Disarm(k) \/ Arm(k)
  \/ \E t \in Timers : \/ Create(t) \/ Delete(t) \/ Cancel(t) \/ Reset(t)
                       \/ \E n \in Intervals : FireAfter(t, n)
                       \/ \E tod \in WallTimes : HandlerFiresWhen(t, tod)

Spec == Init /\ [][Next]_vars

-----------------------------------------------------------------------------
\* The two forms of the time agree: whatever the carries of _TOD_Tickle do and
\* whatever the clock is set to, _TOD_Seconds_since_epoch is "the number of seconds
\* from 00:00:00 January 1, TOD_BASE_YEAR until the current time of day", but for
\* the moment in _TOD_Set in which only one of them has changed.
TimeAgrees ==
  setting.pc # "current" => ValidDate(Current) /\ Seconds = To_seconds(Current)

\* Nothing that waits for a time of day goes off before it, however often the
\* clock is set back and forth (_Watchdog_Adjust) and whoever leaves the chain in
\* front of it.  Where nothing disturbs a call between its checks and its insertion
\* it goes off exactly then; a clock that changes in the middle of the call makes
\* it late, never early.  The exception is a timer that a handler arms in _TOD_Set
\* after the chain was set back and before the clock is: it goes off early, by no
\* more than the seconds the clock is set back.
Punctual ==
  setting.pc = "idle" =>
    \A i \in 1 .. Len(chain) :
      LET at == Seconds + Until(chain, i)
          w == chain[i].who IN
      /\ at >= due[w] - early[w]
      /\ ~disturbed => at = due[w]
=============================================================================
