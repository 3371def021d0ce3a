--------------------------- MODULE IntervalTimers ---------------------------
(***************************************************************************)
(* What the watchdog handler promises: a set of count-down timers.  All    *)
(* running timers count a tick together, none counts below zero, and a     *)
(* timer's routine is called only when that timer's count has reached zero.*)
(***************************************************************************)
EXTENDS Naturals

CONSTANTS Timers, Intervals

VARIABLES
  status,   \* off; on; muted: still counting, but will not fire
  left      \* ticks left of a timer that is not off

timers == <<status, left>>

Init == /\ status = [t \in Timers |-> "off"]
        /\ left = [t \in Timers |-> 0]

\* A timer starts.  Ticks that pass while it is being started may already
\* count, but never all of its interval.
Arm(t) ==
  /\ status[t] = "off"
  /\ \E u \in Intervals : \E l \in 1 .. u : left' = [left EXCEPT ![t] = l]
  /\ status' = [status EXCEPT ![t] = "on"]

Mute(t) ==
  /\ status[t] = "on"
  /\ status' = [status EXCEPT ![t] = "muted"]
  /\ UNCHANGED left

Off(t) == /\ status' = [status EXCEPT ![t] = "off"]
          /\ left' = [left EXCEPT ![t] = 0]

Cancel(t) == status[t] # "off" /\ Off(t)

Fire(t) == status[t] = "on" /\ left[t] = 0 /\ Off(t)

Tick ==
  /\ \A t \in Timers : status[t] # "off" => left[t] > 0
  /\ left' = [t \in Timers |-> IF status[t] = "off" THEN 0 ELSE left[t] - 1]
  /\ UNCHANGED status

Next == Tick \/ \E t \in Timers : Arm(t) \/ Mute(t) \/ Cancel(t) \/ Fire(t)

Spec == Init /\ [][Next]_timers
=============================================================================
