----------------------------- MODULE MCWatchdog -----------------------------
(***************************************************************************)
(* Watchdog for TLC.                                                       *)
(***************************************************************************)
EXTENDS Watchdog

\* The sum of the deltas from the head of the chain up to w.
TicksLeft(w) ==
  LET sum[n \in Nodes] ==
        IF n = HEAD THEN 0 ELSE delta_interval[n] + sum[previous[n]]
  IN sum[w]

Timers == INSTANCE IntervalTimers WITH
  Timers <- Watchdogs,
  status <- [w \in Watchdogs |-> CASE state[w] = "ACTIVE"    -> "on"
                                   [] state[w] = "REMOVE_IT" -> "muted"
                                   [] OTHER                  -> "off"],
  left   <- [w \in Watchdogs |-> IF OnChain(w) THEN TicksLeft(w) ELSE 0]

\* The delta chain behaves as a set of independent count-down timers whose
\* counts are the sums of the deltas along the chain.
CountsDown == Timers!Spec

\* Code that runs goes on running; the clock interrupt keeps coming, whatever
\* other interrupts there are; a service routine returns.
FairSpec ==
  /\ Spec
  /\ WF_vars(RemoveDeactivated) /\ WF_vars(Insert) /\ WF_vars(Tickle)
  /\ SF_vars(ClockTick) /\ SF_vars(RoutineReturns)

\* No watchdog stays ACTIVE for ever: it fires, or is stopped or restarted.
EveryWatchdogEnds ==
  \A w \in Watchdogs : state[w] = "ACTIVE" ~> state[w] # "ACTIVE"
=============================================================================
