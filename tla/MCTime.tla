------------------------------- MODULE MCTime -------------------------------
(* An instance of TimeOfDay for TLC: the last seconds of February of a leap *)
(* year, and of a year before a leap year.                                  *)
EXTENDS TimeOfDay, TLC

February(second, ticks) == TOD(1992, 2, 28, 23, 59, second, ticks)
December(second, ticks) == TOD(1995, 12, 31, 23, 59, second, ticks)

Settings == {February(58, 0), December(59, 1)}
Walls == {February(59, 0), TOD(1992, 2, 29, 0, 0, 0, 0), TOD(1996, 1, 1, 0, 0, 1, 0),
          TOD(1991, 2, 29, 0, 0, 0, 0)}

\* What a watchdog waited for is of no interest when it is off the chain.
View ==
  <<clock, chain, timers, call, setting, isr, disturbed,
    [i \in 1 .. Len(chain) |-> <<due[chain[i].who], early[chain[i].who]>>]>>
Symmetry == Permutations(Tasks)
=============================================================================
