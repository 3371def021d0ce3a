SPECIFICATION FairSpec
CONSTANTS
  Watchdogs = {w1, w2}
  Intervals = {1, 2}
  IntervalMax = 4
  MaxNest = 2
  TickInterruptible = FALSE
  EntryRace = FALSE
  HEAD = HEAD
  TAIL = TAIL
  NULL = NULL
INVARIANTS SearchValid ChainLinked
PROPERTIES CountsDown EveryWatchdogEnds
