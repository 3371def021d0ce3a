SPECIFICATION Spec
CONSTANTS
  Threads = {t1, t2, t3, t4}
  Priorities = {0, 1, 2, 9}
  PerHeader = 6
  Disciplines = {"FIFO", "PRIORITY"}
  Unroll = TRUE
  MaxNest = 1
  TickInterruptible = FALSE
  MayChangePriority = FALSE
  Ops <- SemaphoreOps
  NULL = NULL
  MaxCount = 2
  AtomicIncrement = FALSE
SYMMETRY Symmetry
VIEW View
INVARIANTS StatusHonest NoLostWaiter HighestFirst
PROPERTY NotOvertaken
