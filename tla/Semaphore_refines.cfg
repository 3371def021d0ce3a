SPECIFICATION FairSpec
CONSTANTS
  Threads = {t1, t2}
  Priorities = {2, 3}
  PerHeader = 4
  Disciplines = {"FIFO", "PRIORITY"}
  Unroll = FALSE
  MaxNest = 2
  TickInterruptible = FALSE
  MayChangePriority = TRUE
  Ops <- SemaphoreOps
  NULL = NULL
  MaxCount = 2
  AtomicIncrement = TRUE
PROPERTIES CountsUnits DirectivesEnd TimedWaitEnds
