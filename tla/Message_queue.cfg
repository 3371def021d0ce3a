SPECIFICATION Spec
CONSTANTS
  Threads = {t1, t2, t3}
  Priorities = {0}
  PerHeader = 4
  Disciplines = {"FIFO"}
  Unroll = FALSE
  MaxNest = 1
  TickInterruptible = FALSE
  MayChangePriority = FALSE
  Ops <- MessageOps
  NULL = NULL
  Messages = {1, 2, 3}
  MaximumPending = 2
  MaximumSize = 2
  AtomicIncrement = TRUE
SYMMETRY Symmetry
VIEW View
INVARIANTS BuffersAccounted DeleteLeavesNobody
PROPERTIES CarriesMessages
