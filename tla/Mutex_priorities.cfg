SPECIFICATION Spec
CONSTANTS
  t1 = t1
  t2 = t2
  Threads = {t1, t2, t3}
  Mutexes = {m1, m2}
  Priorities = {1, 2}
  Disciplines = {"FIFO", "PRIORITY", "INHERIT", "CEILING"}
  Unruly = {"PRIORITY"}
  Ceiling <- TopCeiling
  Nestable = {m1}
  InitialPriority <- TwoLevels
  CreatedLocked = {m2}
  MaxDepth = 2
  Modulus = 5
  HoldAndWait = FALSE
  SetWaiting = FALSE
  NULL = NULL
CHECK_DEADLOCK FALSE
INVARIANTS HolderInherits HolderAtCeiling InheritanceEnds NoIdleMutex
