SPECIFICATION Spec
CONSTANTS
  Threads = {t1, t2}
  Events = {e1, e2}
  MaxNest = 2
  TickInterruptible = FALSE
  FlashInterruptible = TRUE
  NULL = NULL
SYMMETRY Symmetry
VIEW View
INVARIANTS NoMissedWakeup ReturnsCondition
