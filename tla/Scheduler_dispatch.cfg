SPECIFICATION FairSpec
CONSTANTS
  Idle = idle
  Threads = {idle, t1, t2, t3}
  Lowest = 2
  GroupSize = 2
  MaxNest = 2
  HandlersSuspend = FALSE
INVARIANTS ChainsExact HeirIsHighest NoMissedPreemption
PROPERTY ProcessorShared
