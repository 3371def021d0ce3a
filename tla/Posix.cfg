CONSTANTS
  t1 = t1
  t2 = t2
  usr = usr
  rt = rt
  NULL = NULL
  Threads = {t1, t2}
  Rank <- RankByName
  Signals = {usr, rt}
  Order <- RealTimeFirst
  RealTime = {rt}
  Sets <- SomeSets
  maximum_queued_signals = {0, 2}
  Modulus = 3
  MaxStack <- DeepAndShallow
  MaxCalls = 3
SPECIFICATION Spec
INVARIANTS DirectedNoticed NoMissedDirected
PROPERTIES MaskRestored
CHECK_DEADLOCK FALSE
