SPECIFICATION Spec
CONSTANTS
  Timers = {w1}
  Tasks = {k1, k2}
  Ticks_per_second = 2
  Intervals = {2}
  SetTimes <- Settings
  WallTimes <- Walls
  IntervalLimit = 268435456
  Horizon = 3
  MaxTicks = 3
  MaxRearms = 1
SYMMETRY Symmetry
VIEW View
INVARIANTS TimeAgrees Punctual
