SPECIFICATION FairSpec
CONSTANTS
  MaxStack = 4
  Signals = {s1, s2}
  Length = 2
  LongCall = FALSE
  DeleteWaited = FALSE
INVARIANTS SignalsKept PeriodWakes
PROPERTIES NotBeforeTheEnd OwnerWakes
