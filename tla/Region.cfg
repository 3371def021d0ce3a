SPECIFICATION Spec
CONSTANTS
  PageSize = 2
  LastAddress = 27
  Threads = {t1, t2, t3}
  Disciplines = {"FIFO", "PRIORITY"}
  Sizes = {2, 5}
  Start = 1
  Length = 18
  SbrkAmount = 4
  Nobody = Nobody
SYMMETRY Symmetry
VIEW View
INVARIANTS SegmentsExact WaitersHaveHope MemoryBeyond
