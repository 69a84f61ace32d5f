\* Five pages over four frames, reads only: memory fills and three evictions
\* can follow, from mixtures of referenced and unreferenced pages.  Every trace of
\* seven references that the algorithm takes, of six for opt.
CONSTANTS
  Pages = {p1, p2, p3, p4, p5}
  NoPage = none
  memsize = 4
  swapsize = 0
  AccessTypes = {"L"}
  TraceLen = 7
  KnownLen = 6
  Nodes = {n1, n2, n3, n4, n5}
  NULL = NULL
  Repeats = FALSE
  Algs = {"rand", "lru", "fifo", "clock", "opt"}
SYMMETRY PageSymmetry
SPECIFICATION SimSpec
INVARIANTS LruListSound OptNextUseKnown
PROPERTIES AllImplementCache FifoEvictsOldest ClockVictim
           LruEvictsLeastRecent OptEvictsLatest
\* the simulator stops at the end of the trace
CHECK_DEADLOCK FALSE
