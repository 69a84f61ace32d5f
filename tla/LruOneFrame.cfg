\* Memory of one frame.
CONSTANTS
  Pages = {1, 2, 3, 4}
  NoPage = 0
  memsize = 1
  swapsize = 0
  AccessTypes = {"L"}
  TraceLen = 6
  Nodes = {n1, n2, n3, n4}
  NULL = NULL
  Repeats = FALSE
SPECIFICATION LruSpec
INVARIANT ListSound
\* the simulator stops at the end of the trace
CHECK_DEADLOCK FALSE
