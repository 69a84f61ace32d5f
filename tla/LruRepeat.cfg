\* A page is referenced twice in a row.
CONSTANTS
  Pages = {1, 2, 3, 4}
  NoPage = 0
  memsize = 3
  swapsize = 0
  AccessTypes = {"L"}
  TraceLen = 6
  Nodes = {n1, n2, n3, n4}
  NULL = NULL
  Repeats = TRUE
SPECIFICATION LruSpec
INVARIANT LastNodeExists
\* the simulator stops at the end of the trace
CHECK_DEADLOCK FALSE
