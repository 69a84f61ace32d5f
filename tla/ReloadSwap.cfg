\* Two pages over one frame: the shortest way to a page that comes back.
CONSTANTS
  Pages = {1, 2}
  NoPage = 0
  memsize = 1
  swapsize = 2
  AccessTypes = {"L", "S"}
  TraceLen = 4
SPECIFICATION Spec
PROPERTY ReloadReadsSwap
\* the simulator stops at the end of the trace
CHECK_DEADLOCK FALSE
