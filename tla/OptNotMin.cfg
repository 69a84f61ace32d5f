\* Every trace of five references to three pages, over two frames.
CONSTANTS
  Pages = {1, 2, 3}
  NoPage = 0
  memsize = 2
  swapsize = 0
  AccessTypes = {"L"}
  TraceLen = 5
  KnownLen = 5
SPECIFICATION OptSpec
PROPERTY Optimal
\* the simulator stops at the end of the trace
CHECK_DEADLOCK FALSE
