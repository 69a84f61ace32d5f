\* Six pages over four frames, reads only.  Traces of up to eight references:
\* enough to fill memory and to evict four times, or fewer with hits between.
CONSTANTS
  Pages = {1, 2, 3, 4, 5, 6}
  NoPage = 0
  memsize = 4
  swapsize = 0
  AccessTypes = {"L"}
  TraceLen = 8
SPECIFICATION ClockSpec
PROPERTY OnlyReferencedPagesMarked
\* the simulator stops at the end of the trace
CHECK_DEADLOCK FALSE
