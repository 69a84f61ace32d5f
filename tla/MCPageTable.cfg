\* Four pages over two frames and two swap slots, reads, stores and modifies,
\* traces of up to eight references; swap writes may fail, and the swap file
\* fills up.
CONSTANTS
  p1 = p1
  p2 = p2
  p3 = p3
  p4 = p4
  Pages <- MCPages
  NoPage = NoPage
  memsize = 2
  swapsize = 2
  AccessTypes = {"L", "S", "M"}
  TraceLen = 8
SYMMETRY Symmetry
SPECIFICATION Spec
INVARIANTS TypeOK FramesMatch ContentMatches DirtyIffStored SlotsNotShared
           OnSwapHasCopy CountersAgree
\* the simulator stops at the end of the trace
CHECK_DEADLOCK FALSE
