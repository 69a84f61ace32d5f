\* The input ends within a window; a page is read twice in one (run with -continue).
CONSTANTS
  Pages = {1, 2, 3}
  buffersize = 2
  InputLen = 7
SPECIFICATION SlimSpec
INVARIANTS AllPrinted RepeatsAreMarked
\* the script stops at the end of the input
CHECK_DEADLOCK FALSE
