\* Windows of two pages out of three; inputs of up to eight lines.
CONSTANTS
  Pages = {1, 2, 3}
  buffersize = 2
  InputLen = 8
SPECIFICATION SlimSpec
INVARIANTS NoRepeatInRow EveryLineCovered
\* the script stops at the end of the input
CHECK_DEADLOCK FALSE
