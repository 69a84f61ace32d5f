\* Words of three bits and bitmaps of 0 .. 7: no word, full words, and a last
\* word with one or two bits to spare.
CONSTANTS
  BITS_PER_WORD = 3
  MaxBits = 7
  Refused = Refused
SPECIFICATION BitmapSpec
PROPERTY ImplementsPool
