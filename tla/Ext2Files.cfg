\* All tools: entries are split and merged, inodes
\* freed and given out again.
CONSTANTS
  Names = {"a", "name"}
  strlen <- MCstrlen
  Reserved = 3
  s_inodes_count = 6
  s_blocks_count = 7
  EXT2_BLOCK_SIZE = 96
  NDIRECT = 2
  Tools = {"mkdir", "cp", "ln", "ln -s", "rm"}
  Hidden = {".", ".."}
  MaxDepth = 2
  MaxBlocks = 1
  MaxRuns = 5
SPECIFICATION Spec
INVARIANTS EntriesTile CountersAgree NoSharedBlock
PROPERTIES EntriesKept
\* the model ends after MaxRuns tools
CHECK_DEADLOCK FALSE
