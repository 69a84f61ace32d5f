\* A file is copied and removed.
CONSTANTS
  Names = {"a", "name"}
  strlen <- MCstrlen
  Reserved = 3
  s_inodes_count = 6
  s_blocks_count = 7
  EXT2_BLOCK_SIZE = 96
  NDIRECT = 2
  Tools = {"cp", "rm"}
  Hidden = {".", ".."}
  MaxDepth = 2
  MaxBlocks = 1
  MaxRuns = 3
SPECIFICATION Spec
INVARIANTS LinkedInodesMarked
\* the model ends after MaxRuns tools
CHECK_DEADLOCK FALSE
