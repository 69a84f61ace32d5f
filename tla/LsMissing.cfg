\* A path that repeats a name.
CONSTANTS
  Names = {"a", "name"}
  strlen <- MCstrlen
  Reserved = 3
  s_inodes_count = 6
  s_blocks_count = 6
  EXT2_BLOCK_SIZE = 96
  NDIRECT = 2
  Tools = {"mkdir", "cp"}
  Hidden = {".", ".."}
  MaxDepth = 2
  MaxBlocks = 2
  MaxRuns = 7
SPECIFICATION Spec
INVARIANTS LsRefusesMissing
\* the model ends after MaxRuns tools
CHECK_DEADLOCK FALSE
