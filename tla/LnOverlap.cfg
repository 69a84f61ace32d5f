\* Symbolic links until the root directory is full.
CONSTANTS
  Names = {"a", "name"}
  strlen <- MCstrlen
  Reserved = 3
  s_inodes_count = 6
  s_blocks_count = 7
  EXT2_BLOCK_SIZE = 64
  NDIRECT = 2
  Tools = {"cp", "ln -s"}
  Hidden = {".", ".."}
  MaxDepth = 2
  MaxBlocks = 1
  MaxRuns = 3
SPECIFICATION Spec
INVARIANTS EntriesFit
\* the model ends after MaxRuns tools
CHECK_DEADLOCK FALSE
