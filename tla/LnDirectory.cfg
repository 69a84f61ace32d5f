\* A file and a directory with the same name in two directories.
CONSTANTS
  Names = {"a", "b", "name"}
  strlen <- MCstrlen
  Reserved = 3
  s_inodes_count = 6
  s_blocks_count = 7
  EXT2_BLOCK_SIZE = 96
  NDIRECT = 2
  Tools = {"mkdir", "cp", "ln"}
  Hidden = {".", ".."}
  MaxDepth = 2
  MaxBlocks = 0
  MaxRuns = 4
SPECIFICATION Spec
PROPERTIES LnRefusesDirectories
\* the model ends after MaxRuns tools
CHECK_DEADLOCK FALSE
