\* Files are copied and removed, two of the same name included (run with -continue).
CONSTANTS
  Names = {"a", "name"}
  strlen <- MCstrlen
  Reserved = 3
  s_inodes_count = 6
  s_blocks_count = 7
  EXT2_BLOCK_SIZE = 96
  NDIRECT = 2
  Tools = {"mkdir", "cp", "rm"}
  Hidden = {".", ".."}
  MaxDepth = 2
  MaxBlocks = 1
  MaxRuns = 4
SPECIFICATION Spec
PROPERTIES RmRemovesNamed RmSetsDtime
\* the model ends after MaxRuns tools
CHECK_DEADLOCK FALSE
