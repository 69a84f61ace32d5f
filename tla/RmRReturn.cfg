\* Three tools after each of those of First: names at two levels, directories
\* in directories, an inode given to two of them.
CONSTANTS
  Names = {"a", "b", "c"}
  strlen <- MCstrlen
  Reserved = 3
  s_inodes_count = 8
  s_blocks_count = 8
  EXT2_BLOCK_SIZE = 96
  NDIRECT = 2
  Tools = {"mkdir", "cp", "rm"}
  Hidden = {".", ".."}
  MaxDepth = 2
  MaxBlocks = 1
  First <- MCFirst
  MaxRuns = 9
SPECIFICATION RmRSpec

PROPERTIES RmRErrorsRemoveNothing
\* the model ends after MaxRuns tools
CHECK_DEADLOCK FALSE
