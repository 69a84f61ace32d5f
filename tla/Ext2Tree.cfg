\* Directories and copied files, until inodes, blocks and the room in a
\* directory run out; one of the names is hidden.
CONSTANTS
  Names = {".b", "name"}
  strlen <- MCstrlen
  Reserved = 3
  s_inodes_count = 6
  s_blocks_count = 6
  EXT2_BLOCK_SIZE = 96
  NDIRECT = 2
  Tools = {"mkdir", "cp"}
  Hidden = {".", "..", ".b"}
  MaxDepth = 2
  MaxBlocks = 2
  MaxRuns = 7
SPECIFICATION Spec
INVARIANTS EntriesFit DirectoryTree LsShowsDirectory
PROPERTIES NewInodesUnnamed
\* the model ends after MaxRuns tools
CHECK_DEADLOCK FALSE
