\* Two directory entries, four inodes and five blocks for files, and counters that wrap
\* after the third file; everything that may fail does: no memory for an inode, unmapped
\* user buffers; files are truncated.
CONSTANTS
  Names = {a, b, c, long}
  LongNames = {long}
  INODE_COUNT = 6
  DATA_BLOCK_COUNT = 6
  MAX_DIR_ENTRIES = 2
  BLOCK_SIZE = 1
  UintMod = 10
  Bytes = {1}
  Fds = {fd1}
  NoMem = TRUE
  UserFaults = TRUE
  Truncates = TRUE
SPECIFICATION Spec
INVARIANTS
  DirConsistent
  FileHasBlock
  NoSpuriousEnospc
  OrphansOnlyWhenDirFull
PROPERTIES
  Isolation
