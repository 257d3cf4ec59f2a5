\* One file, two descriptors: a creator's private VFS inode beside a looked-up
\* one; reads and writes at every position.
CONSTANTS
  Names = {a}
  LongNames = {}
  INODE_COUNT = 4
  DATA_BLOCK_COUNT = 2
  MAX_DIR_ENTRIES = 2
  BLOCK_SIZE = 2
  UintMod = 6
  Bytes = {1}
  Fds = {fd1, fd2}
  NoMem = FALSE
  UserFaults = FALSE
  Truncates = FALSE
SPECIFICATION Spec
INVARIANTS
  VfsSizeNeverAhead
PROPERTIES
  FlatSpec
SYMMETRY Interchangeable
