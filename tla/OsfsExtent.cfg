\* Three inodes for files and blocks for two extents, the second of which ends with the
\* data area; a directory whose second entry lies across the end of its block; a name
\* that reaches past it from the first; two descriptors, whose writes overlap.  The
\* bytes users write are the number of an inode.
CONSTANTS
  INODE_COUNT = 5
  DATA_BLOCK_COUNT = 5
  BLOCK_SIZE = 3
  Extent = 2
  Names = {11, 12, 13}
  Reach <- MCReach
  Bytes = {4}
  Fds = {fd1, fd2}
  Creator = creator
  Lengths = {0, 6}
  Positions = {7}
  UserFaults = TRUE
SPECIFICATION Spec
INVARIANTS
  ExtentsDisjoint
  SizeWithinExtent
  ExtentlessForGood
PROPERTIES
  DamageConfined
SYMMETRY Descriptors
\* When every entry has a garbled name and no inode is left, nothing can be opened or created.
CHECK_DEADLOCK FALSE
