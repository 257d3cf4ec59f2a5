\* Three entries fill the directory, as in the code; buffers for none to all of what
\* is listed, two readers.
CONSTANTS
  Names = {a, b, c, d}
  MAX_DIR_ENTRIES = 3
  Streams = {s1, s2}
  Rooms = {0, 1, 2, 4}
SPECIFICATION DirSpec
INVARIANTS
  ListedOnce
