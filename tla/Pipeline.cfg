\* Every pipeline of three commands of the five kinds; one item per pipe; the
\* shell may fail at any pipe() or fork().
CONSTANTS
  Count = 3
  Pipelines <- MCAll
  Items = 2
  Capacity = 1
  CallsFail = TRUE
SPECIFICATION Spec
INVARIANTS
  NoStrayEnds
  NeighbourFirst
  Delivered
PROPERTIES
  ShellReturns
  NobodyLeft
