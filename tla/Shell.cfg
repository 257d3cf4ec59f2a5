\* Four lines and a ring of two slots, which wraps twice; standard output a
\* terminal or not.
CONSTANTS
  Lines <- MCLines
  MAX_RECORD_NUM = 2
  args_length = 4
  Terminals = {TRUE, FALSE}
  Readable = {"i"}
  Writable = {"o"}
  Programs = {"ls"}
  MaxLines = 4
SPECIFICATION Spec
INVARIANTS
  DescriptorsRestored
  RecordLatest
  LinesInPlace
  PrintedOnce
PROPERTIES
  PromptAgain
