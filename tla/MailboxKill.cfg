\* A file with a line that reads "exit"; the receiver is killed, up to twice,
\* anywhere in its set-up or in receive(), and launched again; the sender was set
\* up first.  The mailbox may then hang, so there is no deadlock check.
CONSTANTS
  File <- MCFileWithExit
  Flags = {1, 2}
  Orders = {"senderFirst"}
  Killable = {"receiver"}
  MaxKills = 2
  MaxSessions = 1
  None = None
SPECIFICATION Spec
INVARIANTS
  AtMostOnce
CHECK_DEADLOCK FALSE
