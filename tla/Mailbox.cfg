\* Both mailbox kinds, both launch orders, two sessions that inherit what the
\* first left behind.
CONSTANTS
  File <- MCFile
  Flags = {1, 2}
  Orders = {"senderFirst", "receiverFirst"}
  Killable = {}
  MaxKills = 0
  MaxSessions = 3
  None = None
SPECIFICATION Spec
INVARIANTS
  SlotExclusive
  OneToken
  InOrder
PROPERTIES
  SessionEnds
  ChannelSpec
