CONSTANTS
  User = {u1, u2}
  Chat = {k1}
  MessageId = {m1}
  Content = {t1}
  NoMessage = NoMessage
  Channel = {c1, c2, c3}
  NoUser = NoUser
  NoChat = NoChat
  Capacity = 2
  MaxEvents = 3
SPECIFICATION SpecOneConnection
SYMMETRY Symmetry
INVARIANTS ProcessedInOrder NewNeverConflicts
PROPERTY DeletedStaysDeleted
CHECK_DEADLOCK FALSE
