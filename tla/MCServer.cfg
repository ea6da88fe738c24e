CONSTANTS
  User = {u1, u2}
  Chat = {k1}
  MessageId = {m1}
  Content = {t1, t2}
  NoMessage = NoMessage
  Channel = {c1, c2}
  NoUser = NoUser
  NoChat = NoChat
  Capacity = 1
  MaxEvents = 2
SPECIFICATION FairSpec
INVARIANTS TypeOK StoredAsPublished HandledInOrder Subscribed EveryEventAccounted
PROPERTIES  EventsHandled
CHECK_DEADLOCK FALSE
