CONSTANTS
  User = {u1, u2}
  Chat = {k1}
  MessageId = {m1}
  Content = {t1}
  NoMessage = NoMessage
  Channel = {c1, c2}
  NoUser = NoUser
  NoChat = NoChat
  Capacity = 2
  MaxEvents = 2
SPECIFICATION SpecRealtime
INVARIANT OtherSocketsServed
CHECK_DEADLOCK FALSE
