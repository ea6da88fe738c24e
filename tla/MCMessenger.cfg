CONSTANTS
  u1 = u1
  u2 = u2
  k1 = k1
  User = {u1, u2}
  Chat = {k1}
  MessageId = {m1, m2}
  Content = {t1}
  NoMessage = NoMessage
  Channel = {c1, c2}
  NoUser = NoUser
  NoChat = NoChat
  Capacity = 2
  MaxEvents = 3
  Screen = {s1}
  author <- MCauthor
  NoChannel = NoChannel
  Histories <- MCHistories
  MaxArrivals = 3
  chat <- MCchat
  ScriptUser = {u2}
  HistoryLimit = 2
SPECIFICATION SpecOneConnection
SYMMETRY Symmetry
INVARIANTS TypeOK NoDuplicates  ShownInSenderOrder
CHECK_DEADLOCK FALSE
