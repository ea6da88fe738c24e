CONSTANTS
  u1 = u1
  u2 = u2
  User = {u1, u2}
  Chat = {k1}
  MessageId = {m1, m2}
  Content = {t1}
  NoMessage = NoMessage
  Screen = {s1}
  author <- MCauthor
  Channel = {c1}
  NoChannel = NoChannel
  Histories <- MCHistories
  MaxArrivals = 2
SPECIFICATION FairSpec
INVARIANTS TypeOK AwaitsMatchState
PROPERTIES  NothingHangs
CHECK_DEADLOCK FALSE
