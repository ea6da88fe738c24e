CONSTANTS
  u1 = u1
  k1 = k1
  User = {u1, u2}
  Chat = {k1, k2}
  MessageId = {m1, m2}
  Content = {t1, t2}
  NoMessage = NoMessage
  maker <- MCmaker
  NoEvent = NoEvent
  NoForm = NoForm
SPECIFICATION Spec
SYMMETRY Symmetry
INVARIANTS TypeOK MakerKept ChatOutlivesMessages
PROPERTY OnlyStaleEditRevives
CHECK_DEADLOCK FALSE
