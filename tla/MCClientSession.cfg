CONSTANTS
  User = {u1, u2}
  Chat = {k1, k2}
  NoUser = NoUser
  NoChat = NoChat
  NoAnswer = NoAnswer
  Refused = Refused
  MaxLogins = 2
SPECIFICATION FairSpec
INVARIANTS TypeOK RequestMatchesState ChatsReadyForMessages 
PROPERTY SpinnersEnd
CHECK_DEADLOCK FALSE
