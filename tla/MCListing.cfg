CONSTANTS
  Controllers = {"chats", "messages"}
  User = {u1}
  Chat = {k1, k2}
  NoChat = NoChat
  Request = {r1, r2}
  Page = {1, 2, NotAnInteger}
  Limit = {0}
  NotAnInteger = NotAnInteger
  PageSize = 1
  NoRequest = NoRequest
  NoPage = NoPage
  NoLink = NoLink
  Unread = Unread
  MaxRows = 2
  MaxMessages = 3
  MaxChanges = 1
SPECIFICATION Spec
SYMMETRY Symmetry
INVARIANTS TypeOK AnsweredFromThoseMet OwnLinksWhenAlone OwnRowsWhenAlone NextPageFollowsOn NewDisplacesOld ReadableIffListedOnce
CHECK_DEADLOCK FALSE
