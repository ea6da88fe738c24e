CONSTANTS
  Username = {u1}
  Password = {p1, p2}
  Request = {c1, c2, c3}
  Malformed = Malformed
  NoToken = NoToken
  NoPair = NoPair
  NoException = NoException
  None = None
  AccessLifetime = 1
  RefreshLifetime = 2
  MaxTime = 2
  MaxChanges = 3
SPECIFICATION Spec
SYMMETRY Symmetry
INVARIANTS TypeOK JudgedAsOfSomeMoment PairsOnRecord  
PROPERTIES AuditTrailKept

CHECK_DEADLOCK FALSE
