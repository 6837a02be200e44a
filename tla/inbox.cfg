SPECIFICATION Spec
CONSTANTS
  Phones = {n1, n2}
  NoPhone = NoPhone
  Teams = {t1, t2}
  NoTeam = NoTeam
  Members = {u1}
  Admin = Admin
  MaxIds = 3
  MaxRequests = 2
  MaxChanges = 1
  MaxMessages = 3
  Times = {1, 2}
  PageSize = 1
SYMMETRY Interchangeable
INVARIANTS TypeOK SyncComplete OnlyReachable PagesRight
PROPERTY AssignmentsKept
CHECK_DEADLOCK FALSE
