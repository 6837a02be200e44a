SPECIFICATION Spec
CONSTANTS
  Chats = {d1, d2, d3}
  Opened = {d1, d2}
  Blockers = {d1, d2}
  Users = {u1, u2}
  Nobody = Nobody
  Sessions = {k1, k2}
  NoSession = NoSession
  Tokens = {p1}
  NoToken = NoToken
  MaxLinks = 1
  MaxBusy = 2
  MaxResets = 1
  MaxBlocks = 1
SYMMETRY Interchangeable
CONSTRAINT Parts
INVARIANTS TypeOK LinksProven SessionsProven StickyLogout  DeadForAReason
CHECK_DEADLOCK FALSE
