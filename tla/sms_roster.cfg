SPECIFICATION Spec
CONSTANTS
  u1 = u1
  u2 = u2
  c1 = c1
  c2 = c2
  t1 = t1
  t2 = t2
  Sids = {s1}
  Users = {u1, u2}
  Chats = {c1, c2}
  Teams = {t1, t2}
  Hooks = {h1, h2}
  Worker = worker
  NoTeam = NoTeam
  NoUser = NoUser
  Unsaved = Unsaved
  NoRequest = NoRequest
  NoJob = NoJob
  InitMembers <- MCMembers
  InitLinks <- MCLinks
  InitTeam <- MCTeam
  MaxAttempts = 1
  BatchLimit = 1
  MaxPosts = 2
  MaxFaults = 0
  MaxChurn = 1
SYMMETRY MCSymmetry
INVARIANTS
  TypeOK
  WebhooksExclusive
  PromiseKept
  OnlyEntitledChats
PROPERTY ImplementsOutbox
CHECK_DEADLOCK FALSE
