SPECIFICATION SessionsSpec
CONSTANTS
  Users = {u1, u2, u3}
  Teams = {t1, t2, t3}
  NoUser = NoUser
  NoTeam = NoTeam
  NoRequest = NoRequest
  MaxSessions = 1
  MaxHeld = 1
SYMMETRY MCSymmetry
INVARIANTS
  SessionsTypeOK
  LeadersAgree
  TeamsLed
  HomeMirrored
  NeverStuck
  SessionsCurrent
PROPERTY ScopeChangeRevokes
