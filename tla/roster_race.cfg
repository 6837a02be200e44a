SPECIFICATION Spec
CONSTANTS
  Users = {u1, u2, u3}
  Teams = {t1, t2}
  NoUser = NoUser
  NoTeam = NoTeam
  Slots = {x1, x2}
  NoTx = NoTx
  Apart = FALSE
SYMMETRY MCSymmetry
INVARIANT LeaderRoleBacked
