SPECIFICATION Spec
CONSTANTS
  Users = {u1, u2, u3}
  Teams = {t1, t2, t3}
  NoUser = NoUser
  NoTeam = NoTeam
  Slots = {x1, x2}
  NoTx = NoTx
  Apart = TRUE
SYMMETRY MCSymmetry
PROPERTY ImplementsRoster
