SPECIFICATION Spec
CONSTANTS
  Requests = {q1, q2}
  Tokens = {k1, k2}
  Setups = {s1}
  NoOne = NoOne
  NoToken = NoToken
  NoPassword = NoPassword
  Threshold = 2
  MaxResets = 1
  MaxLapses = 0
  MaxFaults = 0
INVARIANT ResetEndsSessions
CHECK_DEADLOCK FALSE
