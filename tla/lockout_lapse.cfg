SPECIFICATION Spec
CONSTANTS
  Requests = {q1}
  Tokens = {k1, k2}
  Setups = {s1}
  NoOne = NoOne
  NoToken = NoToken
  NoPassword = NoPassword
  Threshold = 2
  MaxResets = 0
  MaxLapses = 1
  MaxFaults = 0
PROPERTY LapseResetsCounter
CHECK_DEADLOCK FALSE
