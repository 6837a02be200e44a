SPECIFICATION Spec
CONSTANTS
  Requests = {q1, q2}
  Tokens = {k1, k2}
  Setups = {s1}
  NoOne = NoOne
  NoToken = NoToken
  NoPassword = NoPassword
  Threshold = 2
  MaxResets = 1
  MaxLapses = 1
  MaxFaults = 1
SYMMETRY Interchangeable
INVARIANTS TypeOK RevocationsHold SessionsIndexed ResetSticks GuessesBounded
CHECK_DEADLOCK FALSE
