SPECIFICATION AdmissionFairSpec
CONSTANTS
  Nobody = Nobody
  p1 = p1
  w1 = w1  w2 = w2
  x1 = x1  x2 = x2
  Posts = {p1}
  Webhooks = {w1, w2}
  Streams = {x1, x2}
  MaxSockets = 2
  MaxMessages = 1
  MaxFaults = 1
INVARIANTS AdmissionTypeOK StreamsGetTheirOwn
PROPERTIES NoSessionIsLeft
CHECK_DEADLOCK FALSE
