SPECIFICATION MCSpec
CONSTANTS
  s = s
  v = v
  e = e
  None = None
  Keys = {s, v, e}
  Sms = {s}
  Email = {e}
  Legacy = {}
  Requests = {r1, r2}
  Bodies = {b1, b2}
  MaxFaults = 2
INVARIANTS
  TypeOK
  SendsAreAccountedFor
PROPERTY
  ImplementsBillableSend
  CallReplayReconciles
