SPECIFICATION Spec
CONSTANTS
  None = None
  a = a  b = b  ra = ra
  textA = textA  textB = textB  typed = typed
  r1 = r1  r2 = r2
  Keys = {a, b, ra}
  Typed = {typed}
  Requests = {r1, r2}
  Recovers <- RecoversOf
  Text <- TextOf
  Overlap = FALSE
  MaxCalls = 4
  MaxEdits = 1
  MaxFaults = 1
SYMMETRY Symmetry
INVARIANTS TypeOK EditsAreAccountedFor
CHECK_DEADLOCK FALSE
