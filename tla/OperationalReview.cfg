SPECIFICATION Spec
CONSTANTS
  None = None
  Comms = {c}
  edited = c
  Sessions = {s1, s2}
  Owners = {o}
  Owner <- OwnerOf
  Kinds = {"PROMISE", "CHANGE", "DEPENDENCY", "FULFILMENT_EVIDENCE", "ARRIVAL"}
  Acts = {"verify_fulfillment"}
  Corrections = {"update"}
  MaxRevision <- RevisionsOf
  MaxItems = 2
  MaxRequests = 1
  MaxChanges = 1
SYMMETRY Symmetry
INVARIANTS TypeOK AnswersFitTheQuestion FindingsSettleOnce StageFitsQueue
CHECK_DEADLOCK FALSE
