SPECIFICATION Spec
CONSTANTS
  None = None
  Messages = {m}
  Call = call
  Workers = {w1, w2}
  Transcribers = {t1, t2}
  Scenes <- ScenesOf
  MaxAttempts = 2
INVARIANTS TypeOK MemoryIsRead AudioIsKept
PROPERTIES EveryJobSettles
CHECK_DEADLOCK FALSE
