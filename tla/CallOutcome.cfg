SPECIFICATION FairSpec
CONSTANTS
  a = a
  b = b
  None = None
  Calls = {a}
  Asks = {a}
  Workers = {w1, w2}
  MaxAttempts = 2
  LeaseOutlivesWork = TRUE
  MaxFaults = 3
  MaxReports = 2
INVARIANTS
  TypeOK
  OneStoryIsTold
PROPERTIES
  ImplementsVerdict
  EveryEndIsAnnounced
CHECK_DEADLOCK FALSE
