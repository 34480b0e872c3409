SPECIFICATION OutboxFairSpec
CONSTANTS
  e1 = e1
  e2 = e2
  e3 = e3
  key = key
  Null = Null
  Events = {e1, e2, e3}
  Workers = {w1, w2}
  KeyOf <- Keys
  ReviewEvents = {e2, e3}
  DispatchOn = FALSE
  MaxAttempts = 2
  BatchSize = 2
  LeasePosts = 1
  MaxRequeues = 1
  MaxMishaps = 1
INVARIANTS
  OutboxTypeOK
  OutcomesAreEarned
PROPERTIES
  ImplementsDelivery
  EveryEventSettles
CHECK_DEADLOCK FALSE
