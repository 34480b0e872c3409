SPECIFICATION Spec
CONSTANTS
  None = None
  Comms = {c1, c2}
  Legacy = {}
  Wordings = {w1}
  Topics = {t}
  Topic <- TopicOf
  Workers = {k1}
  People = {h1}
  Manual = manual
  MaxAttempts = 2
  MaxRevision <- RevisionsOf
  edited = c2
  MaxItems = 1
  MaxEvents = 1
PROPERTIES TombstonesHold
CHECK_DEADLOCK FALSE
