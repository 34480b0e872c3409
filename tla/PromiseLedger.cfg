SPECIFICATION Spec
CONSTANTS
  None = None
  Comms = {c1}
  Legacy = {c1}
  Wordings = {w1, w2}
  Topics = {t}
  Topic <- TopicOf
  Workers = {k1, k2}
  People = {h1}
  Manual = manual
  MaxAttempts = 2
  MaxRevision <- RevisionsOf
  edited = c1
  MaxItems = 1
  MaxEvents = 2
SYMMETRY Symmetry
INVARIANTS TypeOK ConfirmedMeansSeen EvidenceIsKeptUp
CHECK_DEADLOCK FALSE
