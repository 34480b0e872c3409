SPECIFICATION MCSpec
CONSTANTS
  None = None
  MaxResponses = 2
  MaxTurns = 2
  MaxRepeats = 1
  MaxSegments = 1
  Tools <- BriefingTools
  LiveTranscript = TRUE
  AiSpeaksFirst = TRUE
INVARIANT
  TypeOK
PROPERTIES
  CallIsHonest
  CallEnds
CHECK_DEADLOCK FALSE
