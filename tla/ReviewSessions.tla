---------------------------- MODULE ReviewSessions ----------------------------
\* What the two halves of a review share: its sessions, from the first question
\* (OperationalReview) to the instructions at the end (ReviewInstructions).
CONSTANTS Sessions, \* review sessions, one for each request id
          None

ASSUME SessionsAssumption == None \notin Sessions
=============================================================================
