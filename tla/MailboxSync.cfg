SPECIFICATION SyncSpec
CONSTANTS
  None = None
  Sent = sent
  AskThread = askThread
  OtherThreads = {t1, t2, t3, t4, t5}
  Mails = {reply, auto, first, second, third}
  Reports = {late, bounce}
  Workers = {w1, w2}
  Syncers = {s1, s2}
  s1 = s1
  s2 = s2
  Requests = {q1, q2}
  reply = reply
  auto = auto
  first = first
  second = second
  third = third
  w1 = w1
  w2 = w2
  q1 = q1
  q2 = q2
  late = late
  bounce = bounce
  Mail <- MailOf
  Kind <- KindOf
  Person <- PersonOf
  Scenes <- ScenesOf
  MaxAttempts = 2
INVARIANTS SyncTypeOK NoMailIsLost AskKeepsItsAnswer
PROPERTIES SettledAskIsLeftAlone CorrectionsOutrankScores AllMailSettles
CHECK_DEADLOCK FALSE
