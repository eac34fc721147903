SPECIFICATION FairSpec
CONSTANTS
  mail = mail
  broken = broken
  room = room
  Mails <- MCMails
  Unusable <- MCNone
  Others <- MCOthers
  HasDrafts = TRUE
  MaxAttempts = 2
  MaxFaults = 1
  MaxStops = 1
  MaxEarly = 1
  MaxLapses = 1
  MaxLate = 1
  MaxMoved = 1
CHECK_DEADLOCK FALSE
INVARIANT
  SentOnce
PROPERTIES
  DisposesOfReplies
  EveryReplySettles
