\* A portal's reply, a broken one and a mail; two devices, a revocation, a restart, a fault.
SPECIFICATION FairSpec
CONSTANTS
  bridged = bridged
  direct = direct
  broken = broken
  mail = mail
  Portals <- MCPortals
  Natives <- MCNone
  Unusable <- MCUnusable
  Others <- MCOthers
  MaxDevices = 2
  MaxAttempts = 2
  MaxFaults = 1
  MaxStops = 1
  MaxEarly = 0
  MaxRevocations = 1
CHECK_DEADLOCK FALSE
INVARIANT
  ReportsAreTrue
PROPERTIES
  DisposesOfReplies
  NeverFallsBack
  EveryReplySettles
