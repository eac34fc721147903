SPECIFICATION FairSpec
CONSTANTS
  Reported <- MCReported
  Grace = 2
  MaxSeconds = 3
  MaxMoves = 3
  MaxFaults = 1
  MaxStops = 1
CHECK_DEADLOCK FALSE
INVARIANTS
  ChangesChain
  AgreesWhenCalm
PROPERTIES
  OutagesLasted
  TellsInTheEnd
