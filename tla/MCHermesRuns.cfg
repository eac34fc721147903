SPECIFICATION FairSpec
CONSTANTS
    perso = perso
    pro = pro
    work = work
    whatsapp = whatsapp
    matrix = matrix
    Connections <- MCConnections
    Networks <- MCNetworks
    NetworkOf <- MCNetworkOf
    Base = 1
    Cap = 4
    StartFailures = 2
    MaxDecisions = 3
    MaxFailures = 4
    MaxFaults = 1
CHECK_DEADLOCK FALSE
INVARIANT
  ByTheLastWord
PROPERTIES
  OneEpisode
  DecisionsTake
  PersonaRuns
