SPECIFICATION FairSpec
CONSTANTS
  alice = alice
  default = default
  assistant = assistant
  whatsapp = whatsapp
  Contacts <- MCContacts
  Networks <- MCNetworks
  Personas <- MCPersonas
  Connections <- MCConnections
  Takeable <- MCTakeable
  DrainBatch = 2
  MaxDecisions = 2
  MaxTraffic = 1
  MaxFailures = 1
  MaxExpiries = 1
  MaxStops = 1
  MaxLostAcks = 1
  MaxRebuilds = 1
CHECK_DEADLOCK FALSE
INVARIANTS
  HandOff
  FaithfulWhenCalm
PROPERTIES
  LabelsCatchUp
  FeedSpec
