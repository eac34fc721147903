SPECIFICATION FairInboundSpec
CONSTANTS
  old = old
  new = new
  ann = ann
  Rooms <- MCRooms
  Order <- MCOrder
  Predecessor <- MCPredecessor
  Trusted <- MCRooms
  Contacts <- MCContacts
  Ghost <- MCGhost
  SeenIn <- MCSeenIn
  Worlds <- MCWorlds
  Connections <- MCConnections
  Remarks <- MCRemarks
  Limit = 2
  MaxSaid = 2
  MaxTurns = 2
INVARIANTS InOrder NothingSlipped
PROPERTIES TruthfullyLabelled PredecessorsLeft
CHECK_DEADLOCK FALSE
