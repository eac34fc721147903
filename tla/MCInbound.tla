------------------------------ MODULE MCInbound ------------------------------
(* A portal and the room that replaces it; its contact and the owner speak;  *)
(* the Gateway names the only account of the network, two of them, or        *)
(* another one than the portals' own.                                        *)
EXTENDS Inbound

CONSTANTS old, new, ann

MCRooms  == {old, new}
MCOrder  == <<new, old>>
MCPredecessor == [r \in MCRooms |-> IF r = new THEN old ELSE "none"]
MCContacts == {ann}
MCGhost  == [c \in MCContacts |-> "whatsapp"]
MCSeenIn == [c \in MCContacts |-> MCRooms]

Mark == <<[net |-> "whatsapp", bot |-> "homebot"]>>
Entry(id, bot) == [id |-> id, kind |-> "whatsapp", bot |-> bot]
World(registry) ==
  [marks |-> [r \in MCRooms |-> Mark], registry |-> registry,
   account |-> [r \in MCRooms |-> "home"]]
Unnamed == World({Entry("home", "none")})
Named   == World({Entry("home", "homebot"), Entry("work", "workbot")})
Other   == World({Entry("work", "workbot")})
MCWorlds == {Named, Other}
MCAllWorlds == {Unnamed, Named, Other}
MCConnections == {"home", "work"}
MCRemarks == {[by |-> ann, shaped |-> TRUE], [by |-> "owner", shaped |-> TRUE]}
=============================================================================
