------------------------------ MODULE Inbound ------------------------------
(* From a message in an observed Matrix room to an event on the bus          *)
(* (sensor/src/main.rs: the handlers of invitations, room creations,         *)
(* messages, reactions and presence, PublishTracker, the shutdown; network.rs *)
(* and connection.rs: whose conversation it is).                             *)
(*                                                                           *)
(* matrix-sdk stores the sync token and the rooms' state with each response  *)
(* and then calls the handlers, one event after the other: what a handler    *)
(* does not get to publish is not handed to it again.                        *)
EXTENDS Naturals, Sequences, FiniteSets, FiniteSetsExt

CONSTANTS
  Rooms,        \* the rooms, in no order
  Order,        \* the rooms in the order of their ids
  Predecessor,  \* the room each one replaces, or "none"
  Trusted,      \* the rooms whose inviter SENSOR_ALLOWED_INVITERS names
  Contacts,     \* the people who are neither the owner nor a bridge's bot
  Ghost,        \* the network a contact's localpart names, or "none"
  SeenIn,       \* the rooms each contact is a member of
  Worlds,       \* what the bridges marked and what the Gateway registered
  Connections,  \* every id a registry of Worlds holds
  Remarks,      \* who may speak, and whether in a shape v1 has
  Limit,        \* the events of a room one sync response carries at most
  MaxSaid,      \* bound on messages
  MaxTurns      \* bound on decisions, presence updates, failures (of a join,
                \* a leave, a publication, a drain), shutdowns and crashes

ASSUME OrderAssumption == Order \in [1..Cardinality(Rooms) -> Rooms] /\ {Order[i] : i \in DOMAIN Order} = Rooms
ASSUME BoundsAssumption == Limit \in Nat \ {0} /\ MaxSaid \in Nat /\ MaxTurns \in Nat

\* A remark is a contact's, the owner's, the Sensor's own or a bridge's bot's.
ASSUME PeopleAssumption ==
  /\ IsFiniteSet(Contacts) /\ Contacts \cap {"owner", "self", "bot", "none"} = {}
  /\ Remarks \subseteq [by : Contacts \cup {"owner", "self", "bot"}, shaped : BOOLEAN]

-----------------------------------------------------------------------------
(* Whose conversation it is, as the bridges and the Gateway say it: network.rs *)
(* and connection.rs.                                                        *)

\* room_bridge_contents: the first marker that names a protocol v1 knows, and
\* the first that names its bot.
MarkedNet(w, r) ==
  LET named == {i \in DOMAIN w.marks[r] : w.marks[r][i].net # "unsupported"}
  IN IF named = {} THEN "none" ELSE w.marks[r][Min(named)].net
BotOf(w, r) ==
  LET named == {i \in DOMAIN w.marks[r] : w.marks[r][i].bot # "none"}
  IN IF named = {} THEN "none" ELSE w.marks[r][Min(named)].bot

\* network::resolve: a marker's protocol, the sender's ghost prefix, or a room
\* no bridge marked.
NetworkOf(w, r, who) ==
  LET ghost == IF who \in Contacts THEN Ghost[who] ELSE "none"
  IN CASE MarkedNet(w, r) # "none" -> MarkedNet(w, r)
       [] MarkedNet(w, r) = "none" /\ ghost # "none" -> ghost
       [] OTHER -> IF w.marks[r] = <<>> THEN "matrix" ELSE "none"

\* Registry::resolve: the entry that names the room's bot, or the only entry of
\* its kind when it or the room names none.
Sole(w, bot, e) == {f \in w.registry : f.kind = e.kind} = {e} /\ (e.bot = "none" \/ bot = "none")

ConnectionOf(w, r, net) ==
  LET bot   == BotOf(w, r)
      named == {e \in w.registry : bot # "none" /\ e.bot = bot}
      only  == {e \in w.registry : e.kind = net /\ Sole(w, bot, e)}
  IN CASE named # {} -> (CHOOSE e \in named : TRUE).id
       [] named = {} /\ only # {} -> (CHOOSE e \in only : TRUE).id
       [] OTHER -> "none"

\* The networks a room's traffic may be named after.
NamesFor(w, r) ==
  {NetworkOf(w, r, who) : who \in Contacts \cup {"owner"}} \cup {Ghost[c] : c \in {d \in Contacts : r \in SeenIn[d]}}

\* What the Gateway registers: a bot is of the account whose rooms it marks, and
\* an account registered without its bot, or asked for without one, is the
\* only one of its network.
ASSUME WorldsAssumption ==
  \A w \in Worlds : \A e \in w.registry :
    /\ e.id \in Connections /\ e.id # "none"
    /\ \A r \in Rooms :
         (e.bot # "none" /\ e.bot = BotOf(w, r)) \/ (e.kind \in NamesFor(w, r) /\ Sole(w, BotOf(w, r), e))
           => e.id = w.account[r]

VARIABLES
  \* The homeserver.
  world,      \* marks and accounts of the rooms, and the Gateway's registry
  timeline,   \* what was said in each room, the tombstone included
  member,     \* the Sensor's membership of each room
  \* The SDK's store, durable.
  seen,       \* how far into each room the stored token is
  known,      \* the rooms whose creation was delivered
  offered,    \* the rooms whose invitation was delivered
  \* The Sensor's process.
  phase,      \* off, waiting for the consent snapshot, syncing, or draining
  batch,      \* events of the last sync not handled yet
  current,    \* the event in hand
  flying,     \* publications spawned and not yet ended
  swept,      \* whether leave_replaced_predecessors ran in this process
  consent,    \* the consent cache, by contact and connection
  \* The bus.
  log,
  \* What happened, for the properties and the bounds.
  lived,      \* the labels in force since the event in hand was taken
  missed,     \* messages a fault kept from the bus
  beyond,     \* messages no sync delivered
  stray,      \* messages dropped because their room was replaced
  unleft,     \* rooms that could not be left
  turns       \* decisions, presence updates, failures and stops so far

hsVars     == <<world, timeline, member>>
storeVars  == <<seen, known, offered>>
procVars   == <<phase, batch, current, flying, swept>>
histVars   == <<lived, missed, beyond, stray, unleft>>
inboundVars == <<hsVars, storeVars, procVars, consent, log, histVars, turns>>

Labels == {"pending", "granted", "revoked"}
Nothing == [stage |-> "idle"]

Turn(n) == turns + n <= MaxTurns /\ turns' = turns + n

-----------------------------------------------------------------------------
\* replacement_room: the store holds a tombstone of the room.
Replaced(r) == \E i \in 1..seen[r] : timeline[r][i].what = "tombstone"

-----------------------------------------------------------------------------
InboundInit ==
  /\ world \in Worlds
  /\ timeline = [r \in Rooms |-> <<>>]
  /\ member = [r \in Rooms |-> IF Predecessor[r] = "none" THEN "invited" ELSE "none"]
  /\ seen = [r \in Rooms |-> 0] /\ known = {} /\ offered = {}
  /\ phase = "off" /\ batch = {} /\ current = Nothing /\ flying = {} /\ swept = "no"
  /\ consent = [c \in Contacts |-> [k \in Connections |-> "pending"]]
  /\ log = <<>>
  /\ lived = {} /\ missed = {} /\ beyond = {} /\ stray = {} /\ unleft = {}
  /\ turns = 0

-----------------------------------------------------------------------------
(* The rooms, and the owner's decisions.                                     *)

SaidIn(r) == {i \in 1..Len(timeline[r]) : timeline[r][i].what = "message"}
Said == UNION {{r} \X SaidIn(r) : r \in Rooms}

\* A message or a reaction, which may refer to an earlier message of its room.
Say(r, remark, quoted) ==
  /\ member[r] # "none" /\ Cardinality(Said) < MaxSaid
  /\ quoted = 0 \/ <<r, quoted>> \in Said
  /\ timeline' = [timeline EXCEPT ![r] = Append(@,
       [what |-> "message", by |-> remark.by, shaped |-> remark.shaped, quotes |-> quoted])]
  /\ UNCHANGED <<world, member, storeVars, procVars, consent, log, histVars, turns>>

\* The bridge makes the room that replaces another and invites the Sensor ...
Succeed(r) ==
  /\ member[r] = "none"
  /\ member' = [member EXCEPT ![r] = "invited"]
  /\ UNCHANGED <<world, timeline, storeVars, procVars, consent, log, histVars, turns>>

\* ... and marks the one it replaces.
Entomb(r) ==
  /\ Predecessor[r] # "none" /\ member[r] # "none"
  /\ LET prior == Predecessor[r] IN
       /\ \A i \in DOMAIN timeline[prior] : timeline[prior][i].what # "tombstone"
       /\ timeline' = [timeline EXCEPT ![prior] = Append(@,
            [what |-> "tombstone", by |-> "bot", shaped |-> FALSE, quotes |-> 0])]
  /\ UNCHANGED <<world, member, storeVars, procVars, consent, log, histVars, turns>>

\* The consent consumer applies a decision, whatever the handler awaits.
Decide(c, k, label) ==
  /\ Turn(1)
  /\ consent[c][k] # label
  /\ consent' = [consent EXCEPT ![c][k] = label]
  /\ lived' = IF current = Nothing THEN lived ELSE lived \cup {<<c, k, label>>}
  /\ UNCHANGED <<hsVars, storeVars, procVars, log, missed, beyond, stray, unleft>>

-----------------------------------------------------------------------------
(* The process, and one sync after the other.                                *)

Start ==
  /\ phase = "off" /\ phase' = "waiting" /\ swept' = "no"
  /\ UNCHANGED <<hsVars, storeVars, batch, current, flying, consent, log, histVars, turns>>

\* bring_up_consent returns: nothing is read from Matrix before.
SnapshotArrives ==
  /\ phase = "waiting" /\ phase' = "syncing"
  /\ UNCHANGED <<hsVars, storeVars, batch, current, flying, swept, consent, log, histVars, turns>>

\* The newest events of a room the response has room for.
First(r) == IF Len(timeline[r]) > seen[r] + Limit THEN Len(timeline[r]) - Limit + 1 ELSE seen[r] + 1

Event(what, r, i, c) == [what |-> what, room |-> r, idx |-> i, by |-> c]

Joined  == {r \in Rooms : member[r] = "in"}
Invites == {r \in Rooms : member[r] = "invited" /\ r \notin offered}
Visible == {c \in Contacts : \E r \in SeenIn[c] : r \in Joined}

\* A joined room's part: its creation when it is new, then its messages.
Part(r) ==
  {Event("create", q, 0, "none") : q \in {r} \ known}
    \cup {Event("message", r, i, "none") : i \in {j \in SaidIn(r) : First(r) <= j}}

Sync ==
  /\ phase = "syncing" /\ batch = {} /\ current = Nothing /\ swept # "due"
  /\ \E shown \in SUBSET Visible :
       /\ Turn(Cardinality(shown))
       /\ batch' = {Event("invite", r, 0, "none") : r \in Invites}
                   \cup {Event("presence", "none", 0, c) : c \in shown}
                   \cup UNION {Part(r) : r \in Joined}
  /\ seen' = [r \in Rooms |-> IF r \in Joined THEN Len(timeline[r]) ELSE seen[r]]
  /\ known' = known \cup Joined
  /\ offered' = offered \cup Invites
  /\ beyond' = beyond \cup UNION {{r} \X {i \in SaidIn(r) : seen[r] < i /\ i < First(r)} : r \in Joined}
  /\ swept' = IF swept = "no" THEN "due" ELSE swept
  /\ UNCHANGED <<world, timeline, member, phase, current, flying, consent, log,
                 lived, missed, stray, unleft>>

\* The rooms' parts come in the order of the rooms' ids, before the rest.
Place(r) == CHOOSE i \in DOMAIN Order : Order[i] = r

Earlier(e, f) ==
  \/ e.what \in {"create", "message"} /\ f.what \in {"invite", "presence"}
  \/ e.what = "invite" /\ f.what = "presence"
  \/ /\ e.what \in {"create", "message"} /\ f.what \in {"create", "message"}
     /\ Place(e.room) < Place(f.room) \/ (e.room = f.room /\ e.idx < f.idx)

Handles(e, what) ==
  /\ phase = "syncing" /\ current = Nothing
  /\ e.what = what /\ \A f \in batch : ~Earlier(f, e)
  /\ batch' = batch \ {e}

\* An invitation is accepted from those the deployment names, once.
HandleInvite(e) ==
  /\ Handles(e, "invite")
  /\ LET r == e.room IN
       \/ r \in Trusted /\ member' = [member EXCEPT ![r] = "in"] /\ UNCHANGED turns
       \/ r \in Trusted /\ Turn(1) /\ UNCHANGED member
       \/ r \notin Trusted /\ UNCHANGED <<member, turns>>
  /\ UNCHANGED <<world, timeline, storeVars, phase, current, flying, swept, consent, log,
                 histVars>>

\* Every room of gone is left, or one of them cannot be.
Leave(gone) ==
  \/ /\ member' = [r \in Rooms |-> IF r \in gone THEN "left" ELSE member[r]]
     /\ UNCHANGED <<unleft, turns>>
  \/ /\ Turn(1)
     /\ \E r \in gone :
          /\ unleft' = unleft \cup {r}
          /\ member' = [q \in Rooms |-> IF q \in gone \ {r} THEN "left" ELSE member[q]]

\* The room a new room replaced is left, if the Sensor is in it.
HandleCreate(e) ==
  /\ Handles(e, "create")
  /\ Leave({p \in Rooms : p = Predecessor[e.room] /\ member[p] = "in"})
  /\ UNCHANGED <<world, timeline, storeVars, phase, current, flying, swept, consent, log,
                 lived, missed, beyond, stray>>

\* Variant: a restart is no reason to look at what is already joined.
SweepNothing ==
  /\ swept = "due" /\ batch = {} /\ current = Nothing /\ phase = "syncing"
  /\ swept' = "done"
  /\ UNCHANGED <<hsVars, storeVars, phase, batch, current, flying, consent, log, histVars, turns>>

\* leave_replaced_predecessors, in the callback of a process's first sync.
Sweep ==
  /\ swept = "due" /\ batch = {} /\ current = Nothing /\ phase = "syncing"
  /\ swept' = "done"
  /\ Leave({p \in Rooms : member[p] = "in"
              /\ \E r \in known : member[r] = "in" /\ Predecessor[r] = p})
  /\ UNCHANGED <<world, timeline, storeVars, phase, batch, current, flying, consent, log,
                 lived, missed, beyond, stray>>

-----------------------------------------------------------------------------
(* One event.                                                                *)

Message(e) == timeline[e.room][e.idx]

\* Its own traffic, a bridge's bot, a shape without a v1 event (an edit or
\* what could not be decrypted among them), an unsupported bridge's portal, or
\* a room no connection covers.
NobodysNews(e) ==
  LET m   == Message(e)
      net == NetworkOf(world, e.room, m.by)
  IN m.by \in {"self", "bot"} \/ ~m.shaped \/ net = "none" \/ ConnectionOf(world, e.room, net) = "none"

Drop(e) ==
  /\ Handles(e, "message")
  /\ NobodysNews(e) \/ Replaced(e.room)
  /\ stray' = IF NobodysNews(e) THEN stray ELSE stray \cup {<<e.room, e.idx>>}
  /\ UNCHANGED <<hsVars, storeVars, phase, current, flying, swept, consent, log,
                 lived, missed, beyond, unleft, turns>>

InForce == {<<c, k, consent[c][k]>> : c \in Contacts, k \in Connections}

\* The event about to be published: its label is read before what it quotes is
\* fetched, and there is none on the owner's own.
Draft(r, i, by, net, quotes) ==
  LET k     == ConnectionOf(world, r, net)
      label == IF by = "owner" THEN "none" ELSE consent[by][k]
  IN [stage |-> IF quotes = 0 \/ label = "revoked" THEN "ready" ELSE "quoting",
      room |-> r, idx |-> i, by |-> by, connection |-> k, label |-> label, excerpt |-> "none"]

TakeMessage(e) ==
  /\ Handles(e, "message")
  /\ ~NobodysNews(e) /\ ~Replaced(e.room)
  /\ LET m == Message(e)
     IN current' = Draft(e.room, e.idx, m.by, NetworkOf(world, e.room, m.by), m.quotes)
  /\ lived' = InForce
  /\ UNCHANGED <<hsVars, storeVars, phase, flying, swept, consent, log,
                 missed, beyond, stray, unleft, turns>>

\* The shared rooms that resolve to a network.
Shared(c) ==
  {r \in SeenIn[c] : r \in Joined /\ ~Replaced(r) /\ NetworkOf(world, r, c) # "none"}

\* network::subject_network.
SubjectNetwork(c) ==
  LET nets == {NetworkOf(world, r, c) : r \in Shared(c)}
  IN CASE Ghost[c] # "none" -> Ghost[c]
       [] Ghost[c] = "none" /\ "matrix" \in nets -> "matrix"
       [] OTHER -> IF Cardinality(nets) = 1 THEN CHOOSE n \in nets : TRUE ELSE "none"

\* The room a presence update is named after: the first shared one of its
\* subject's own network, or the first shared one.
NamedAfter(c) ==
  LET own   == {r \in Shared(c) : NetworkOf(world, r, c) = SubjectNetwork(c)}
      rooms == IF own = {} THEN Shared(c) ELSE own
  IN {r \in rooms : /\ \A q \in rooms : Place(r) <= Place(q)
                    /\ SubjectNetwork(c) # "none" /\ ConnectionOf(world, r, SubjectNetwork(c)) # "none"}

\* A presence update is labelled by the connection of that room, or dropped.
HandlePresence(e) ==
  /\ Handles(e, "presence")
  /\ IF NamedAfter(e.by) = {} THEN UNCHANGED <<current, lived>>
     ELSE \E r \in NamedAfter(e.by) :
            current' = Draft(r, 0, e.by, SubjectNetwork(e.by), 0) /\ lived' = InForce
  /\ UNCHANGED <<hsVars, storeVars, phase, flying, swept, consent, log,
                 missed, beyond, stray, unleft, turns>>

\* Variant: a grant on one of the owner's accounts is one on all of them.
QuotableAnywhere(a) ==
  \/ a \in {"self", "owner"}
  \/ a \in Contacts /\ NetworkOf(world, current.room, a) # "none"
       /\ \E k \in Connections : consent[a][k] = "granted"

\* QuotedAuthor::is_granted: the owner's words, or a contact's the owner granted.
Quotable(a) ==
  \/ a \in {"self", "owner"}
  \/ a \in Contacts /\ NetworkOf(world, current.room, a) # "none" /\ consent[a][current.connection] = "granted"

\* quoted_message: the homeserver answers, or the excerpt is left out.
Quote ==
  /\ phase = "syncing" /\ current # Nothing /\ current.stage = "quoting"
  /\ LET author == timeline[current.room][Message(current).quotes].by IN
       current' \in {[current EXCEPT !.stage = "ready"],
                 [current EXCEPT !.stage = "ready",
                             !.excerpt = IF Quotable(author) THEN author ELSE "none"]}
  /\ UNCHANGED <<hsVars, storeVars, phase, batch, flying, swept, consent, log, histVars, turns>>

Publication == [room |-> current.room, idx |-> current.idx, by |-> current.by,
                connection |-> current.connection, label |-> current.label, excerpt |-> current.excerpt]

\* Variant: the handler does not wait for the task it spawned.
SpawnAndGoOn ==
  /\ phase = "syncing" /\ current # Nothing /\ current.stage = "ready"
  /\ flying' = flying \cup {Publication}
  /\ current' = Nothing /\ lived' = {}
  /\ UNCHANGED <<hsVars, storeVars, phase, batch, swept, consent, log,
                 missed, beyond, stray, unleft, turns>>

\* PublishTracker::publish: a task of its own, awaited by the handler.
Spawn ==
  /\ phase = "syncing" /\ current # Nothing /\ current.stage = "ready"
  /\ flying' = flying \cup {Publication}
  /\ current' = [current EXCEPT !.stage = "awaiting"]
  /\ UNCHANGED <<hsVars, storeVars, phase, batch, swept, consent, log, histVars, turns>>

Stored(p) == p.idx # 0 /\ \E n \in DOMAIN log : log[n].room = p.room /\ log[n].idx = p.idx

Stow(p) == log' = IF Stored(p) THEN log ELSE Append(log, p)

Ids(events) == {<<e.room, e.idx>> : e \in {x \in events : x.idx # 0}}

\* The task ended: its event is stored, or its failure was logged.
Ended(p) ==
  /\ flying' = flying \ {p}
  /\ current' = Nothing /\ lived' = {}

Land(p) ==
  /\ phase \in {"syncing", "draining"} /\ p \in flying
  /\ Stow(p) /\ Ended(p)
  /\ UNCHANGED <<hsVars, storeVars, phase, batch, swept, consent,
                 missed, beyond, stray, unleft, turns>>

Fail(p) ==
  /\ phase \in {"syncing", "draining"} /\ p \in flying
  /\ Turn(1)
  /\ Ended(p)
  /\ missed' = missed \cup Ids({p})
  /\ UNCHANGED <<hsVars, storeVars, phase, batch, swept, consent, log,
                 beyond, stray, unleft>>

-----------------------------------------------------------------------------
(* The end of a process.                                                     *)

\* What the loop holds and has not spawned: the token is past it.
InHand == Ids(batch \cup (IF current = Nothing \/ current.stage = "awaiting" THEN {} ELSE {current}))

\* Variant: the process ends with the loop, and no publication is waited for.
ShutdownUndrained ==
  /\ phase \in {"waiting", "syncing"} /\ Turn(1)
  /\ missed' = missed \cup InHand
  /\ batch' = {} /\ current' = Nothing /\ flying' = {} /\ lived' = {} /\ phase' = "off"
  /\ UNCHANGED <<hsVars, storeVars, swept, consent, log, beyond, stray, unleft>>

\* SIGTERM: the sync loop is dropped with its handlers, the tasks go on.
Shutdown ==
  /\ phase \in {"waiting", "syncing"} /\ Turn(1)
  /\ missed' = missed \cup InHand
  /\ batch' = {} /\ phase' = "draining"
  /\ current' = IF flying = {} THEN Nothing ELSE current
  /\ UNCHANGED <<hsVars, storeVars, flying, swept, consent, log, lived, beyond, stray, unleft>>

Drained ==
  /\ phase = "draining" /\ flying = {} /\ phase' = "off"
  /\ UNCHANGED <<hsVars, storeVars, batch, current, flying, swept, consent, log, histVars, turns>>

\* The process dies, or its five seconds of draining are over; what it had
\* sent to the bus is stored or not.
Die ==
  /\ phase \in {"waiting", "syncing"} \/ (phase = "draining" /\ flying # {})
  /\ Turn(1)
  /\ \/ /\ UNCHANGED log
        /\ missed' = missed \cup InHand \cup Ids(flying)
     \/ /\ \E p \in flying : Stow(p)
        /\ missed' = missed \cup InHand
  /\ batch' = {} /\ current' = Nothing /\ flying' = {} /\ lived' = {} /\ phase' = "off"
  /\ UNCHANGED <<hsVars, storeVars, swept, consent, beyond, stray, unleft>>

-----------------------------------------------------------------------------
SensorWork ==
  \/ Sync \/ Sweep
  \/ \E e \in batch : HandleInvite(e) \/ HandleCreate(e) \/ HandlePresence(e) \/ Drop(e) \/ TakeMessage(e)
  \/ Quote \/ Spawn
  \/ \E p \in flying : Land(p) \/ Fail(p)
  \/ Drained

InboundNext ==
  \/ \E r \in Rooms, v \in Remarks, q \in 0..MaxSaid : Say(r, v, q)
  \/ \E r \in Rooms : Succeed(r) \/ Entomb(r)
  \/ \E c \in Contacts, k \in Connections, label \in Labels : Decide(c, k, label)
  \/ Start \/ SnapshotArrives
  \/ SensorWork
  \/ Shutdown \/ Die

InboundSpec == InboundInit /\ [][InboundNext]_inboundVars

\* The container is started again, the Gateway answers, the loop goes round.
FairInboundSpec == InboundSpec /\ WF_inboundVars(Start) /\ WF_inboundVars(SnapshotArrives) /\ WF_inboundVars(SensorWork)

-----------------------------------------------------------------------------
(* Properties.                                                               *)

Utterances ==
  [what : {"message", "tombstone"}, by : Contacts \cup {"owner", "self", "bot"},
   shaped : BOOLEAN, quotes : 0..MaxSaid]
Events ==
  [what : {"create", "message", "invite", "presence"}, room : Rooms \cup {"none"},
   idx : Nat, by : Contacts \cup {"none"}]
Publications ==
  [room : Rooms, idx : Nat, by : Contacts \cup {"owner"}, connection : Connections,
   label : Labels \cup {"none"}, excerpt : Contacts \cup {"none", "owner", "self"}]
Drafts ==
  [stage : {"quoting", "ready", "awaiting"}, room : Rooms, idx : Nat,
   by : Contacts \cup {"owner"}, connection : Connections,
   label : Labels \cup {"none"}, excerpt : Contacts \cup {"none", "owner", "self"}]

InboundTypeOK ==
  /\ world \in Worlds /\ timeline \in [Rooms -> Seq(Utterances)]
  /\ member \in [Rooms -> {"none", "invited", "in", "left"}]
  /\ seen \in [Rooms -> Nat] /\ \A r \in Rooms : seen[r] <= Len(timeline[r])
  /\ known \subseteq Rooms /\ offered \subseteq Rooms
  /\ phase \in {"off", "waiting", "syncing", "draining"} /\ swept \in {"no", "due", "done"}
  /\ batch \subseteq Events /\ current \in {Nothing} \cup Drafts /\ flying \subseteq Publications
  /\ consent \in [Contacts -> [Connections -> Labels]]
  /\ log \in Seq(Publications)
  /\ lived \subseteq Contacts \X Connections \X Labels
  /\ missed \cup beyond \cup stray \subseteq Said /\ unleft \subseteq Rooms
  /\ turns \in 0..MaxTurns

\* A room's events are on the bus in the room's order, each once, through
\* restarts (PublishTracker::publish "keeps the handler's ordering").
InOrder ==
  \A m, n \in DOMAIN log :
    m < n /\ log[m].room = log[n].room /\ log[m].idx # 0 /\ log[n].idx # 0
      => log[m].idx < log[n].idx

\* An event is stamped with the connection of the account its room belongs to,
\* never another's; it carries a decision about its sender there, in force
\* while it was handled, and nobody's words but the owner's or those of an
\* author granted there meanwhile, never under a revoked label
\* (connection_of, quoted_message, QuotedExcerpt::publishable).
TruthfullyLabelled ==
  [][\A n \in DOMAIN log' \ DOMAIN log :
       LET e == log'[n] IN
         /\ e.connection = world.account[e.room]
         /\ e.by \in Contacts => <<e.by, e.connection, e.label>> \in lived
         /\ e.excerpt \in Contacts =>
              /\ e.label # "revoked"
              /\ <<e.excerpt, e.connection, "granted">> \in lived]_inboundVars

Publishable(r, i) ==
  /\ timeline[r][i].what = "message"
  /\ ~NobodysNews(Event("message", r, i, "none"))

\* What the token is past is on the bus, on its way, or accounted for by a
\* fault, a limited timeline or a replaced room; a publication that was begun
\* before a shutdown is not lost to it (the drain of PublishTracker).
NothingSlipped ==
  \A r \in Rooms : \A i \in 1..seen[r] : Publishable(r, i) =>
    \/ Stored([room |-> r, idx |-> i])
    \/ <<r, i>> \in missed \cup beyond \cup stray \cup InHand \cup Ids(flying)

\* A room is left once the one that replaced it is joined, whatever restarts
\* between the sync that shows the new one and the handler of its creation,
\* unless leaving failed ("one conversation, one membership, one room counted").
PredecessorsLeft ==
  \A r \in Rooms :
    (member[r] = "in" /\ \E s \in Rooms : Predecessor[s] = r /\ member[s] = "in")
      ~> (member[r] # "in" \/ r \in unleft)

\* "messages received during the wait are delivered late, and none is lost or
\* mislabelled" (main.rs:3732): what was said in a joined room since the last
\* process synced is in the first response of the next.
NoneIsLost == [][swept = "no" => \A x \in beyond' \ beyond : x[1] \notin known]_inboundVars

\* "what still arrives here is stray" (main.rs:3022): what is dropped was said
\* after the room was replaced.
StrayIsAfter ==
  \A x \in stray : \E i \in 1..x[2] - 1 : timeline[x[1]][i].what = "tombstone"
=============================================================================
