--------------------------- MODULE ConsentPipeline ---------------------------
(* A consent decision's way from the owner's tap to the label on a message:  *)
(*                                                                           *)
(*   Companion Gateway    journal + outbox     companion-gateway/src/store.rs *)
(*                                             companion-gateway/src/outbox.rs*)
(*   NATS JetStream       stream `twalk`, its duplicate window and the        *)
(*                        Sensor's durable consumer (external)                *)
(*   Sensor               snapshot, consumer   sensor/src/main.rs             *)
(*                        in-memory cache      consent-cache/src/lib.rs       *)
(*                                                                           *)
(* A journal row is named by its `sequence`, an index of `journal`; the event *)
(* id of a row (a hash of its natural key) is one to one with that sequence,  *)
(* so the bus de-duplicates on the sequence here.  A stream sequence is an    *)
(* index of `log`.                                                            *)
EXTENDS Integers, Sequences, FiniteSets, FiniteSetsExt

CONSTANTS
  Contacts,       \* subjects whose messages a Sensor labels
  Networks,       \* subjects of a network default
  Personas,       \* subjects of a persona decision: these label nobody
  Connections,    \* the bridged accounts a decision can cover
  Takeable,       \* the decisions the owner may take, a subset of Decision
  DrainBatch,     \* DRAIN_BATCH
  MaxDecisions,   \* bound on the journal
  MaxTraffic,     \* bound on the other messages of stream `twalk`
  MaxFailures,    \* bound on Gateway crashes and publications that fail
  MaxExpiries,    \* bound on ids that leave the duplicate window early
  MaxStops,       \* bound on Sensor crashes
  MaxLostAcks,    \* bound on consumer acks that do not reach the bus
  MaxRebuilds     \* bound on consumer incarnations that end

States == {"granted", "pending", "revoked"}

Subjects == Contacts \cup Networks \cup Personas

Decision ==
  [subject : Subjects, scope : (SUBSET Connections) \ {{}}, state : States]

ASSUME TakeableAssumption == Takeable \subseteq Decision
ASSUME BatchAssumption == DrainBatch \in Nat \ {0}
ASSUME BoundsAssumption ==
  /\ MaxDecisions \in Nat
  /\ MaxTraffic \in Nat
  /\ MaxFailures \in Nat
  /\ MaxExpiries \in Nat
  /\ MaxStops \in Nat
  /\ MaxLostAcks \in Nat
  /\ MaxRebuilds \in Nat

VARIABLES
  \* The Gateway's store, durable.
  journal,    \* consent_decision, oldest first
  position,   \* stream_sequence of each row, 0 for NULL
  \* The Gateway's drain loop, volatile.
  waiting,    \* the rows of the current pass that are still to publish
  ack,        \* the publication ack in hand for the first of them, or 0
  \* The bus, durable.
  log,        \* the row each stored message carries, 0 for another event type
  window,     \* the rows whose id the duplicate window still holds
  next,       \* the durable's next new stream sequence, 0 before it exists
  pending,    \* the stream sequences delivered and not acked
  \* The Sensor, volatile.
  phase,      \* "down", "ready" (snapshot applied) or "consuming"
  start,      \* the snapshot's next_stream_sequence
  inbox,      \* delivered messages the loop has not reached, in arrival order
  cache,      \* the consent cache, a state or "none" per (subject, connection)
  \* Budgets of the faults above, and what the faults of this incarnation were.
  failures, expiries, stops, lostAcks, rebuilds,
  calm        \* nothing so far has set delivery and snapshot apart

gatewayVars == <<journal, position, waiting, ack>>
busVars     == <<log, window>>
durableVars == <<next, pending>>
sensorVars  == <<phase, start, inbox, cache, calm>>
budgetVars  == <<failures, expiries, stops, lostAcks, rebuilds>>
vars == <<gatewayVars, busVars, durableVars, sensorVars, budgetVars>>

-----------------------------------------------------------------------------
(* The journal and its projections.                                          *)

Rows == DOMAIN journal

\* `SELECT ... WHERE published_at IS NULL`: the mark and the position are one
\* UPDATE, so a row is unpublished exactly when it has no position.
Unpublished == {i \in Rows : position[i] = 0}

\* Variant: a horizon that does not wait for the bus.
HorizonOfJournal == Len(journal)

\* The view consent_snapshot_horizon.
Horizon == IF Unpublished = {} THEN Len(journal) ELSE Min(Unpublished) - 1

\* The stream sequence a snapshot names: the horizon row's, 0 with no such row.
StreamSequence == IF Horizon = 0 THEN 0 ELSE position[Horizon]

\* What a cache is keyed on. A persona decision has no key.
Keys == (Contacts \cup Networks) \X Connections

Covers(d, key) == d.subject = key[1] /\ key[2] \in d.scope

\* The rows up to k that decide a key; the last of them is its current state.
Deciding(k, key) == {i \in 1..k : Covers(journal[i], key)}

\* The view consent_snapshot over the first k rows, as a cache holds it.
StateAt(k) ==
  [key \in Keys |->
    IF Deciding(k, key) = {} THEN "none" ELSE journal[Max(Deciding(k, key))].state]

\* ConsentCache::apply, last writer wins.
Applied(states, d) ==
  [key \in Keys |-> IF Covers(d, key) THEN d.state ELSE states[key]]

\* ConsentCache::state, a contact's own decision, else the default, else pending.
Label(states, contact, network, connection) ==
  CASE states[contact, connection] # "none" -> states[contact, connection]
    [] states[contact, connection] = "none"
       /\ states[network, connection] # "none" -> states[network, connection]
    [] OTHER -> "pending"

EmptyCache == [key \in Keys |-> "none"]

-----------------------------------------------------------------------------
(* The stream.                                                               *)

\* The stored messages of row r; r = 0 gives the other traffic.
CopiesOf(r) == {p \in DOMAIN log : log[p] = r}

\* The stored consent events: the durable's filter subject.
Events == {p \in DOMAIN log : log[p] # 0}

\* The last row among the events before stream sequence p.
LastRowBefore(p) == Max({0} \cup {log[q] : q \in {e \in Events : e < p}})

Outstanding == {inbox[i] : i \in DOMAIN inbox}

\* How far the Sensor's loop has come along the stream: up to the first event
\* it holds and will apply, or up to the first one it was not handed yet.
Unapplied == {p \in Outstanding : p >= start}

Frontier ==
  IF Unapplied # {} THEN Min(Unapplied) ELSE IF next > start THEN next ELSE start

-----------------------------------------------------------------------------
Init ==
  /\ journal = <<>> /\ position = <<>> /\ waiting = {} /\ ack = 0
  /\ log = <<>> /\ window = {} /\ next = 0 /\ pending = {}
  /\ phase = "down" /\ start = 0 /\ inbox = <<>> /\ cache = EmptyCache
  /\ failures = 0 /\ expiries = 0 /\ stops = 0 /\ lostAcks = 0 /\ rebuilds = 0
  /\ calm = TRUE

-----------------------------------------------------------------------------
(* The Gateway: commit, then publish, then mark published.                   *)

\* Outbox::record and Store::record: one row, in one transaction.
Record(d) ==
  /\ Len(journal) < MaxDecisions
  /\ journal' = Append(journal, d)
  /\ position' = Append(position, 0)
  /\ UNCHANGED <<waiting, ack, busVars, durableVars, sensorVars, budgetVars>>

\* drain reads its batch: the oldest unpublished rows, DRAIN_BATCH at most.
DrainRead ==
  /\ waiting = {} /\ Unpublished # {}
  /\ waiting' = {i \in Unpublished :
                   Cardinality({j \in Unpublished : j < i}) < DrainBatch}
  /\ UNCHANGED <<journal, position, ack, busVars, durableVars, sensorVars, budgetVars>>

\* The bus stores the event of row r under its Nats-Msg-Id, or recognises the
\* id and keeps what it holds; `answer` is the sequence its ack carries.
Store(r, answer) ==
  IF r \in window
  THEN /\ answer = Max(CopiesOf(r))
       /\ UNCHANGED busVars
  ELSE /\ answer = Len(log) + 1
       /\ log' = Append(log, r)
       /\ window' = window \cup {r}

\* The oldest waiting row is published and its ack arrives.
DrainPublish ==
  /\ waiting # {} /\ ack = 0
  /\ \E answer \in 1..(Len(log) + 1) :
       /\ Store(Min(waiting), answer)
       /\ ack' = answer
  /\ UNCHANGED <<journal, position, waiting, durableVars, sensorVars, budgetVars>>

\* The row is stored and its ack is lost: the pass stops at the failure.
DrainUnacked ==
  /\ waiting # {} /\ ack = 0 /\ failures < MaxFailures
  /\ \E answer \in 1..(Len(log) + 1) : Store(Min(waiting), answer)
  /\ waiting' = {}
  /\ failures' = failures + 1
  /\ UNCHANGED <<journal, position, ack, durableVars, sensorVars,
                 expiries, stops, lostAcks, rebuilds>>

\* The bus is out of reach, or the process dies and comes back: what was not
\* marked is unpublished, and the next sweep reads it again.
DrainAbandoned ==
  /\ waiting # {} /\ failures < MaxFailures
  /\ waiting' = {} /\ ack' = 0
  /\ failures' = failures + 1
  /\ UNCHANGED <<journal, position, busVars, durableVars, sensorVars,
                 expiries, stops, lostAcks, rebuilds>>

\* Store::mark_published, and on to the next row of the pass.
DrainMark ==
  /\ waiting # {} /\ ack # 0
  /\ LET row == Min(waiting) IN
       /\ position' = [position EXCEPT ![row] = IF @ = 0 THEN ack ELSE @]
       /\ waiting' = waiting \ {row}
  /\ ack' = 0
  /\ UNCHANGED <<journal, busVars, durableVars, sensorVars, budgetVars>>

-----------------------------------------------------------------------------
(* The bus.                                                                  *)

\* Any other event of `twalk.>` takes a stream sequence of its own.
Traffic ==
  /\ Cardinality(CopiesOf(0)) < MaxTraffic
  /\ log' = Append(log, 0)
  /\ UNCHANGED <<gatewayVars, window, durableVars, sensorVars, budgetVars>>

\* The outage outlives the duplicate window: an id the bus no longer knows.
WindowExpires(r) ==
  /\ r \in window /\ expiries < MaxExpiries
  /\ window' = window \ {r}
  /\ expiries' = expiries + 1
  /\ UNCHANGED <<gatewayVars, log, durableVars, sensorVars,
                 failures, stops, lostAcks, rebuilds>>

\* The next consent event in stream order, for the first time.
Deliver ==
  /\ phase = "consuming"
  /\ \E p \in Events :
       /\ p >= next /\ \A q \in Events : q >= next => p <= q
       /\ inbox' = Append(inbox, p)
       /\ pending' = pending \cup {p}
       /\ next' = p + 1
  /\ UNCHANGED <<gatewayVars, busVars, phase, start, cache, calm, budgetVars>>

\* ack_wait passes over a message whose ack never came and that no live
\* loop still holds (MODELLED ASSUMPTION: a live loop reaches what it holds
\* within ack_wait).
Redeliver ==
  /\ phase = "consuming"
  /\ \E p \in pending \ Outstanding : inbox' = Append(inbox, p)
  /\ UNCHANGED <<gatewayVars, busVars, durableVars, phase, start, cache, calm, budgetVars>>

-----------------------------------------------------------------------------
(* The Sensor.                                                               *)

\* bring_up_consent reads the Gateway's snapshot (one transaction) and
\* apply_consent_snapshot replaces the cache with it. Calm is lost when the
\* durable has already been past the position the snapshot names.
FetchSnapshot ==
  /\ phase = "down"
  /\ phase' = "ready"
  /\ start' = StreamSequence + 1
  /\ cache' = StateAt(Horizon)
  /\ calm' = ~ \E p \in Events : StreamSequence < p /\ p < next
  /\ UNCHANGED <<gatewayVars, busVars, durableVars, inbox, budgetVars>>

\* Variant: the durable is created at the stream's end (DeliverPolicy::New).
OpenConsumerAtEnd ==
  /\ phase = "ready"
  /\ phase' = "consuming"
  /\ next' = IF next = 0 THEN Len(log) + 1 ELSE next
  /\ UNCHANGED <<gatewayVars, busVars, pending, start, inbox, cache, calm, budgetVars>>

\* run_consent_consumer: get_or_create_consumer creates the durable at `start`
\* or returns the one there is, untouched.
OpenConsumer ==
  /\ phase = "ready"
  /\ phase' = "consuming"
  /\ next' = IF next = 0 THEN start ELSE next
  /\ UNCHANGED <<gatewayVars, busVars, pending, start, inbox, cache, calm, budgetVars>>

\* Variant: a boundary one message too far.
TurnSkipsOneMore(p) == IF p <= start THEN cache ELSE Applied(cache, journal[log[p]])

\* One turn of the loop: skip what the snapshot summarised, apply the rest.
Turn(p) == IF p < start THEN cache ELSE Applied(cache, journal[log[p]])

\* ... and the ack reaches the bus.
Handle ==
  /\ phase = "consuming" /\ inbox # <<>>
  /\ cache' = Turn(Head(inbox))
  /\ inbox' = Tail(inbox)
  /\ pending' = pending \ {Head(inbox)}
  /\ UNCHANGED <<gatewayVars, busVars, next, phase, start, calm, budgetVars>>

\* ... and the ack is lost, which the loop only logs.
HandleUnacked ==
  /\ phase = "consuming" /\ inbox # <<>> /\ lostAcks < MaxLostAcks
  /\ cache' = Turn(Head(inbox))
  /\ inbox' = Tail(inbox)
  /\ lostAcks' = lostAcks + 1
  /\ calm' = FALSE
  /\ UNCHANGED <<gatewayVars, busVars, durableVars, phase, start,
                 failures, expiries, stops, rebuilds>>

\* The message stream ends: consume_consent_changes builds another incarnation
\* over the same cache and start, and what the old one held comes back late.
Rebuild ==
  /\ phase = "consuming" /\ rebuilds < MaxRebuilds
  /\ phase' = "ready"
  /\ inbox' = <<>>
  /\ rebuilds' = rebuilds + 1
  /\ calm' = (calm /\ inbox = <<>>)
  /\ UNCHANGED <<gatewayVars, busVars, durableVars, start, cache,
                 failures, expiries, stops, lostAcks>>

\* The process dies, and its cache with it.
SensorStops ==
  /\ phase # "down" /\ stops < MaxStops
  /\ phase' = "down" /\ start' = 0 /\ inbox' = <<>> /\ cache' = EmptyCache
  /\ calm' = TRUE
  /\ stops' = stops + 1
  /\ UNCHANGED <<gatewayVars, busVars, durableVars,
                 failures, expiries, lostAcks, rebuilds>>

-----------------------------------------------------------------------------
Next ==
  \/ \E d \in Takeable : Record(d)
  \/ DrainRead \/ DrainPublish \/ DrainUnacked \/ DrainAbandoned \/ DrainMark
  \/ Traffic
  \/ \E r \in window : WindowExpires(r)
  \/ Deliver \/ Redeliver
  \/ FetchSnapshot \/ OpenConsumer \/ Handle \/ HandleUnacked
  \/ Rebuild \/ SensorStops

Spec == Init /\ [][Next]_vars

\* The drain loop sweeps every second and retries for ever; the Sensor retries
\* the snapshot and rebuilds its consumer for ever; the bus delivers.
FairSpec ==
  /\ Spec
  /\ WF_vars(DrainRead) /\ WF_vars(DrainPublish) /\ WF_vars(DrainMark)
  /\ WF_vars(Deliver) /\ WF_vars(Redeliver)
  /\ WF_vars(FetchSnapshot) /\ WF_vars(OpenConsumer) /\ WF_vars(Handle)

-----------------------------------------------------------------------------
(* Properties.                                                               *)

TypeOK ==
  /\ journal \in Seq(Decision)
  /\ position \in Seq(Nat) /\ Len(position) = Len(journal)
  /\ waiting \subseteq Rows
  /\ ack \in Nat
  /\ log \in Seq(Rows \cup {0})
  /\ window \subseteq Rows
  /\ next \in Nat
  /\ pending \subseteq Events
  /\ phase \in {"down", "ready", "consuming"}
  /\ start \in Nat
  /\ inbox \in Seq(Events)
  /\ cache \in [Keys -> States \cup {"none"}]
  /\ failures \in 0..MaxFailures /\ expiries \in 0..MaxExpiries
  /\ stops \in 0..MaxStops /\ lostAcks \in 0..MaxLostAcks
  /\ rebuilds \in 0..MaxRebuilds
  /\ calm \in BOOLEAN

\* "The positioned rows are a prefix of the journal and the bus's order is the
\* journal's" (store.rs:200), whatever fails, restarts or is republished: no
\* row is positioned before an older one, no event of a row is stored after an
\* event of a younger one, and a row reaches the bus only when all older rows
\* are positioned.
PositionedPrefix ==
  /\ \A i, j \in Rows : i < j /\ position[j] # 0 => position[i] # 0
  /\ \A p, q \in Events : p < q => log[p] <= log[q]
  /\ \A p \in Events : \A i \in Rows : i < log[p] => position[i] # 0

\* "In the snapshot, or on the stream after `stream_sequence`. Never both,
\* never neither" (consent_snapshot.rs): at every instant at which a snapshot
\* could be read, an event is at or before the position it names exactly when
\* its row is summarised, every copy of a republished event included.
HandOff ==
  \A p \in Events : (p <= StreamSequence) <=> (log[p] <= Horizon)

\* What PositionedPrefix and HandOff rest on: a drain pass works through the
\* oldest unpublished rows, an ack in hand and a recorded position both name the
\* last stored copy of their row's event, and an id the duplicate window holds
\* is the id of a stored event.
DrainInv ==
  /\ waiting \subseteq Unpublished
  /\ \A i \in waiting : \A j \in Unpublished : j < i => j \in waiting
  /\ ack # 0 => /\ waiting # {}
                /\ ack \in CopiesOf(Min(waiting))
                /\ \A p \in CopiesOf(Min(waiting)) : p <= ack
  /\ \A r \in window : CopiesOf(r) # {}
  /\ \A i \in Rows : position[i] # 0 => /\ position[i] \in CopiesOf(i)
                                       /\ \A p \in CopiesOf(i) : p <= position[i]

\* The cache mirrors the journal as of the last event its loop has come to: no
\* event is missed, applied twice or applied out of order, across snapshots,
\* the boundary skip, crashes and restarts of both sides -- as long as no
\* fault the code does not arbitrate has happened in this incarnation (calm).
FaithfulWhenCalm ==
  phase # "down" /\ calm => cache = StateAt(LastRowBefore(Frontier))

\* "Everything up to the snapshot's position is in the snapshot; everything
\* after it comes off the stream, in stream order. Never both, never neither"
\* (consent-cache/src/lib.rs:22): once nothing is left to deliver or to ack,
\* the cache holds every decision the bus holds.
NeverNeither ==
  phase = "consuming" /\ inbox = <<>> /\ pending = {} /\ next > Len(log)
    => cache = StateAt(LastRowBefore(Len(log) + 1))

\* The purpose of the pipeline: the Sensor ends up reading Matrix with labels
\* equal to the effective consent the Gateway's own journal resolves to.
LabelsCatchUp ==
  <>[](/\ phase = "consuming"
       /\ calm => \A contact \in Contacts, network \in Networks, conn \in Connections :
                    Label(cache, contact, network, conn)
                      = Label(StateAt(Len(journal)), contact, network, conn))

\* The Gateway and the bus together implement the feed of DecisionFeed.
Feed == INSTANCE DecisionFeed WITH
  decided   <- journal,
  announced <- LastRowBefore(Len(log) + 1),
  served    <- Horizon

FeedSpec == Feed!FairSpec
=============================================================================
