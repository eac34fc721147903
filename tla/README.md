# Twalk in TLA+

A specification of the parts of Twalk in which ordering, loss, restarts and
concurrency decide whether the system keeps its word: a message's way from a
Matrix room or a mailbox to the bus, a consent decision's way to the label on it,
a suggestion's way to the owner and the owner's answer back, an approved reply's
way to the contact, and a bridge's, a mail server's and a persona's state's way
to the screens. The modules are translated from the code under `src/`;
`PROJECT.json` maps every definition to the lines it stands for.

- [1. The system](#1-the-system)
- [2. What is modelled, and how it corresponds to the code](#2-what-is-modelled-and-how-it-corresponds-to-the-code)
- [3. The runs](#3-the-runs)
- [4. The proofs](#4-the-proofs)
- [5. Disagreements found](#5-disagreements-found)
- [6. Observations](#6-observations)
- [7. What is only model-checked, and what is not modelled](#7-what-is-only-model-checked-and-what-is-not-modelled)
- [8. The plan](#8-the-plan)

## 1. The system

Twalk puts a persona beside a person's messages. A *Sensor* reads the person's
Matrix rooms (native ones, and portals that mautrix bridges relay), normalises
messages and puts them on one NATS JetStream stream, `twalk`, each labelled with
the contact's consent. *Personas* read what they may and suggest replies. The
*Companion Gateway* shows the owner what happened, takes the owner's decisions,
and publishes them; the Sensor (or the mail *collector*) posts what was approved.
The *clerk* relays suggestions to a messaging room and gestures back; *Hermes*
runs the personas' agent. The bus delivers at least once and de-duplicates a
`Nats-Msg-Id` within a window; the Gateway's SQLite store is one connection
behind one mutex.

| Component | State it keeps | Operations | Talks to | What is hard | What makes it correct |
|---|---|---|---|---|---|
| Consent journal and outbox (`store.rs`, `outbox.rs`, `consent.rs`) | `consent_decision` rows with their stream position | record; drain (read, publish, mark); sweep every second | the bus | crash between publish and mark, lost acks, a duplicate window shorter than an outage | bus order is journal order; every decision is positioned in the end |
| Consent snapshot (`consent_snapshot.rs`) | none (two views of the journal) | read the states and the horizon in one transaction | Sensor, clerk, collector | it is read while a drain is between publish and mark | the position it names splits the stream exactly |
| Consent cache (`consent-cache`) | state per subject and connection | replace by a snapshot, apply a change, resolve a label | in the Sensor | last writer wins over redelivered events | it mirrors the journal as of what was consumed |
| Sensor's consent consumer (`sensor/src/main.rs`) | durable consumer (on the bus), in-memory cache | bring up, consume, rebuild | Gateway, bus | warm durable against fresh snapshot, lost acks, rebuilds | neither twice nor never |
| Approval (`approval.rs`, `disclosure.rs`) | row of `approval` | one request: checks, consent, disclosure, record, publish, mark | bus, store | concurrent requests, retries, callers that leave, timeouts | one reply, accountable, consented, disclosed |
| Approved-reply delivery (`sensor/src/main.rs`, `outbound.rs`) | durable consumer, the message in hand | take, post, report, dead-letter, ack | homeserver, bus | at-least-once on both sides, retries with a changing account | nothing disappears, nothing untrue is reported |
| Owner's device (`owner_device.rs`, `sensor/src/main.rs`) | credential on the volume, the cell, the gauge | hand over, hold, sync, revoke, bring up | homeserver, Gateway | replacement while a loop uses the old one | a portal is never answered by the Sensor's own account |
| Bridge status (`bridge_status.rs`) | `bridge_status_change` rows, held transitions | push, hold, settle, flush, sweep, reconcile | bridges, outbox | grace against recovery, failing writes, restart | one story; no blips; agreement in the end |
| Sessions and bootstrap (`session.rs`, `bootstrap.rs`) | families of refresh tokens, the one account | sign in, refresh, sign out | Companion PWA | two tabs refresh at once, a lost answer | one live token per family; reuse ends the family |
| Hermes's answers (`hermes_answer.rs`) | references used | answer once through a signed reference | Hermes, bus | a reference used twice, consent revoked meanwhile | one suggestion per reference |
| Portal register (`portals.rs`) | portal rows and successions | read, move | bridges | an interrupted move | decisions follow the conversation |
| Suggestions, contacts, settings, rules, gauges (`suggestions.rs`, `contacts.rs`, `settings.rs`, `mail_rules.rs`, `connection_status.rs`, ...) | journals read at their last row, bounded projections of the bus | record, project, read | screens | bounded scans | the newest is not lost |
| Collector (`collector/`) | mail cursor, OIDC grant, outbound journal | poll mail, renew, submit replies | JMAP and CalDAV servers, bus | cursor against publication, rotation with a lost answer | a mail is published once and not skipped; the grant survives |
| Clerk (`clerk/`) | durable consumers, decision references | relay, decide | Matrix, Gateway | redelivery, two gestures | one post per event, one decision per gesture |
| Hermes runtime (`hermes/`) | activation, process, restart delay | activate, supervise, give up | Gateway | a restart pending while deactivated | one announcement per episode |
| Bus provisioning (`sensor/src/bus.rs`) | the stream's configuration | create, verify, recreate | JetStream | positions recorded against a recreated stream | sequences mean the same to all |
| Normalisation, parsers, PWA, Python SDK, deployment | none that interleaves | translation, screens, configuration | | | unit tests reach them |

How they interact, and where the models meet:

- *Inbound.* `Inbound` takes a message from a room to the bus, labelled from the
  cache `ConsentPipeline` fills; its `Decide` is that module's `Handle`, seen from
  the handler of a message. `Mailbox` does the same for mail.
- *Consent.* `ConsentPipeline` crosses Gateway, bus and Sensor, because its promise
  is about the three together. `Hermes` reads the same stream for its personas.
- *Replies.* A suggestion is posted by the clerk and answered there (`Clerk`, whose
  `GatewayDecides` and `LateReply` are `Approval` seen from outside) or on a screen; the
  Gateway publishes under an id that is a function of the suggestion (`Approval`);
  the Sensor posts under a transaction id that is a function of the reply
  (`ReplyDelivery`), the collector submits a mail that carries the id
  (`MailReplies`).
- *Credentials.* `Session` is the owner's browser against the Gateway, `Collector`
  the collector against the SSO: two rotations, one of which forgets the old pair
  at once; `ReplyDelivery` holds the owner's Matrix device.

## 2. What is modelled, and how it corresponds to the code

### ConsentPipeline, and DecisionFeed above it

*Gateway.* `journal` is the table `consent_decision`; a row's index is its
`sequence`, and `position` its `stream_sequence` (0 for NULL; mark and position
are one UPDATE). `waiting` and `ack` are one pass of `drain`: `DrainRead` is the
SELECT of at most `DRAIN_BATCH` rows, `DrainPublish` a publication whose ack
arrived, `DrainMark` is `Store::mark_published`; `DrainUnacked` stores without
its ack, `DrainAbandoned` is a failed publication or a crash. A pass ends at the
first failure, as `drain` returns. `Horizon` and `StateAt` are the two views of
the snapshot.

*Bus.* `log` holds for each stream sequence the row it carries; `window` the ids
still de-duplicated. A duplicate is acked with the sequence of the stored copy.

*Sensor.* `FetchSnapshot`, `OpenConsumer`, `Handle` and `Rebuild` are
`bring_up_consent`, `run_consent_consumer` up to its loop, one turn of the loop,
and `consume_consent_changes`'s next incarnation. `OpenConsumer` leaves a durable
that exists as it is, whatever `start` it was asked to be created at -- that is
what the code's `get_or_create_consumer` does.

*Abstracted.* The event id is the row's index (it is a hash of the natural key;
the millisecond collision is listed under the hazards and not modelled). A
contact's label is resolved from its own row, then the network's default, then
`pending`. *Assumption:* `Redeliver` does not return a message a live loop still
holds: a turn of the loop is an in-memory step and `ack_wait` is seconds.

`calm` is a history: it is lost when a fault occurs after which the code has no
arbitration (a lost consumer ack, a rebuild over messages in hand, or a warm
durable beyond the snapshot) and regained by a fresh process. `FaithfulWhenCalm`
is what holds as long as it is not lost; `LabelsCatchUp` uses it as well.

`DecisionFeed` says what Gateway and bus promise together: decisions form a
journal, are announced one at a time in order and served no sooner.
`ConsentPipeline` implements it with `announced` the newest row stored and
`served` the horizon.

### Approval, and SendOnce above it

One suggestion and any number of concurrent `Requests`. `settings` is the
sequence of all values the store's three settings had, so that a property can
speak of what a request *lived through*. `stage[r]` is how far request r has come
in `Approvals::approve`: `Ask` (expiry), `CheckConsent`, `ReadSwitch`, `LookUp`
(`Store::approval`), `Record` (`connection_can_send`, then
`Store::record_approval`, `ON CONFLICT DO NOTHING`), `Publish`, `Mark`. The cut is
at the store's mutex sections and at the awaits; two reads with no await between
them and no write of their own that could matter in between are merged
(`connection_can_send` with the record).

Failures are `StoreFails`, `PublishUnanswered` (stored, late, or lost; `Arrive` is
the late case), `MarkFails`, `CallerLeaves` (axum drops the handler's future, at
an await), `Crash`. The refusals that answer before anything is read twice (no
such suggestion, a suggestion of another owner, a label that is not `granted`)
are assumed not to occur: they change no state.

`SendOnce` is one reply sent at most, never changed, and recorded only once sent.

### ReplyDelivery, and Disposal above it

The replies are of four disjoint kinds: for a portal, for a native room, unusable
(cannot be parsed or never posted), and another component's. `inbox` is what the
durable consumer handed to the loop, `job` the one message in hand. What the loop
may act as (`Acting`) is read when a message is taken and used after the awaits of
`post_approved_reply`; it may be stale by then, and that is the point.

The owner's device is a number, the order of its handover. `TakeHandover` is
`take_the_handover` up to the announcement it awaits; `Hold` what follows it.
`SyncRefused` is `run_owner_device` refused for its token. `Crash` includes
`bring_up_owner_device` of the next process: the credential on the volume is used,
or is refused or cannot be checked.

The homeserver accepts one message per (device, transaction id): `posts` is a set
of pairs. A token it does not honour posts nothing.

`Disposal` is what becomes of an approved reply, said once for every component that
sends some: it leaves or a copy of it is kept before the bus forgets it, the record of
where it went is written once and only of one that left, nothing of this is undone, and
another component's reply is let pass. Here `left` is the replies with a post
(`PostedReplies`), `told` the reports, `kept` the dead letters, `settled` the acks the
bus heard; `Sendable` leaves out the unusable ones.

*Assumptions.* The deployment has a state directory; handovers are serial (one
endpoint, one lock); `delivered` saturates at `MaxAttempts`, since only reaching
it matters.

### BridgeStatus

One bridge: bridges share only the lock under which each state is decided. A
decision (`Observe`) is one step because `Statuses::decision` is held throughout:
flush what is due, compare with the last row, then settle, hold or record. `held`
carries what is left of its grace instead of a deadline; a `Tick` is a second, the
resolution of the bridge's timestamps. `Push` is retried by the bridge until it is
answered 2xx; `Whoami` and `Reconcile` are the two halves of `reconcile` around
its await.

A decision calls the store up to three times (take what is due, say what was last told,
take the change) and each call may fail by itself (`fails`): a hold whose write failed
stays due, and a change may be recorded past it by the same decision. It is then recorded
later from a state that is no longer the one told. `overtaken` and `strays` are the
histories of that hold and of the row it becomes, and the only rows `ChangesChain` leaves
out.

`calm` says that what was last heard was heard whole: it was not refused or
answered as a replay of an older row, nothing due stayed held behind it, it was
the bridge's current state, and no restart has forgotten a hold since.

### Session, and Rotation above it

The rows of `sessions.db`, the routes over them and what the pages of one browser do
with the answers. A pair of tokens is `<<device, generation>>`; `rows` keeps the
generation whose digests are stored. `Refresh` is the one UPDATE of
`Sessions::refresh`, or a store that fails and is answered like a token that is unknown
(`.ok()`; `StoreFails`, of `Guard` and `KeeperAsks` too); `Refreshed`, `RefreshRefused`
and `RefreshLost` are what `refresh.ts` does with its answer, no answer included; `Released` is what becomes of
the calls that joined a refresh (`client.ts`). `Timer` covers the timer and
`refreshIfOverdue`, `KeeperAsks` what `startSessionKeeper` reads before it concludes,
`Guard` the middleware in front of every other route. *Assumption:* each sign-in
mints its own OpenID token, so the replay ledger refuses none.

`Rotation` is what a credential that is replaced at each use promises, said once for the
session's pair and the collector's grant: one family's next credential is issued at a
time and never while the one before it is on its way to the holder; what is held changes
for a credential that arrives or is handed over at its issue; and each that is lost is on
record. So what is held is the newest, or the newest is on its way, or one was lost. Here
a family is a device, `newest` its generation, `held` the jar, `coming` the pairs in an
answer to some page (`Coming`), `lost` the history `stranded`.

### Collector, below Rotation too

The rounds of `run`: the grant kept fresh, the services asked whose it is, each
connection's state said, then the polls. `at` is where the round is; a renewal is
`Round`, `SsoRenews` and `Renewed` with the answer in flight between, because
`Client::renew` awaits the SSO under the file lock, and the operator's `authorize`
may write the file beside it. A grant is `<<sign-in, n>>`, rotated by the SSO.
`Turn` is the world: SSO and services go and come back, a token ages, a grant dies. An
SSO that refuses answers of the client or with a code the process does not know, which
`Client::renew` reads as the grant's. `Say` is `Tracker::observe` and `publish`: `last`
moves, and `said`, what the bus carries of the connection, follows unless the bus does
not take the event; the history `lost` holds the connections whose last change it did
not take, and `word` what the SSO last answered this process.
In `Rotation` a family is a sign-in, `held` the grant file, `coming` the grant in a
renewal's answer; `authorize`, which holds what it obtains, hands a grant over at once
or, interrupted, wastes it.

### Mailbox

One poll is read, file, publish, commit, with a failing call or a crash between any
two: `Poll`, `TakeAsItStands` or `Changes` (or the window, when the server has
forgotten the state), `Read`, `File`, `Publish`, `Commit`, then the reports. The
server's Email state is the number of mails that arrived, and so is an instant: `last`
is `last_read_at`. `Changes` reads one page, which may end after any mail
(`Email/changes` asks for 500 and `hasMoreChanges` is not looked at), and the round
writes the state the page ends at with a `last` of now; the next poll reads the next
page. The window looks back from `last`, whatever the state was. The histories `rest`
and `ahead` hold the mails that were on a page still to come when the server forgot
the state, and those a window read past the state its round writes. A rule is the set
of mails it matches, on arrival or by age. `moves` is the Gateway's journal of what was
filed, `undos` what the owner asked back as last read.

### MailReplies, below Disposal too

The collector's durable consumer of approvals and `Mailbox::send_reply`. An attempt
is `Take`, then the look into Sent (`Already`), the look-up of the thread
(`LookUp`), the creation and submission in one JMAP request (`Send`, or
`SendUnanswered`, `SendTimesOut`, `SubmissionRefused`), then `Report` and
`Acknowledge`, or `TryLater`, or `DeadLetter`. `RunLate` is a request that the server
runs after its client gave it up; `LeaveThePage` a sent reply pushed off the newest
page of Sent, which is what tells a redelivery that its mail has left.

It implements the same `Disposal` where the mailbox has Drafts: `left` is the replies
the server sent (`SentReplies`), `told` says of a report only that it is there
(`Records`), `kept` is `KeptReplies`. A mail leaves while no message is in hand when the
server runs it late, and twice where `SentOnce` says how often; `Disposal` allows both.

### Clerk

Three tasks share the relay and a session cell: the suggestions consumer (`worker`:
read the posts, ask the Gateway, post, ack), the sweep (`sweeper`) and the decisions
loop (`tick`: read posts, gestures and thread answers once, then act post by post).
The clerk keeps nothing; `posts`, `gestures` and `lines` are the relay. A relay call
is done, fails, or is done and not heard of, and each `Mishap` is counted; a request the
clerk no longer waits for is assumed not to be served later. A gesture
is a reaction or a reply, the owner's or a stranger's.

The Gateway keeps a row of each approval (`rows`: none, written, marked) and hands the
reply to the bus, where it is (`out`) or comes later (`LateReply`). `GatewayDecides`
keeps the order of `approve`: an expired suggestion or a contact no longer consenting is
refused before the row is looked up; a marked row is answered "already"; otherwise the
row is written and the reply handed over. `bus_unreachable` is a silence to the clerk, so
it is tried again and in the end told as not recorded, with the reply on the bus or yet
to come; what is on the bus and not marked is told as sent. `handed` remembers, per
suggestion, the gestures a reply was handed to the bus from.

### Hermes

The runtime of one persona: `Boot` is the snapshot, `Replay` and `Follow` the stream
from the position it names, each moving the persona's durable consumer (`filter`);
beside it the supervisor: `Spawn`, `Exits`, the count of short runs, the delay with
its cap (`DelayFor`). A decision is taken on a connection and read by its network.

### Inbound

*The homeserver.* `timeline` is what each room holds, the tombstone that closes a
replaced room included; `member` the Sensor's membership; `Limit` how many events of
a room one response carries.

*The Sensor.* `Sync` is one response: the SDK stores the token (`seen`) and hands the
handlers the events in `batch`, in the order `Earlier` says: the rooms' parts by the
rooms' ids, each from its creation on, then the invitations, then the presence updates.
One event is handled at a time: `HandleInvite`, `HandleCreate`, `HandlePresence`, `Drop`
and `TakeMessage` are the handlers up to their first await that matters, `Quote` the fetch of what a message refers to, `Spawn` the task
`PublishTracker` starts, `Land` and `Fail` its end. `Sweep` is
`leave_replaced_predecessors` in the callback of a process's first sync. `Shutdown`
drops the loop and leaves the tasks (`Drained`), `Die` ends everything.
`ConnectionOf`, `NetworkOf` and `SubjectNetwork` are the attribution of `connection.rs`
and `network.rs`, `NamedAfter` the room a presence update is published under. A message and a reaction are one kind of event here: the two handlers
differ in what they put into the envelope.

*Assumptions.* A state directory is configured; matrix-sdk stores the token before
it calls the handlers and calls them one after the other; every portal belongs to one
of the owner's accounts (`world.account`). `WorldsAssumption` says what the marks and
the Gateway's registry must agree on: a bot registered with an account is the one
that marks that account's rooms, and an entry found by its network alone is the account
of the room it is found for. The code cannot see whether that is so (`Registry::resolve`
takes what it was given); with it, what is checked and proved is that no path through the
handlers stamps another account's connection.

## 3. The runs

Every fault and every counter has a budget, a `Max...` constant that occurs only
in guards: `MaxDecisions`, `MaxTraffic`, `MaxFailures`, `MaxExpiries`, `MaxStops`,
`MaxLostAcks`, `MaxRebuilds` (ConsentPipeline); `MaxChanges`, `MaxFaults`,
`MaxExpiries` (Approval); `MaxDevices`, `MaxFaults`, `MaxStops`, `MaxEarly`,
`MaxRevocations` (ReplyDelivery; `MaxAttempts` is a setting of the code);
`MaxSeconds`, `MaxMoves`, `MaxFaults`, `MaxStops` (BridgeStatus; `Grace` is a
setting); `MaxDevices`, `MaxEvents`, `MaxOpenings` (Session); `MaxSignIns`,
`MaxGrants`, `MaxFaults` (Collector); `MaxMoves`, `MaxMishaps` (Mailbox); `MaxFaults`,
`MaxStops`, `MaxEarly`, `MaxLapses`, `MaxLate`, `MaxMoved` (MailReplies);
`MaxGestures`, `MaxMishaps` (Clerk; `MaxDeliver` is the consumer's); `MaxDecisions`,
`MaxFailures`, `MaxFaults` (Hermes; `Base`, `Cap`, `StartFailures` are settings);
`MaxSaid`, and `MaxTurns` for everything else that happens (Inbound; `Limit` is the
homeserver's). The one state constraint, `FewTurns`, bounds the sum of three of them in
`approval_settings`, whose properties are all safety. Deadlock is not checked where owners stop deciding, requests end and
budgets run out: a system with nothing left to do is not stuck. That the work there
is gets done is what the liveness properties say.

| Run | Instance | Shows |
|---|---|---|
| `consent_live` | 2 decisions, one of a persona's too, one foreign message, one of each fault; fair | `HandOff`, `FaithfulWhenCalm`, `LabelsCatchUp`, `FeedSpec` |
| `approval_settings` | 2 requests, draft and edit; any three of 2 changes of settings, a failure and an expired window | `NoSilentReply`, `GrantedInItsTime`, `DisclosedInItsTime`, `SendsOnce` |
| `delivery_live` | a portal's reply, an unusable one and another component's; 2 devices, 2 attempts, a fault, a crash, a revocation; fair | `DisposesOfReplies`, `ReportsAreTrue`, `NeverFallsBack`, `EveryReplySettles` |
| `bridge_grace` | 3 states, 3 moves, grace 2, a fault, a restart; fair | `ChangesChain`, `AgreesWhenCalm`, `OutagesLasted`, `TellsInTheEnd` |
| `session_tabs` | 2 pages, a call, 2 sign-ins, 2 of timers, expiries, revocations, losses and store failures; fair | `RotatesThePair`, `ExpiredIsTrue`, `StaysSignedIn` |
| `collector_rounds` | 2 sign-ins of 3 grants each, 3 turns of the world, crashes or losses; fair | `RotatesTheGrant`, `ReconnectIsTheGrants`, `Reconnects` |
| `collector_stranger` | one sign-in, one service that cannot say whose it is | refutes `NothingFromAStranger` |
| `mailbox_polls` | a letter and a bill, which a rule files; 3 moves, 2 faults; fair | `EachMailOnce`, `MailArrives`, `UndosSettle` |
| `mail_replies` | a mail and another component's approval, 2 attempts, one of each fault; fair | `SentOnce`, `DisposesOfReplies`, `EveryReplySettles` |
| `clerk_posts` | a suggestion, 2 gestures, 3 deliveries, 2 mishaps; fair | `NothingTwice`, `SettledWasShown`, `AnsweredIsFinal`, `GesturesSettle` |
| `hermes_runs` | 3 connections of 2 networks, 3 decisions, 4 short runs, a fault; fair | `ByTheLastWord`, `OneEpisode`, `DecisionsTake`, `PersonaRuns` |
| `inbound_rooms` | a portal and the room that replaces it, 2 messages, 2 of decisions, presence, failures, stops; registries that name the portals' account or only another; fair | `InOrder`, `NothingSlipped`, `TruthfullyLabelled`, `PredecessorsLeft` |

Every passing run checks what is listed and nothing else; the type invariants and
`PositionedPrefix`, `DrainInv`, `SecondClickIsTold`, `AckedMeansSettled`, `NeverDropped`,
`SessionKept`, `GrantKept` are proved (section 4) and need no run of their own; what the
last four say of a state, the refinements of `Disposal` and `Rotation` say of every step.

*Why these bounds.* A batch of two and two decisions give a row that fails with a
neighbour after it; one subject, its network's default and a persona (which has no
key in the cache) over one connection give every branch of a label, while a second
contact would only multiply independent copies. Two requests race; two changes
suffice for a setting that goes away and comes back within one request, which tells
"at some moment of its life" from "at every". Two devices are the least for a
replacement, two attempts for a retry. Three moves of a bridge are the least for a
hold that changes its mind and is then cancelled, or a state that returns within a
second. Two pages are the least that refresh at once, two events the least for a loss
and an expiry of what it left. Three turns of the world are an outage, a crash in it
and a recovery. Two mails, one filed and one not, give every branch of a poll; a third
move is an undo of an undone one. Two gestures are the least that race, three
deliveries the budget of a message with one to spare. Three decisions over two
connections of one network give an older word of another connection. Two messages are
the least for an order and for a quote, and any two of the turns give a decision
during a fetch, a failure before a restart, a shutdown and then a crash in its drain.
Where the property is proved the bound matters no more.

*Fairness.* Weak fairness, of what the code does in a loop without end, and of the
bus's deliveries: the outbox's sweep (`publish_until_shutdown`), the Sensor's
retry of the snapshot and its rebuilt consumers, the reply loop, the status sweep,
the bridge's retried pushes, time; a page's timers and the Gateway's answers to it;
the container that is started again and the loop in it (Collector, Mailbox, Clerk,
Hermes, Inbound), with the credential that comes back (MailReplies). Strong fairness
twice: the clerk's refreshed session, which is looked at between any two ticks and
so not missed for ever, and a persona's process that does start once an operator has
fixed its image. Never of a success: a post to the homeserver
may be refused each time (`Work` is fair as a whole, its outcome is not), and the
retry budget of the code is what ends it. Faults are never fair, and are finite
by their budgets, so a liveness property reads "after the last fault".
`EveryReplySettles` needs `Redeliver` to be fair only while the message is not in
hand, which is what `ack_wait` promises.

Symmetry is used over `Requests` in `approval_settings`, none of whose properties
is a liveness property (`SendsOnce` is a refinement without fairness).

## 4. The proofs

`tlapm` proves, for every value of the constants allowed by their assumptions
(natural budgets, `Takeable` a set of decisions, a positive batch and retry
count, disjoint kinds of replies, a delay's base and cap in order, an owner who is
nobody else, finitely many contacts, and `WorldsAssumption`, section 2). A module of
proofs holds those of one component, or of two that share a process or a direction:

| Theorem | Module | States |
|---|---|---|
| `TypeCorrect` | each `...Proofs` | `Spec => []TypeOK`; for Mailbox, Clerk and Inbound `MailboxTypeCorrect`, `ClerkTypeCorrect`, `InboundTypeCorrect` |
| `BusOrderIsJournalOrder`, `PassesWorkInOrder`, `SnapshotHandsOff` | ConsentPipelineProofs | `PositionedPrefix`, `DrainInv`, `HandOff` |
| `LabelsAreFaithful` | ConsentPipelineProofs | `FaithfulWhenCalm` |
| `OutboxImplementsFeed` | ConsentPipelineProofs | `Spec => Feed!Spec`: the refinement of `DecisionFeed`, without its fairness |
| `EveryReplyHasItsRow`, `ConsentIsTheRequestsOwn`, `DisclosureIsNeverDodged`, `SecondClickNeverSends` | ReplyProofs | of Approval: `NoSilentReply`, `GrantedInItsTime`, `DisclosedInItsTime`, `SecondClickIsTold` |
| `OneReplyIsSent` | ReplyProofs | `Spec => SendsOnce`: the refinement of `SendOnce`, for as long as the duplicate window has not expired |
| `OnePlaceToAnswer`, `NothingGoesUnseen`, `AnsweredGesturesAreOver`, `FirstWordIsDone` | ReplyProofs | of Clerk: `NothingTwice`, `SettledWasShown`, `AnsweredIsFinal`, `OldestWins` |
| `NothingDisappears`, `ReportsSayWhatHappened`, `PortalsNeverHearTheSensor` | SensorProofs | of ReplyDelivery: `AckedMeansSettled`, `ReportsAreTrue`, `NeverFallsBack` (until the Sensor is started again: section 5, item 4) |
| `SensorDisposes` | SensorProofs | of ReplyDelivery: `Spec => DisposesOfReplies`, the refinement of `Disposal` |
| `RoomsKeepTheirOrder`, `WhatIsPastIsAccountedFor`, `EventsAreTruthfullyLabelled` | SensorProofs | of Inbound: `InOrder`, `NothingSlipped`, `TruthfullyLabelled` |
| `FeedIsOneStory`, `StoreAgrees`, `FlapsAreNotTold` | BridgeStatusProofs | `ChangesChain`, `AgreesWhenCalm`, `OutagesLasted` |
| `RotationKeepsTheSession`, `ExpiredOnlyWhenOver` | SessionProofs | `SessionKept`, `ExpiredIsTrue` |
| `SessionImplementsRotation` | SessionProofs | `Spec => RotatesThePair`: the refinement of `Rotation` |
| `RotationKeepsTheSignIn`, `ReconnectsOnlyTheGone` | CollectorProofs | `GrantKept`, `ReconnectIsTheGrants` |
| `CollectorImplementsRotation` | CollectorProofs | `Spec => RotatesTheGrant`: the refinement of `Rotation` |
| `EpisodesAnnouncedOnce`, `ReadsTheLastWord` | HermesProofs | `AnnouncedOnce` (the announcing half of `OneEpisode`), `ByTheLastWord` |
| `NothingSentTwice`, `SettledOrKept` | MailProofs | of MailReplies: `SentOnce`; `HasDrafts => (Spec => []NeverDropped)` |
| `CollectorDisposes` | MailProofs | of MailReplies: `HasDrafts => (Spec => DisposesOfReplies)`, the refinement of `Disposal` |
| `EveryMailOnce` | MailProofs | of Mailbox: `EachMailOnce` |

*ConsentPipeline.* `PositionedPrefix` alone is not inductive: to see that the next
row stored is not older than the last, one needs that a pass holds an *initial
segment* of the unpublished rows, that an ack in hand is the last copy of the row
it is for, and that a recorded position is the last copy of its row. That is
`DrainInv`; `OutboxInv == TypeOK /\ DrainInv /\ PositionedPrefix` is inductive, and
`HandOff` follows from it.

`FaithfulWhenCalm` speaks of the cache, which is the result of applying in some order
what a durable handed over. `SensorInv` adds where every event is. `InboxFits`: what
was handed over lies before the durable's next message. `InStep`, while calm: an event
past the snapshot that is not acked is still in the inbox, once and in stream order;
every event from the *frontier* (the first one in hand, or the durable's next) is in
hand; and the cache stands for the journal as of the last row before the frontier. A turn
of the loop moves the frontier by one event and the cache by that event's row; what it
skips is of a subject that resolves as before. The step needs that a row's position
determines it, which is `OutboxInv`.

`OutboxImplementsFeed` maps `announced` to the number of rows the bus holds
(`Announced`) and `served` to the horizon. Both are defined by CHOOSE: they are first
shown to be the only numbers of their description (`AnnouncedDetermined`,
`HorizonDetermined`), then each step of the pipeline is a `Record`, an `Announce` of
the next row, a move of `served` no further than `announced`, or a stutter.

*Approval.* `IInv == TypeOK /\ RowBehindReply`: a request that is past `Record`, a
publication that is late, and a stored reply all have the row behind them;
`PositionsHeld` adds that a position answered or marked is one of the log's.
Consent and disclosure need the history: `InTime` says, for each stage and for
each reply sent or late, what the settings must have been at some moment between
the request's start and now. For `SendOnce`, `OneReply`: with a window that has
not lost the id, the log has one element at most and the window names it.
`StoppedAtTheRow` keeps a request that began after the mark from the stages
behind `LookUp`; it does not need the window.

*Clerk.* `ClerkInv == ClerkTypeOK /\ TickInv /\ WordInv /\ OnePost /\ SettledWasShown`.
`OnePost` carries the look at the posts over the call to the Gateway and back: from
`read` to `post` no live post of the suggestion in hand exists, which holds because the
other two tasks only delete. `TickInv` does the same for the decisions loop: the
gesture it carries is the owner's, on a post that was up, the first one there not
answered, and not answered since. `WordInv` remembers for each reply handed to the bus
and each local refusal that it was done on such a gesture, whether or not the reply is on
the bus yet; `OldestWins` is `WordInv` read from outside.

*ReplyDelivery.* `JobFits` ties the message in hand to its kind and attempt,
`PostedIsTrue` the reach it carries to the posts, `CopiesFit` the dead letters to
their kinds. `NeverFallsBack` rests on `DeviceHeld`: once the cell holds a device
nothing but a restart empties it, and no job in hand was taken while it was empty.
`SensorDisposes`: a post that is accepted is a `Leave` (the homeserver's de-duplication
makes a repeated one a stutter of it), and the end of a message is one of three: a
`Tell`, which needs of `PostedIsTrue` that the reply in hand left; a `Keep`; or a
`Pass`, which needs of `JobFits` that only another component's is ignored.

*Inbound.* `InboundInv` has a part for each place an event may be. `BatchInv`: what
waits is behind the token and, in its room, after what is in hand. `HandInv`: what is in
hand carries its account's connection, a label and an excerpt that were in force since
it was taken. `FlightInv`: what is in flight is what is in hand and awaited, one at most
-- the handler's await, on which `InOrder` rests. `LogInv`: what is on the bus is before
all of these in its room. A response is behind nothing of it, because it begins after
`seen`. `NothingSlipped` is inductive beside them: an event only moves from the batch
to the hand, to flight, to the bus, or into one of the histories. For
`TruthfullyLabelled`, `HandInv` at the step that stores.

*BridgeStatus.* `HeldFits`: what is held starts from the state the owner was last
told and ends elsewhere, so that recording it, whenever, continues the chain, unless it
was overtaken; `OvertakenDue`: an overtaken hold is due and not calm, so that a row it
becomes is the stray its history says, and nothing that is calm rests on it;
`QueueEndsNow`: the last state to push is the one the bridge is in, so that a push
which empties the queue and is heard whole leaves the store in agreement. For
`OutagesLasted`, `HoldAges`: what is left of a hold and the time since the told state
was last heard add up to the grace at least, and a hold that is due while calm has
waited the whole of it. A hold that changes its mind keeps its deadline, and that is
why the sum is an inequality.

*Session.* `SessionKept` needs to know which pairs exist and where they are:
`SessionInv` adds `AllMinted` (whatever a page or the jar holds was issued),
`ArrivingStored` (a pair on its way to a page is the row's latest) and `Unshared`
(a pair still on its way is in no jar and in no request). `SessionImplementsRotation`
rests on the last: a refresh rotates away the pair its request was sent with, which is
therefore on its way to nobody, and a pair that arrives leaves no second copy behind. A
sign-in's device has no generation before its first (`NoneBeyond`). For `ExpiredIsTrue`, `RefusedForGood`: a
refusal in flight is of a pair that no later step makes acceptable again, because a
generation that was rotated away past its grace does not return; and `KeeperFirst`,
what the keeper read before it concludes. Only a 401 to a refresh can then expire a live
page, and one that is no refusal is the store's (`failed`), which the theorem leaves to
item 15 of section 5.

*Collector.* `KeptInv` says for each grant where it may be: `InFlight` (a renewal's
answer carries the SSO's latest grant of that sign-in), `AllHeld` (what the process
and the file hold was issued), `GrantKept` itself. `CollectorImplementsRotation` needs of
it that `authorize` holds a first grant and an answer never carries one, so that neither
of the two processes rotates away what the other is about to write. `RefusedInv` follows a refusal from
the SSO to the state said to the owner: a round that has said `reconnect_required` holds
a grant the SSO no longer has, or was answered last with a code it does not know, which
the theorem leaves to the owner: the SSO may honour that grant (section 6).

*Hermes.* `Episode` ties the one flag to the count (`announced <=> failures >=
StartFailures`). `HoldsTheWords` says what the process knows, at every position
between the snapshot's and the stream's end: the last word of each network among what
was read; `MovedByThem` that the consumer was moved accordingly unless a move failed.

*MailReplies.* `SentOnce` is a sum that every step must balance: `Owed` pays for each
mail that left, each request still in flight and each sending that was overtaken with
the mail on the page of Sent that is read, a reply that left the page, or a request
given up. `DropInv == SentHasLeft /\ NeverDropped`: with a Drafts mailbox only mails
that left are in Sent, so a redelivery that finds its mail there reports the truth.
The same invariant carries `CollectorDisposes`. `Report` and `Acknowledge` are two steps
of this component, so a `Tell` comes in two halves: the record without the settlement,
and the settlement with the record as it stands.

*Mailbox.* `MailboxInv` is in four parts. `BoxInv` is the server: who may move a mail out
of the INBOX. `RoundInv` is what a poll holds at each of its places. `Accounted` follows
one mail the state is about: it is after the persisted state or on the bus; if the round
read it, it is on the bus or among the envelopes; what the round would write is no
further than that; and what a recovery looks back to leaves out only what is on the bus
or in `rest`. `Once` is the other half: a mail on the bus is in what the state or
the round remembers as read, and a mail about to be read again was read by a round that
wrote no state, or by a window ahead of its state. `EachMailOnce` is the two together.

## 5. Disagreements found

One is a run of its own, `collector_stranger`: "the grant is not the owner's: nothing is
published from this connection" (`collector/src/main.rs:985`). `per_connection` gives
every connection that is not the first stranger's the state `connected`: with both
services answering as somebody else, the calendar is reported connected and its events
are published.

The others are kept as configurations, beside the text they contradict. TLC finds each
violated in seconds; the counterexample is the behaviour in question.

1. `MCConsentPipelineWarm.cfg`, `NeverNeither`: a decision that is in neither source.
   The snapshot ends at the last positioned row; a warm durable keeps its ack floor. A
   decision the previous process consumed before the Gateway marked it is beyond the
   one and before the other, against "Never both, never neither"
   (`consent-cache/src/lib.rs`).
2. `MCReplyDeliveryTwice.cfg`, `PostedOnce`: the transaction id is constant, the account
   is chosen anew at each attempt; de-duplication is per device.
3. `MCReplyDeliveryStale.cfg`, `GoneMeansGone`: a held device that is never used. The
   gauge has no device in it: the replaced device's last refusal sets it after the
   handover cleared it.
4. `MCReplyDeliveryRestart.cfg`, `RefusedNotSilent`: a credential that cannot be used at
   startup leaves the cell empty, which the loop reads as a deployment that never had
   one, and the reply goes out from the Sensor's own account.
5. `MCBridgeStatusStale.cfg`, `AgreesInTheEnd`: `reconcile` awaits the bridge's answer
   outside the decision lock and then decides about it whatever was pushed meanwhile:
   `starting` replaces `connected`, and a healthy bridge has nothing more to say. It is
   the interleaving the lock's own comment describes, one call earlier.
6. `MCSessionReads.cfg`, `RefusalIsTerminal`: what reaches a caller is to be an answer
   or a failure that is "genuinely terminal" (`companion/src/lib/api/client.ts:41`). A
   call repeated with the pair of the refresh it joined meets a later refresh of the same
   page; its second 401 is final for the caller, and the session is good. Nothing fails in
   this instance.
7. `MCClerkSwept.cfg`, `NotSweptInSilence`: "that gesture is answered rather than swept
   in silence" (`clerk/src/consumers.rs:1443`). The sweep deletes an expired post between
   the gesture and the tick that would read it.
8. `MCHermesFrozen.cfg`, `FrozenIsSafe`: "the personas keep the activation they have,
   which is the safe direction" (`hermes/src/main.rs:591`). A persona that was active
   when the subscription ended stays active through a later refusal.
9. `MCMailboxFiled.cfg`, `FiledMailIsPublishedToo`: "the state moves only after the bus
   took the events" (`collector/src/mails.rs:4`), "the next poll republishes"
   (`main.rs:882`). A poll files before it publishes: after a crash in
   between, the next poll finds the mail outside the inbox and does not publish it.
10. `MCMailRepliesDrafts.cfg`, `NoDraftLeft`: "a refusal never accumulates the approved
    text in Drafts" (`collector/src/replies.rs:18`); the draft outlives a clean-up that
    fails or an answer that is lost. Checked with `AnswersTheContact` instead, the same instance
    shows a reply dead-lettered as a stranger's while the thread has a mail of the
    contact's, against "the contact's is the one answered, and the refusal is for when
    none of them is theirs" (`mails.rs:972`).
11. `MCMailRepliesDrafts.cfg` again, with `BudgetIsForAttempts` instead: "rather than spending its retry
    budget on rounds nothing was tried in" (`replies.rs:147`). Past the wait the message
    is redelivered, and the bus counts the delivery.
12. `MCMailRepliesUndrafted.cfg`, `NeverDropped`: "an approved reply is never silently
    dropped" (`collector/src/outbound.rs:14`). Without a Drafts mailbox Sent stands in for
    it: what a refused submission leaves there looks sent to the retry, which reports it.
13. `MCInboundGap.cfg`, `NoneIsLost`: "messages received during the wait are delivered
    late, and none is lost or mislabelled" (`sensor/src/main.rs:3733`). The sync asks for
    no more of a room than the homeserver's default (`SyncSettings::default()`,
    `main.rs:1343`) and nothing pages back: what is older than the newest events of a
    long silence is not delivered. With `StrayIsAfter` instead, a message written before
    a room was replaced is dropped as what "still arrives here is stray"
    (`main.rs:3022`).

14. `MCBridgeStatusGrace.cfg` with `LineUnbroken` instead of its properties: "what the
    bus carries is the change, with the state it came from" and "after a restart
    `from_state` is still true" (`companion-gateway/src/bridge_status.rs:44`). The write of
    a hold that is due fails and is only put back (`:844`), the same decision then
    records `connected`; the next sweep records the hold, from the state before the
    recovery and to a state the bridge has left.
15. `MCSessionTabs.cfg` with `RefusedIsOver` instead of its properties: "`None` when the
   refresh token is unknown, expired or revoked" (`companion-gateway/src/session.rs:259`),
   "the refresh token is gone too" (`companion/src/lib/session/refresh.ts:99`). An error of
   the session store is `None` as well (`.ok()`, `session.rs:290`) and answered 401
   (`session_http.rs:356`): the page drops its timer and says `expired` of a session that
   is good.
16. `MCClerkPosts.cfg` with `ToldIsTrue` instead of its properties: "telling the owner
   their reply failed when it did not is how a message gets sent twice"
   (`clerk/src/refusals.rs:837`). An answer lost near the expiry, or a publication the bus
   took after the Gateway had answered `bus_unreachable`, is told as not recorded
   (`consumers.rs:1962`). With `SettledIsDecided` instead, a suggestion is not posted
   because of "a decision already made" (`consumers.rs:696`) whose reply never reached the
   bus: `standing` counts a row as approved whether or not it was published
   (`companion-gateway/src/suggestions.rs:1021`), and nobody is asked again.
17. `MCCollectorRounds.cfg` with `LastIsPublished` instead of its properties: "a
   connection's last published state", "the last answer published for this connection"
   (`collector/src/status.rs:73`, `:79`). `Tracker::observe` moves `last` before the event
   is published (`:122`) and a publication that fails is only logged (`main.rs:1057`): the
   change is not said again while the state stands, a recovery not until the next
   restart. The Gateway refuses approvals on that connection as "not connected" till then
   (`companion-gateway/src/approval.rs:1193`).
18. `MCMailboxPolls.cfg` with `RecoveryMissesNone` instead of its properties: "everything
   delivered to the INBOX since a little before the last read is listed"
   (`collector/src/mails.rs:298`), which `last_read_at` is to make enough: "when the
   mailbox was last read up to `state`" (`:72`). A poll reads one page of changes
   (`jmap.rs:250`), does not look at `has_more` (`:628`) and writes where the page ends
   as read now (`mails.rs:381`): when the server forgets that state, the window passes
   over what the next page held. With `ReadNowNotAgain`: a mail that arrives between the
   state and the window is "read now and not again" (`mails.rs:326`). It is among the
   changes of the next poll, which are not compared with what was read, and is
   published again; the bus drops it while its duplicate window lasts.

## 6. Observations

Behaviours met while modelling for which there is no configuration: most contradict no
text of the repository, and the others are quoted where they do.

- *Approval.* Two requests with different texts at once are both answered 201, each
  with its own text and the same position; the bus holds one of them (the `duplicate`
  flag of the ack is not read). The head of `approval.rs` says that a request "publishes
  and answers `201`, or it publishes nothing and answers a refusal".
- A request refused with 502 may have its reply stored, or stored later, and has
  its row; the doc of `Refusal::BusUnreachable` (`approval.rs`) says "Nothing was
  published and nothing was recorded".
- After a retry with another text, the row keeps the first attempt's `edited` and
  `written_by` while its position is the retry's reply.
- After the duplicate window a retry publishes a second reply under the same id;
  `SendsOnce` therefore speaks of the time before it expires.
- *Consent.* A consumer ack that is lost brings an older decision back over a younger
  one in a last-writer-wins cache, until the subject's next decision or the next start.
- Two decisions of one subject that return to the same state within a millisecond share
  an event id; the second is de-duplicated and positioned at the first.
- An operator who lets the Sensor recreate the stream restarts its sequences under the
  positions the journal keeps.
- *Bridge.* Connected, worse and connected again in one whole second produces the
  id of the first row; the recovery is answered as a replay and the store keeps
  the worse state.
- While reads work and writes fail, a hold that is due stays held and is not cancelled
  by a recovery, to the state told or another; it is recorded later, after the bridge has
  recovered.
- A restart with a held outage and an unreachable `whoami` waits for the bridge's next
  change.
- *Owner's device.* `present` is announced by the handover and `credential_gone` by the
  sync loop it starts, from two tasks: the two may reach the bus in either order.
- *Session.* An UPDATE that returns its row is taken to be committed (`query_row` does
  not say whether the reset that commits it succeeded).
- A refresh whose answer is lost past its grace strands the browser with the
  pair just rotated away; the doc of the lifetimes (`session.rs`) names nothing but
  expiry that ends a session.
- *Collector.* With both services refusing, the second is reported `connected`.
- An SSO that is away for longer than an access token lasts leaves the expired token in
  use: the services' 401 leads to a second renewal, unheard as well, and the owner is
  told that the operator must act.
- A running process does not re-read the grant file after `authorize --renew`, and
  overwrites it at its next renewal.
- An SSO that refuses with a code the collector does not know is read as refusing the
  grant (`oidc.rs:376`, `:392`), which it may honour: the owner is asked to sign in again
  until a round is answered otherwise. The code says so and prefers it;
  `ReconnectIsTheGrants` makes that one exception.
- *Mailbox.* A failed publication is logged and the state is committed after it. "The
  next round tries again" does not hold for the rules applied on arrival. An undo is repeated while the list of undos is stale.
- *Mail replies.* The last attempt's answer may be lost after the mail was sent: the
  reply is dead-lettered and the contact has it. `already_answered` reads Sent's newest
  page only. Approvals without an id share one dead-letter id (`replies.rs:253`):
  within the duplicate window the bus keeps one of them, which the model, where every
  approval has its id, does not show.
- *Clerk.* A refused suggestion that is redelivered after its post was deleted is posted
  again. A reply that went out and whose post could not be deleted is asked about again
  at the next tick: the Gateway answers as it then would, expired or refused included,
  and that is what the thread is told. The sweep and the decisions loop may both delete one post; the second
  deletion is answered as done.
- *Hermes.* A failed move of a consumer is only logged, until the network's next
  decision. Two connections of one network share one state.
- *Hermes's answers* (read, not modelled). Consent is read before the collector's
  reads and not again; an offered time is checked against the first covering window's
  connection only; a replayed deferral inserts a second journal line; a read whose record
  failed is later "not read".
- *Inbound.* A failed leave is not retried by the process that logs "it stays counted
  until it can", nor is a failed join. A failed publication is logged and its event
  lost; the messages in hand at a kill are too, although the log says "the events stay
  dedup-able on the bus" (`main.rs:1387`). A label is read before the fetch of what a
  message refers to: a refusal in between publishes the message under the label it had,
  which is what `TruthfullyLabelled` allows and nothing more. History from before a join
  is published up to the timeline's limit.

## 7. What is only model-checked, and what is not modelled

Only model-checked, because it needs fairness and ENABLED: `LabelsCatchUp`,
`FeedSpec`'s fairness, the two `EveryReplySettles`, `TellsInTheEnd`, `StaysSignedIn`,
`Reconnects`, `MailArrives`, `UndosSettle`, `GesturesSettle`, `DecisionsTake`,
`PersonaRuns`, `PredecessorsLeft`. Only model-checked besides: the delay's half of
`OneEpisode`, whose `2^n` the provers know no facts of (that a power grows needs an
induction). Every other property of a passing run is a theorem.

Not modelled, with the reason:

- Bus provisioning: applied once at startup. Gateway shell: wiring and counters.
- Suggestions, the contact queue and the read-model gauges: bounded projections of the
  bus for screens; nothing is kept that the bus does not hold.
- Hermes's answers: one request at a time; what was met is in section 6.
- Bridge facade: it relays a third party's login protocol.
- Portal register: rows moved by the owner's hand in one transaction.
- The clerk's texts, normalisation's wording and attachments, parsers and time-zone
  tables: pure and table-like; unit tests reach them.
- The calendar's reconciliation and free-busy answers of the collector.
- The announcements of the owner's device and the handover's cryptographic checks.
- The Python SDK (its consumer is JetStream's and its policy is pure), the PWA's
  screens, the bridges' configuration and the deployment files.

Reads that change nothing (GET routes) are modelled only where a decision rests on
them.

## 8. The plan

Done: `ConsentPipeline` with `DecisionFeed`, `Approval` with `SendOnce`,
`ReplyDelivery` and `MailReplies` with `Disposal`, `Session` and `Collector` with
`Rotation`, `BridgeStatus`, `Hermes`, `Mailbox`, `Clerk` and `Inbound`, each with proofs.

What is left, in order of what a mistake would cost:

1. `HermesAnswer` -- a reference used once, consent read before the collector's
   reads and not after, the deferral's journal line.
2. `OwnerDevice` -- the announcements of the device's state on the bus and the
   Gateway's reading of them, composed with the handover of `ReplyDelivery`.
3. `Calendar` -- the collector's reconciliation against what was published.
4. `ConsentJournal` -- instants, replays and the event-id collision within one
   millisecond; a network default's fan-out; recreated streams and old positions.
5. `Portals` -- succession and the decisions it inherits.

Theorem to add: `SendOnce` composed with `Disposal`, since what an approval publishes is
what the deliveries dispose of.
