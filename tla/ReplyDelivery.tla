--------------------------- MODULE ReplyDelivery ---------------------------
(* From an approved reply on the bus to a message in a Matrix room           *)
(* (sensor/src/main.rs, outbound.rs, owner_device.rs): the Sensor's durable   *)
(* consumer of approvals, the loop that posts them, the `.posted` report and  *)
(* the dead-letter copy, and the owner's device the loop acts through -- a    *)
(* credential that is handed over, revoked and replaced while the loop runs.  *)
(*                                                                           *)
(* The bus delivers at least once; the homeserver accepts one message per    *)
(* sending device and transaction id, and the transaction id is the reply's.  *)
EXTENDS Naturals, Sequences, FiniteSets

CONSTANTS
  Portals,        \* replies into a room a bridge relays
  Natives,        \* replies into a room of native Matrix traffic
  Unusable,       \* replies that cannot be read or can never be posted
  Others,         \* replies to a connection another component sends for
  MaxDevices,     \* bound on the devices the owner's browser hands over
  MaxAttempts,    \* SENSOR_SEND_RETRY_MAX_ATTEMPTS
  MaxFaults,      \* bound on lost answers, acks and publications
  MaxStops,       \* bound on crashes
  MaxEarly,       \* bound on redeliveries of a message still in hand
  MaxRevocations  \* bound on devices the owner revokes

ASSUME DevicesAssumption == MaxDevices \in Nat
ASSUME AttemptsAssumption == MaxAttempts \in Nat \ {0}
ASSUME LimitsAssumption ==
  MaxFaults \in Nat /\ MaxStops \in Nat /\ MaxEarly \in Nat /\ MaxRevocations \in Nat

\* Devices are numbered in the order of their handovers.
Devices == 1..MaxDevices

Postable == Portals \cup Natives
Replies  == Postable \cup Unusable \cup Others

ASSUME KindsAssumption ==
  /\ Portals \cap Natives = {}
  /\ Postable \cap (Unusable \cup Others) = {} /\ Unusable \cap Others = {}

VARIABLES
  \* The bus, durable.
  delivered,  \* how often each reply was delivered, counted to MaxAttempts
  acked,      \* the replies whose ack reached the bus
  reports,    \* the reach each reply's stored report names, or "none"
  dead,       \* the replies with a stored dead-letter copy
  \* The homeserver, durable.
  posts,      \* <<reply, device>> for each message it accepted, 0 the Sensor's own
  valid,      \* the devices whose token it honours
  joined,     \* <<device, reply>>: the device has synced being in the reply's room
  \* The Sensor: its volume, then what dies with the process.
  volume,     \* the device whose credential is on the volume, 0 for none
  cell,       \* OwnerDevice: the device acted through, 0 for none
  syncing,    \* the sync loop of that device is running
  gone,       \* the gauge owner_device_credential_gone
  handing,    \* the handover that has cleared the gauge and not yet the cell
  inbox,      \* messages delivered and not yet taken: reply and delivery count
  job,        \* the message in hand
  faults, stops, early, revocations

busVars    == <<delivered, acked, reports, dead>>
deviceVars == <<volume, cell, syncing, gone, handing>>
budgetVars == <<faults, stops, early, revocations>>
vars == <<busVars, posts, valid, joined, deviceVars, inbox, job, budgetVars>>

Idle == [stage |-> "idle"]

\* A message in hand: how far the loop has come with it, what it found it may
\* act as when it took it, and whom the accepted post reaches.
Job ==
  [stage : {"posting", "posted", "undeliverable", "another's"}, reply : Replies,
   delivered : 1..MaxAttempts, acting : {"notConfigured", "credentialGone", "ownersDevice"},
   device : {0} \cup Devices, reach : {"none", "contact", "nobody"}]

Held(r) == (job # Idle /\ job.reply = r) \/ \E i \in DOMAIN inbox : inbox[i].reply = r

-----------------------------------------------------------------------------
Init ==
  /\ delivered = [r \in Replies |-> 0] /\ acked = {}
  /\ reports = [r \in Replies |-> "none"] /\ dead = {}
  /\ posts = {} /\ joined = {}
  /\ volume \in {0} \cup (Devices \cap {1})
  /\ valid = {volume} \ {0} /\ cell = volume /\ syncing = (volume # 0)
  /\ gone = FALSE /\ handing = 0
  /\ inbox = <<>> /\ job = Idle
  /\ faults = 0 /\ stops = 0 /\ early = 0 /\ revocations = 0

-----------------------------------------------------------------------------
(* The bus.                                                                  *)

\* Only whether the last attempt is reached tells two counts apart.
Hand(r) ==
  /\ delivered' = [delivered EXCEPT ![r] = IF @ < MaxAttempts THEN @ + 1 ELSE @]
  /\ inbox' = Append(inbox, [reply |-> r, delivered |-> delivered'[r]])

Deliver(r) ==
  /\ delivered[r] = 0
  /\ Hand(r)
  /\ UNCHANGED <<acked, reports, dead, posts, valid, joined, deviceVars, job, budgetVars>>

\* A NAK's delay or the ack deadline passes; the deadline may pass over a
\* message the loop still holds.
Redeliver(r) ==
  /\ delivered[r] > 0 /\ r \notin acked
  /\ Held(r) => early < MaxEarly
  /\ early' = IF Held(r) THEN early + 1 ELSE early
  /\ Hand(r)
  /\ UNCHANGED <<acked, reports, dead, posts, valid, joined, deviceVars, job,
                 faults, stops, revocations>>

-----------------------------------------------------------------------------
(* The owner's device.                                                       *)

\* What the send path finds it may act as, asked once per attempt.
Acting ==
  CASE cell = 0          -> "notConfigured"
    [] cell # 0 /\ gone  -> "credentialGone"
    [] OTHER             -> "ownersDevice"

\* take_the_handover: the credential is used, written down, and the gauge says
\* it is held ...
TakeHandover(d) ==
  /\ handing = 0 /\ d = volume + 1
  /\ valid' = valid \cup {d} /\ volume' = d
  /\ gone' = FALSE /\ handing' = d
  /\ UNCHANGED <<busVars, posts, joined, cell, syncing, inbox, job, budgetVars>>

\* ... and after telling the bus, it is acted through; the previous device's
\* loop is aborted.
Hold ==
  /\ handing # 0
  /\ cell' = handing /\ syncing' = TRUE /\ handing' = 0
  /\ UNCHANGED <<busVars, posts, valid, joined, volume, gone, inbox, job, budgetVars>>

\* The owner signs the device out from another client.
Revoke(d) ==
  /\ d \in valid /\ revocations < MaxRevocations
  /\ valid' = valid \ {d}
  /\ revocations' = revocations + 1
  /\ UNCHANGED <<busVars, posts, joined, deviceVars, inbox, job, faults, stops, early>>

\* run_owner_device: a sync joins what the owner is invited to, or is refused
\* for its token, which ends the loop.
SyncJoins(r) ==
  /\ syncing /\ cell \in valid /\ <<cell, r>> \notin joined
  /\ joined' = joined \cup {<<cell, r>>}
  /\ UNCHANGED <<busVars, posts, valid, deviceVars, inbox, job, budgetVars>>

SyncRefused ==
  /\ syncing /\ cell \notin valid
  /\ gone' = TRUE /\ syncing' = FALSE
  /\ UNCHANGED <<busVars, posts, valid, joined, volume, cell, handing, inbox, job, budgetVars>>

-----------------------------------------------------------------------------
(* run_approved_reply_consumer, one message at a time.                       *)

\* The next message, with what the loop may act as now.
Take ==
  /\ job = Idle /\ inbox # <<>>
  /\ LET m == Head(inbox) IN
       job' = [stage |-> IF m.reply \in Unusable THEN "undeliverable"
                         ELSE IF m.reply \in Others THEN "another's" ELSE "posting",
               reply |-> m.reply, delivered |-> m.delivered,
               acting |-> Acting, device |-> cell, reach |-> "none"]
  /\ inbox' = Tail(inbox)
  /\ UNCHANGED <<busVars, posts, valid, joined, deviceVars, budgetVars>>

\* Variant: every attempt is followed by another.
TryLaterForEver == job' = Idle

\* A failure that may pass: NAK for a later attempt, or give up.
TryLater ==
  job' = IF job.delivered >= MaxAttempts
         THEN [job EXCEPT !.stage = "undeliverable"] ELSE Idle

\* post_approved_reply: through the owner's device where it is a member of the
\* room, through the Sensor's own account where no device stands in for it.
AsOwner == job.acting = "ownersDevice" /\ <<job.device, job.reply>> \in joined

\* the_room_is_a_portal: a state that cannot be read counts as a portal.
\* (Variant: it counts as native traffic.)
SeenAsNative == {FALSE} \cup (IF job.reply \in Portals THEN {TRUE} ELSE {})

SeenAsPortal == {TRUE} \cup (IF job.reply \in Natives THEN {FALSE} ELSE {})

Reach(byTheOwner, portal) == IF byTheOwner \/ ~portal THEN "contact" ELSE "nobody"

\* Variant: a credential that is gone is no device at all.
MustWaitToJoin(portal) == ~AsOwner /\ portal /\ job.acting = "ownersDevice"

\* A portal waits for the owner's device; only a deployment without one posts
\* there as the Sensor.
MustWait(portal) == ~AsOwner /\ portal /\ job.acting # "notConfigured"

Sender == IF AsOwner THEN job.device ELSE 0

MayBeAccepted == AsOwner => job.device \in valid

\* The homeserver accepts the message, or knows its transaction id, and says so.
Post(portal) ==
  /\ job.stage = "posting" /\ ~MustWait(portal) /\ MayBeAccepted
  /\ posts' = posts \cup {<<job.reply, Sender>>}
  /\ job' = [job EXCEPT !.stage = "posted", !.reach = Reach(AsOwner, portal)]
  /\ UNCHANGED <<busVars, valid, joined, deviceVars, inbox, budgetVars>>

\* ... and its answer is lost.
PostUnanswered(portal) ==
  /\ job.stage = "posting" /\ ~MustWait(portal) /\ MayBeAccepted
  /\ faults < MaxFaults
  /\ posts' = posts \cup {<<job.reply, Sender>>}
  /\ TryLater
  /\ faults' = faults + 1
  /\ UNCHANGED <<busVars, valid, joined, deviceVars, inbox, stops, early, revocations>>

\* Nothing is posted: the device is not in the room yet, its credential is
\* gone, or the homeserver refuses for a reason that may pass.
PostRefused ==
  /\ job # Idle /\ job.stage = "posting"
  /\ TryLater
  /\ UNCHANGED <<busVars, posts, valid, joined, deviceVars, inbox, budgetVars>>

\* classify_send_error: the homeserver no longer knows the device that sent.
PostCredentialGone ==
  /\ job # Idle /\ job.stage = "posting" /\ AsOwner /\ job.device \notin valid
  /\ gone' = TRUE
  /\ TryLater
  /\ UNCHANGED <<busVars, posts, valid, joined, volume, cell, syncing, handing,
                 inbox, budgetVars>>

\* The ack of the message in hand arrives, or is lost, which is only logged.
Acknowledge ==
  \/ /\ acked' = acked \cup {job.reply}
     /\ UNCHANGED faults
  \/ /\ faults < MaxFaults
     /\ faults' = faults + 1
     /\ UNCHANGED acked

\* Another component's reply: acknowledged untouched.
LeaveToOthers ==
  /\ job # Idle /\ job.stage = "another's"
  /\ Acknowledge
  /\ job' = Idle
  /\ UNCHANGED <<delivered, reports, dead, posts, valid, joined, deviceVars, inbox,
                 stops, early, revocations>>

\* report_posted_reply under the reply's derived id (a second report of it is a
\* duplicate), and the ack whether or not it was stored.
Report ==
  /\ job # Idle /\ job.stage = "posted"
  /\ \/ reports' = [reports EXCEPT ![job.reply] = IF @ = "none" THEN job.reach ELSE @]
     \/ UNCHANGED reports
  /\ Acknowledge
  /\ job' = Idle
  /\ UNCHANGED <<delivered, dead, posts, valid, joined, deviceVars, inbox,
                 stops, early, revocations>>

\* Variant: the original is acked whatever became of its copy.
DeadLetterLoose ==
  /\ job # Idle /\ job.stage = "undeliverable"
  /\ \/ dead' = dead \cup {job.reply} /\ Acknowledge
     \/ UNCHANGED dead /\ Acknowledge
  /\ job' = Idle
  /\ UNCHANGED <<delivered, reports, posts, valid, joined, deviceVars, inbox,
                 stops, early, revocations>>

\* dead_letter: the copy is stored (or already is) and the original acked, or
\* the copy is not known to be stored and the original stays unacked.
DeadLetter ==
  /\ job # Idle /\ job.stage = "undeliverable"
  /\ \/ dead' = dead \cup {job.reply} /\ Acknowledge
     \/ /\ faults < MaxFaults /\ faults' = faults + 1
        /\ UNCHANGED <<dead, acked>>
  /\ job' = Idle
  /\ UNCHANGED <<delivered, reports, posts, valid, joined, deviceVars, inbox,
                 stops, early, revocations>>

\* The message stream ends and another incarnation of the consumer is built.
Rebuild ==
  /\ job = Idle /\ inbox # <<>> /\ faults < MaxFaults
  /\ inbox' = <<>>
  /\ faults' = faults + 1
  /\ UNCHANGED <<busVars, posts, valid, joined, deviceVars, job, stops, early, revocations>>

\* The process dies and comes back. bring_up_owner_device opens the credential
\* on the volume: it is used, or the homeserver refuses it or does not answer.
Crash ==
  /\ stops < MaxStops
  /\ inbox' = <<>> /\ job' = Idle /\ handing' = 0
  /\ \/ /\ volume \in valid
        /\ cell' = volume /\ syncing' = TRUE /\ gone' = FALSE
     \/ /\ volume # 0
        /\ cell' = 0 /\ syncing' = FALSE /\ gone' = TRUE
     \/ /\ volume = 0
        /\ cell' = 0 /\ syncing' = FALSE /\ gone' = FALSE
  /\ stops' = stops + 1
  /\ UNCHANGED <<busVars, posts, valid, joined, volume, faults, early, revocations>>

-----------------------------------------------------------------------------
Attempt ==
  /\ job # Idle
  /\ \E portal \in SeenAsPortal : Post(portal) \/ PostUnanswered(portal)

Next ==
  \/ \E r \in Replies : Deliver(r) \/ Redeliver(r)
  \/ \E d \in Devices : TakeHandover(d) \/ Revoke(d)
  \/ Hold \/ SyncRefused
  \/ \E r \in Postable : SyncJoins(r)
  \/ Take
  \/ Attempt \/ PostRefused \/ PostCredentialGone
  \/ LeaveToOthers \/ Report \/ DeadLetter
  \/ Rebuild \/ Crash

Spec == Init /\ [][Next]_vars

\* The loop never ends and the bus redelivers; how a post ends is not fair.
Work == Attempt \/ PostRefused \/ PostCredentialGone

FairSpec ==
  /\ Spec
  /\ \A r \in Replies : WF_vars(Deliver(r)) /\ WF_vars(Redeliver(r) /\ ~Held(r))
  /\ WF_vars(Take) /\ WF_vars(Work)
  /\ WF_vars(LeaveToOthers) /\ WF_vars(Report) /\ WF_vars(DeadLetter)

-----------------------------------------------------------------------------
(* Properties.                                                               *)

TypeOK ==
  /\ delivered \in [Replies -> 0..MaxAttempts] /\ acked \subseteq Replies
  /\ reports \in [Replies -> {"none", "contact", "nobody"}] /\ dead \subseteq Replies
  /\ posts \subseteq Postable \X ({0} \cup Devices)
  /\ valid \subseteq Devices /\ joined \subseteq Devices \X Postable
  /\ volume \in {0} \cup Devices /\ cell \in {0} \cup Devices
  /\ handing \in {0, volume}
  /\ syncing \in BOOLEAN /\ gone \in BOOLEAN
  /\ inbox \in Seq([reply : Replies, delivered : 1..MaxAttempts])
  /\ job = Idle \/ job \in Job
  /\ faults \in 0..MaxFaults /\ stops \in 0..MaxStops
  /\ early \in 0..MaxEarly /\ revocations \in 0..MaxRevocations

PostedBy(r) == {d \in {0} \cup Devices : <<r, d>> \in posts}

PostedByOwner(r) == PostedBy(r) \ {0} # {}

\* Nothing an owner approved disappears: an acked reply was accepted by the
\* homeserver or has its dead-letter copy, one that can never be posted has the
\* copy, and another component's is left as it was -- through lost acks, lost
\* copies, crashes and redeliveries.
AckedMeansSettled ==
  \A r \in acked :
    CASE r \in Postable -> PostedBy(r) # {} \/ r \in dead
      [] r \in Unusable -> r \in dead
      [] OTHER -> r \notin dead /\ PostedBy(r) = {}

\* The `.posted` report the approval screen reads claims no delivery that did
\* not happen: "contact" means that the owner's account spoke or that no bridge
\* stands before the contact, and any report that something was posted (#216).
ReportsAreTrue ==
  \A r \in Replies :
    CASE reports[r] = "contact" -> PostedByOwner(r)
                                   \/ (r \in Natives /\ PostedBy(r) # {})
      [] reports[r] = "nobody"  -> 0 \in PostedBy(r)
      [] OTHER -> TRUE

PostedReplies == {r \in Replies : PostedBy(r) # {}}

\* What the Sensor promises of the approved replies: it posts, reports, copies and
\* acknowledges them so that none is forgotten that neither left nor was kept,
\* none is reported that did not leave, no report is revised and nothing is taken
\* back (main.rs, outbound.rs).
Sensors == INSTANCE Disposal WITH
  Reply    <- Replies,
  Sendable <- Postable,
  Foreign  <- Others,
  Reaches  <- {"contact", "nobody"},
  left     <- PostedReplies,
  told     <- reports,
  kept     <- dead,
  settled  <- acked

DisposesOfReplies == Sensors!Spec

\* A process that started with the owner's device never again speaks in a portal
\* as the Sensor, which would reach nobody: not while the device has not joined,
\* not when its credential is gone, not while another replaces it (#123, #229).
NeverFallsBack ==
  cell # 0 => [](stops = 0 => \A r \in Portals : 0 \notin PostedBy(r))

\* Every approved reply is settled in the end, whatever was lost on the way.
EveryReplySettles == \A r \in Replies : <>(r \in acked)

\* "A redelivered approval whose earlier send was accepted but whose response
\* was lost is deduplicated by the homeserver instead of posted twice"
\* (main.rs:4267).
PostedOnce == \A r \in Replies : Cardinality(PostedBy(r)) <= 1

\* The gauge is "the homeserver no longer knows the acting credential"
\* (metrics.rs:353), of the device that is acting.
GoneMeansGone == gone /\ cell # 0 /\ handing = 0 => cell \notin valid

\* With a credential on the volume that cannot be used, "every reply to a
\* bridged conversation is refused rather than silently delivered to nobody"
\* (main.rs:1981).
RefusedNotSilent ==
  [][gone /\ gone' => \A r \in Portals : <<r, 0>> \notin posts' \ posts]_vars
=============================================================================
