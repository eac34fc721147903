---------------------------- MODULE MailReplies ----------------------------
(* From an approved reply on the bus to a mail from the owner's mailbox      *)
(* (collector/src/replies.rs, outbound.rs, Mailbox::send_reply): the          *)
(* collector's durable consumer of approvals, the look into Sent before       *)
(* anything is created, the creation and submission in one JMAP request, the  *)
(* `.posted` report and the dead-letter copy.                                 *)
(*                                                                           *)
(* The bus delivers at least once and JMAP knows no transaction id: a mail    *)
(* carries the approval's id in X-Twalk-Approval, and Sent's newest page is   *)
(* what tells a redelivery that its reply has left.                           *)
EXTENDS Naturals, Sequences, FiniteSets

CONSTANTS
  Mails,        \* replies to a mail of the connection this collector holds
  Unusable,     \* approvals that are not JSON or name no usable target
  Others,       \* approvals for a room or another collector's connection
  HasDrafts,    \* the server lists a Drafts mailbox; otherwise Sent stands in
  MaxAttempts,  \* COLLECTOR_SEND_RETRY_MAX_ATTEMPTS
  MaxFaults,    \* bound on lost answers, acks and publications
  MaxStops,     \* bound on crashes
  MaxEarly,     \* bound on redeliveries of a message still in hand
  MaxLapses,    \* bound on losses of the credential
  MaxLate,      \* bound on requests given up before the server ran them
  MaxMoved      \* bound on replies that leave Sent's newest page

ASSUME DraftsAssumption == HasDrafts \in BOOLEAN
ASSUME AttemptsAssumption == MaxAttempts \in Nat \ {0}
ASSUME LimitsAssumption ==
  /\ MaxFaults \in Nat /\ MaxStops \in Nat /\ MaxEarly \in Nat
  /\ MaxLapses \in Nat /\ MaxLate \in Nat /\ MaxMoved \in Nat

Replies == Mails \cup Unusable \cup Others

ASSUME KindsAssumption ==
  Mails \cap (Unusable \cup Others) = {} /\ Unusable \cap Others = {}

VARIABLES
  \* The bus, durable.
  delivered,  \* how often each approval was delivered, counted to MaxAttempts
  acked,      \* the approvals whose ack reached the bus
  reported,   \* the replies with a stored `.posted` report
  dead,       \* why each approval has a stored dead-letter copy, or "none"
  \* The mailbox server, durable.
  thread,     \* the mails under the Message-ID a reply answers, and the server's search
  copies,     \* how many mails left for each reply
  inSent,     \* the replies a mail on Sent's newest page carries the id of
  drafts,     \* the replies with a draft left behind
  flying,     \* requests given up by the collector that the server may yet run
  \* The collector.
  token,      \* the credential the run loop shares, or none
  inbox,      \* messages delivered and not yet taken: reply and delivery count
  job,        \* the message in hand
  \* What happened, for the properties and the bounds.
  tried,      \* attempts made with a credential, counted to MaxAttempts
  late,       \* requests given up in flight, per reply
  moved,      \* how often each reply left Sent's newest page
  faults, stops, early, lapses

busVars    == <<delivered, acked, reported, dead>>
serverVars == <<thread, copies, inSent, drafts, flying, late, moved>>
budgetVars == <<faults, stops, early, lapses>>
vars == <<busVars, serverVars, token, inbox, job, tried, budgetVars>>

Idle == [stage |-> "idle"]

Reasons == {"unusable", "refused", "a stranger's", "exhausted"}

Job == [stage : {"waiting", "looking", "sending", "sent", "another's", "undeliverable"},
        reply : Replies, delivered : 1..MaxAttempts, why : {"none"} \cup Reasons]

\* The mails that carry one Message-ID, in the server's order, by who sent
\* them, and whether the server answers a header filter.
Threads ==
  [filters : BOOLEAN,
   from : {<<>>, <<"contact">>, <<"stranger">>, <<"stranger", "contact">>}]

Held(r) == (job # Idle /\ job.reply = r) \/ \E i \in DOMAIN inbox : inbox[i].reply = r

-----------------------------------------------------------------------------
Init ==
  /\ delivered = [r \in Replies |-> 0] /\ acked = {} /\ reported = {}
  /\ dead = [r \in Replies |-> "none"]
  /\ thread \in [Mails -> Threads]
  /\ copies = [r \in Mails |-> 0] /\ inSent = {} /\ drafts = {}
  /\ flying = [r \in Mails |-> 0] /\ late = flying /\ moved = flying
  /\ token \in BOOLEAN /\ inbox = <<>> /\ job = Idle
  /\ tried = [r \in Mails |-> 0]
  /\ faults = 0 /\ stops = 0 /\ early = 0 /\ lapses = 0

-----------------------------------------------------------------------------
(* The bus.                                                                  *)

\* Only whether the last attempt is reached tells two counts apart.
Hand(r) ==
  /\ delivered' = [delivered EXCEPT ![r] = IF @ < MaxAttempts THEN @ + 1 ELSE @]
  /\ inbox' = Append(inbox, [reply |-> r, delivered |-> delivered'[r]])

Deliver(r) ==
  /\ delivered[r] = 0
  /\ Hand(r)
  /\ UNCHANGED <<acked, reported, dead, serverVars, token, job, tried, budgetVars>>

\* A NAK's delay or the ack deadline passes; the deadline may pass over a
\* message the loop still holds, several requests of thirty seconds each.
Redeliver(r) ==
  /\ delivered[r] > 0 /\ r \notin acked
  /\ Held(r) => early < MaxEarly
  /\ early' = IF Held(r) THEN early + 1 ELSE early
  /\ Hand(r)
  /\ UNCHANGED <<acked, reported, dead, serverVars, token, job, tried,
                 faults, stops, lapses>>

-----------------------------------------------------------------------------
(* The credential, and the mailbox between two requests.                     *)

\* The run loop writes the credential after each round; none while the grant
\* cannot be renewed.
TokenGoes ==
  /\ token /\ lapses < MaxLapses
  /\ token' = FALSE /\ lapses' = lapses + 1
  /\ UNCHANGED <<busVars, serverVars, inbox, job, tried, faults, stops, early>>

TokenComes ==
  /\ ~token /\ token' = TRUE
  /\ UNCHANGED <<busVars, serverVars, inbox, job, tried, budgetVars>>

\* The owner sends QUERY_PAGE other mails, or files the reply elsewhere.
LeaveThePage(r) ==
  /\ r \in inSent /\ moved[r] < MaxMoved
  /\ inSent' = inSent \ {r} /\ moved' = [moved EXCEPT ![r] = @ + 1]
  /\ UNCHANGED <<busVars, thread, copies, drafts, flying, late, token, inbox, job,
                 tried, budgetVars>>

\* A mail left: it is moved to Sent with the submission.
Leave(r) ==
  /\ copies' = [copies EXCEPT ![r] = @ + 1]
  /\ inSent' = inSent \cup {r}

\* Variant: a refused reply keeps its place in Sent, whatever its draft is.
StayBehindInSent(r) ==
  /\ drafts' = drafts \cup {r}
  /\ inSent' = inSent \cup {r}

\* A draft was created and stays: in Drafts, or in Sent where there is none.
StayBehind(r) ==
  /\ drafts' = drafts \cup {r}
  /\ inSent' = IF HasDrafts THEN inSent ELSE inSent \cup {r}

\* The server runs a request nobody waits for any more.
RunLate(r) ==
  /\ flying[r] > 0 /\ flying' = [flying EXCEPT ![r] = @ - 1]
  /\ \/ Leave(r) /\ UNCHANGED drafts
     \/ StayBehind(r) /\ UNCHANGED copies
  /\ UNCHANGED <<busVars, thread, late, moved, token, inbox, job, tried, budgetVars>>

-----------------------------------------------------------------------------
(* run, one message at a time.                                               *)

Take ==
  /\ job = Idle /\ inbox # <<>>
  /\ LET m == Head(inbox) IN
       job' = [stage |-> IF m.reply \in Unusable THEN "undeliverable"
                         ELSE IF m.reply \in Others THEN "another's" ELSE "waiting",
               reply |-> m.reply, delivered |-> m.delivered,
               why |-> IF m.reply \in Unusable THEN "unusable" ELSE "none"]
  /\ inbox' = Tail(inbox)
  /\ UNCHANGED <<busVars, serverVars, token, tried, budgetVars>>

At(stage) == job # Idle /\ job.stage = stage

\* wait_for_token finds one ...
TokenFound ==
  /\ At("waiting") /\ token
  /\ job' = [job EXCEPT !.stage = "looking"]
  /\ tried' = [tried EXCEPT ![job.reply] = IF @ < MaxAttempts THEN @ + 1 ELSE @]
  /\ UNCHANGED <<busVars, serverVars, token, inbox, budgetVars>>

\* ... or none within its minute, and the message is to be redelivered.
WaitOver ==
  /\ At("waiting") /\ ~token
  /\ job' = Idle
  /\ UNCHANGED <<busVars, serverVars, token, inbox, tried, budgetVars>>

GiveUp(reason) == job' = [job EXCEPT !.stage = "undeliverable", !.why = reason]

\* Variant: every attempt is followed by another.
TryLaterForEver == job' = Idle

\* SendError::Transient: NAK for a later attempt, or give up.
TryLater == IF job.delivered >= MaxAttempts THEN GiveUp("exhausted") ELSE job' = Idle

\* A read of the mailbox that is refused, unanswered, or an answer the policy
\* takes as passing.
ReadFails ==
  /\ At("looking")
  /\ TryLater
  /\ UNCHANGED <<busVars, serverVars, token, inbox, tried, budgetVars>>

\* An answer a retry cannot change: no Sent mailbox, a wrong request, no
\* identity of the owner's, a mail the server will not create.
RefusedForGood ==
  /\ At("looking") \/ At("sending")
  /\ GiveUp("refused")
  /\ UNCHANGED <<busVars, serverVars, token, inbox, tried, budgetVars>>

\* Variant: nothing is looked up before a mail is created.
AlreadyUnread(r) == FALSE

\* already_answered: a mail on Sent's newest page carries the approval's id.
Already(r) == r \in inSent

AlreadySent ==
  /\ At("looking") /\ Already(job.reply)
  /\ job' = [job EXCEPT !.stage = "sent"]
  /\ UNCHANGED <<busVars, serverVars, token, inbox, tried, budgetVars>>

\* The mails a reply may answer: the first a header filter finds, or what
\* reading the mailbox page by page finds.
Candidates(r) ==
  LET from == thread[r].from IN
    IF thread[r].filters /\ from # <<>> THEN {Head(from)} ELSE {from[i] : i \in DOMAIN from}

\* The mail answered must be from the approval's recipient.
LookUp ==
  /\ At("looking") /\ ~Already(job.reply)
  /\ CASE "contact" \in Candidates(job.reply) -> job' = [job EXCEPT !.stage = "sending"]
       [] Candidates(job.reply) = {}          -> GiveUp("refused")
       [] OTHER                               -> GiveUp("a stranger's")
  /\ UNCHANGED <<busVars, serverVars, token, inbox, tried, budgetVars>>

\* Email/set and EmailSubmission/set in one request, and its answer.
Send ==
  /\ At("sending")
  /\ Leave(job.reply)
  /\ job' = [job EXCEPT !.stage = "sent"]
  /\ UNCHANGED <<busVars, thread, drafts, flying, late, moved, token, inbox, tried,
                 budgetVars>>

\* The mail left and the answer is lost.
SendUnanswered ==
  /\ At("sending") /\ faults < MaxFaults
  /\ Leave(job.reply)
  /\ TryLater
  /\ faults' = faults + 1
  /\ UNCHANGED <<busVars, thread, drafts, flying, late, moved, token, inbox, tried,
                 stops, early, lapses>>

\* No answer within the client's time, from a server that has yet to run it,
\* or that never received it.
SendTimesOut ==
  /\ At("sending")
  /\ \/ /\ late[job.reply] < MaxLate
        /\ flying' = [flying EXCEPT ![job.reply] = @ + 1]
        /\ late' = [late EXCEPT ![job.reply] = @ + 1]
     \/ UNCHANGED <<flying, late>>
  /\ TryLater
  /\ UNCHANGED <<busVars, thread, copies, inSent, drafts, moved, token, inbox, tried,
                 budgetVars>>

\* The mail was created and its submission refused: for now, or for good. The
\* draft is destroyed where the answer said so and the server agrees; a method
\* error, or an answer that never came, leaves it where it is.
SubmissionRefused ==
  /\ At("sending")
  /\ \/ UNCHANGED <<drafts, inSent, faults>>
     \/ /\ faults < MaxFaults /\ faults' = faults + 1
        /\ StayBehind(job.reply)
  /\ TryLater \/ GiveUp("refused")
  /\ UNCHANGED <<busVars, thread, copies, flying, late, moved, token, inbox, tried,
                 stops, early, lapses>>

-----------------------------------------------------------------------------
\* The ack of the message in hand arrives, or is lost, which is only logged.
Acknowledge ==
  \/ acked' = acked \cup {job.reply} /\ UNCHANGED faults
  \/ faults < MaxFaults /\ faults' = faults + 1 /\ UNCHANGED acked

LeaveToOthers ==
  /\ At("another's")
  /\ Acknowledge
  /\ job' = Idle
  /\ UNCHANGED <<delivered, reported, dead, serverVars, token, inbox, tried,
                 stops, early, lapses>>

\* report_posted under the approval's derived id, and the ack whether or not
\* it was stored.
Report ==
  /\ At("sent")
  /\ reported' \in {reported, reported \cup {job.reply}}
  /\ Acknowledge
  /\ job' = Idle
  /\ UNCHANGED <<delivered, dead, serverVars, token, inbox, tried, stops, early, lapses>>

\* Variant: the original is acked whatever became of its copy.
DeadLetterLoose ==
  /\ At("undeliverable")
  /\ dead' \in {dead, [dead EXCEPT ![job.reply] = IF @ = "none" THEN job.why ELSE @]}
  /\ Acknowledge
  /\ job' = Idle
  /\ UNCHANGED <<delivered, reported, serverVars, token, inbox, tried, stops, early, lapses>>

\* dead_letter: the copy is stored, or was under the same derived id, and the
\* original acked; or the copy is not known to be stored and nothing is acked.
DeadLetter ==
  /\ At("undeliverable")
  /\ \/ /\ dead' = [dead EXCEPT ![job.reply] = IF @ = "none" THEN job.why ELSE @]
        /\ Acknowledge
     \/ /\ faults < MaxFaults /\ faults' = faults + 1
        /\ UNCHANGED <<dead, acked>>
  /\ job' = Idle
  /\ UNCHANGED <<delivered, reported, serverVars, token, inbox, tried, stops, early, lapses>>

\* The message stream ends and the consumer is rebuilt after five seconds.
Rebuild ==
  /\ job = Idle /\ inbox # <<>> /\ faults < MaxFaults
  /\ inbox' = <<>> /\ faults' = faults + 1
  /\ UNCHANGED <<busVars, serverVars, token, job, tried, stops, early, lapses>>

\* The process dies, perhaps with its request at the server, and comes back
\* without a credential.
Crash ==
  /\ stops < MaxStops /\ stops' = stops + 1
  /\ inbox' = <<>> /\ job' = Idle /\ token' = FALSE
  /\ \/ /\ At("sending") /\ late[job.reply] < MaxLate
        /\ flying' = [flying EXCEPT ![job.reply] = @ + 1]
        /\ late' = [late EXCEPT ![job.reply] = @ + 1]
     \/ UNCHANGED <<flying, late>>
  /\ UNCHANGED <<busVars, thread, copies, inSent, drafts, moved, tried,
                 faults, early, lapses>>

-----------------------------------------------------------------------------
Work ==
  \/ TokenFound \/ WaitOver
  \/ ReadFails \/ RefusedForGood \/ AlreadySent \/ LookUp
  \/ Send \/ SendUnanswered \/ SendTimesOut \/ SubmissionRefused
  \/ LeaveToOthers \/ Report \/ DeadLetter

Next ==
  \/ \E r \in Replies : Deliver(r) \/ Redeliver(r)
  \/ \E r \in Mails : LeaveThePage(r) \/ RunLate(r)
  \/ TokenGoes \/ TokenComes
  \/ Take \/ Work
  \/ Rebuild \/ Crash

Spec == Init /\ [][Next]_vars

\* The loop never ends, the bus redelivers and a credential comes back; how an
\* attempt ends is not fair.
FairSpec ==
  /\ Spec
  /\ \A r \in Replies : WF_vars(Deliver(r)) /\ WF_vars(Redeliver(r) /\ ~Held(r))
  /\ WF_vars(TokenComes) /\ WF_vars(Take) /\ WF_vars(Work)

-----------------------------------------------------------------------------
(* Properties.                                                               *)

TypeOK ==
  /\ delivered \in [Replies -> 0..MaxAttempts] /\ acked \subseteq Replies
  /\ reported \subseteq Mails /\ dead \in [Replies -> {"none"} \cup Reasons]
  /\ thread \in [Mails -> Threads] /\ copies \in [Mails -> Nat]
  /\ inSent \subseteq Mails /\ drafts \subseteq Mails
  /\ flying \in [Mails -> Nat] /\ late \in [Mails -> Nat] /\ moved \in [Mails -> Nat]
  /\ token \in BOOLEAN
  /\ inbox \in Seq([reply : Replies, delivered : 1..MaxAttempts])
  /\ job = Idle \/ job \in Job
  /\ tried \in [Mails -> 0..MaxAttempts]
  /\ faults \in 0..MaxFaults /\ stops \in 0..MaxStops
  /\ early \in 0..MaxEarly /\ lapses \in 0..MaxLapses

\* A lost answer, a lost ack, a crash or a redelivery sends nothing twice: every
\* mail beyond the first is owed to a request the server ran after the
\* collector had given it up, or to a reply that had left the page of Sent that
\* is read (mails.rs:1057 "one page, because a redelivery arrives in minutes").
SentOnce == \A r \in Mails : copies[r] <= 1 + moved[r] + late[r]

\* No approved reply is silently dropped, and none is reported that did not
\* leave: what is acked left or has its dead-letter copy, what is reported left,
\* and another component's approval is never touched (outbound.rs:14).
NeverDropped ==
  /\ \A r \in acked \ Others : dead[r] # "none" \/ (r \in Mails /\ copies[r] > 0)
  /\ \A r \in reported : copies[r] > 0
  /\ \A r \in Others : dead[r] = "none"

SentReplies == {r \in Mails : copies[r] > 0}

Records == [r \in Replies |-> IF r \in reported THEN "contact" ELSE "none"]

KeptReplies == {r \in Replies : dead[r] # "none"}

\* What the collector promises of the approved replies of its connection, and it is
\* what the Sensor promises of its own: sent or kept before the bus forgets them,
\* reported once and truly, another component's left alone (replies.rs, outbound.rs).
Collectors == INSTANCE Disposal WITH
  Reply    <- Replies,
  Sendable <- Mails,
  Foreign  <- Others,
  Reaches  <- {"contact"},
  left     <- SentReplies,
  told     <- Records,
  kept     <- KeptReplies,
  settled  <- acked

DisposesOfReplies == Collectors!Spec

\* Every approved reply is sent or dead-lettered in the end.
EveryReplySettles == \A r \in Replies : <>(r \in acked)

\* "the draft is destroyed on the way to the retry, so a refusal never
\* accumulates the approved text in Drafts" (replies.rs:16).
NoDraftLeft == drafts = {}

\* "rather than spending its retry budget on rounds nothing was tried in"
\* (replies.rs:146).
BudgetIsForAttempts == \A r \in Mails : dead[r] = "exhausted" => tried[r] >= MaxAttempts

\* "the contact's is the one answered, and the refusal is for when none of them
\* is theirs" (mails.rs:971).
AnswersTheContact ==
  \A r \in Mails : dead[r] = "a stranger's" =>
    \A i \in DOMAIN thread[r].from : thread[r].from[i] # "contact"
=============================================================================
