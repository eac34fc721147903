------------------------------ MODULE Approval ------------------------------
(* Approving one suggestion (companion-gateway/src/approval.rs): the owner's *)
(* requests for it -- a double click, a retry after a refusal, a second      *)
(* device -- run concurrently, each reads the Gateway's store step by step,   *)
(* writes one row, publishes inside the request and marks the row.           *)
(*                                                                           *)
(* Steps are the store's mutex sections and the request's awaits.  The owner *)
(* is the caller, the suggestion and its trigger are found, their label is   *)
(* `granted`, and the suggestion carries a disclosure that fits; the         *)
(* refusals that say otherwise answer before anything is written.            *)
EXTENDS Naturals, Sequences

CONSTANTS
  Requests,      \* the owner's requests to approve this suggestion
  Texts,         \* what a reply may say
  Draft,         \* what the persona suggested
  Suggestion,    \* the hash of the suggestion's id and the owner
  MaxChanges,    \* bound on the owner's changes of consent and switch
  MaxFaults,     \* bound on failures, crashes and callers that go away
  MaxExpiries    \* bound on ids that leave the duplicate window early

ASSUME DraftAssumption == Draft \in Texts
ASSUME BudgetAssumption ==
  MaxChanges \in Nat /\ MaxFaults \in Nat /\ MaxExpiries \in Nat

Authors == {"owner", "persona"}

\* What an approval reads of the store: the contact's effective consent, the
\* disclosure switch, and whether the connection can send.
Settings ==
  [consent : {"granted", "pending", "revoked"}, disclose : BOOLEAN, canSend : BOOLEAN]

\* A published reply: what the contact will read, and the part of `settings`
\* its request lived through (a history, for the properties).
Reply ==
  [id : {Suggestion}, text : Texts, writtenBy : Authors, disclosed : BOOLEAN,
   since : 1..(MaxChanges + 1), until : 1..(MaxChanges + 1)]

VARIABLES
  settings,   \* every value the settings had, the current one last
  fresh,      \* the suggestion has not expired
  row,        \* this suggestion's row of table `approval`, or {} for none
  log,        \* the replies the bus holds
  window,     \* the ids the duplicate window still holds
  late,       \* publications that timed out and may reach the bus yet
  stage,      \* how far each request has come
  ask,        \* what each request asks: a text and who claims to have written it
  since,      \* Len(settings) when the request began
  disclosed,  \* the request appends the disclosure
  landed,     \* the position the bus answered the request
  afterMark,  \* the request began after the row was marked (a history)
  changes, faults, expiries

requestVars == <<ask, since, disclosed, landed, afterMark>>
budgetVars  == <<changes, faults, expiries>>
vars == <<settings, fresh, row, log, window, late, stage, requestVars, budgetVars>>

Now == settings[Len(settings)]

\* The row, while there is one: what Store::record_approval and
\* Store::mark_approval_published wrote.
Row == [edited : BOOLEAN, writtenBy : Authors, position : Nat]

TheRow == CHOOSE r \in row : TRUE

Marked == row # {} /\ TheRow.position # 0

\* A text identical to the draft is the draft, whatever the gesture claims.
WrittenBy(r) ==
  IF ask[r].claim = "owner" /\ ask[r].text # Draft THEN "owner" ELSE "persona"

Edited(r) == ask[r].text # Draft

\* Variant: an id that hashes the text as well.
EventIdOfText(r) == ask[r].text

\* Approval::event_id: no clock, no text and no request in it.
EventId(r) == Suggestion

\* The envelope request r publishes.
Envelope(r) ==
  [id |-> EventId(r), text |-> ask[r].text, writtenBy |-> WrittenBy(r), disclosed |-> disclosed[r],
   since |-> since[r], until |-> Len(settings)]

\* The stages in which a request is being served, and those in which it awaits.
Served  == {"asked", "granted", "worded", "clear", "recorded", "sent"}
Awaiting == {"asked", "recorded"}
Answers == {"created", "already", "refused", "unreachable", "unrecorded", "gone"}

-----------------------------------------------------------------------------
Init ==
  /\ settings \in {<<s>> : s \in Settings}
  /\ fresh = TRUE
  /\ row = {} /\ log = <<>> /\ window = {} /\ late = {}
  /\ stage = [r \in Requests |-> "idle"]
  /\ ask = [r \in Requests |-> [text |-> Draft, claim |-> "persona"]]
  /\ since = [r \in Requests |-> 1]
  /\ disclosed = [r \in Requests |-> FALSE]
  /\ landed = [r \in Requests |-> 0]
  /\ afterMark = [r \in Requests |-> FALSE]
  /\ changes = 0 /\ faults = 0 /\ expiries = 0

\* The owner decides about the contact or flips the switch, or the collector
\* reports its connection.
Change(new) ==
  /\ changes < MaxChanges
  /\ \/ \E c \in {"granted", "pending", "revoked"} \ {Now.consent} :
          new = [Now EXCEPT !.consent = c]
     \/ new = [Now EXCEPT !.disclose = ~@]
     \/ new = [Now EXCEPT !.canSend = ~@]
  /\ settings' = Append(settings, new)
  /\ changes' = changes + 1
  /\ UNCHANGED <<fresh, row, log, window, late, stage, requestVars, faults, expiries>>

\* expires_at passes.
Expire ==
  /\ fresh /\ fresh' = FALSE
  /\ UNCHANGED <<settings, row, log, window, late, stage, requestVars, budgetVars>>

-----------------------------------------------------------------------------
(* One request, in the order of Approvals::approve.                          *)

Answer(r, answer) == stage' = [stage EXCEPT ![r] = answer]

\* The suggestion is found; a stale one is refused.
Ask(r, text, claim) ==
  /\ stage[r] = "idle"
  /\ ask' = [ask EXCEPT ![r] = [text |-> text, claim |-> claim]]
  /\ since' = [since EXCEPT ![r] = Len(settings)]
  /\ afterMark' = [afterMark EXCEPT ![r] = Marked]
  /\ Answer(r, IF fresh THEN "asked" ELSE "refused")
  /\ UNCHANGED <<settings, fresh, row, log, window, late, disclosed, landed, budgetVars>>

\* Variant: a repair does not ask for consent again.
CheckConsentOnce(r) ==
  /\ stage[r] = "asked"
  /\ Answer(r, IF Now.consent = "granted" \/ row # {} THEN "granted" ELSE "refused")
  /\ UNCHANGED <<settings, fresh, row, log, window, late, requestVars, budgetVars>>

\* The trigger is found; the contact's consent is `granted` at this moment.
CheckConsent(r) ==
  /\ stage[r] = "asked"
  /\ Answer(r, IF Now.consent = "granted" THEN "granted" ELSE "refused")
  /\ UNCHANGED <<settings, fresh, row, log, window, late, requestVars, budgetVars>>

\* Variant: the gesture is believed.
ReadSwitchByClaim(r) ==
  /\ stage[r] = "granted"
  /\ disclosed' = [disclosed EXCEPT ![r] = Now.disclose /\ ask[r].claim = "persona"]
  /\ Answer(r, "worded")
  /\ UNCHANGED <<settings, fresh, row, log, window, late, ask, since, landed,
                 afterMark, budgetVars>>

\* The disclosure goes with the persona's words, while the switch is on.
ReadSwitch(r) ==
  /\ stage[r] = "granted"
  /\ disclosed' = [disclosed EXCEPT ![r] = Now.disclose /\ WrittenBy(r) = "persona"]
  /\ Answer(r, "worded")
  /\ UNCHANGED <<settings, fresh, row, log, window, late, ask, since, landed,
                 afterMark, budgetVars>>

\* A row already marked published is the answer; one that is not is repaired.
LookUp(r) ==
  /\ stage[r] = "worded"
  /\ Answer(r, IF Marked THEN "already" ELSE "clear")
  /\ UNCHANGED <<settings, fresh, row, log, window, late, requestVars, budgetVars>>

\* Variant: the row is written when it is marked, and not before.
RecordNothing(r) ==
  /\ stage[r] = "clear" /\ Now.canSend
  /\ Answer(r, "recorded")
  /\ UNCHANGED <<settings, fresh, row, log, window, late, requestVars, budgetVars>>

\* connection_can_send, then Store::record_approval: a row that is there stays.
Record(r) ==
  /\ stage[r] = "clear" /\ Now.canSend
  /\ row' = IF row # {} THEN row
            ELSE {[edited |-> Edited(r), writtenBy |-> WrittenBy(r), position |-> 0]}
  /\ Answer(r, "recorded")
  /\ UNCHANGED <<settings, fresh, log, window, late, requestVars, budgetVars>>

CannotSend(r) ==
  /\ stage[r] = "clear" /\ ~Now.canSend
  /\ Answer(r, "refused")
  /\ UNCHANGED <<settings, fresh, row, log, window, late, requestVars, budgetVars>>

\* A read or the write of the store fails, and so does the request.
StoreFails(r) ==
  /\ stage[r] \in {"asked", "granted", "worded", "clear"} /\ faults < MaxFaults
  /\ Answer(r, "refused")
  /\ faults' = faults + 1
  /\ UNCHANGED <<settings, fresh, row, log, window, late, requestVars, changes, expiries>>

\* The bus keeps the first reply of an id for as long as its window holds it.
Store(reply) ==
  IF reply.id \in window THEN UNCHANGED <<log, window>>
  ELSE log' = Append(log, reply) /\ window' = window \cup {reply.id}

\* The bus stores the reply, or knows its id, and its answer arrives.
Publish(r) ==
  /\ stage[r] = "recorded"
  /\ Store(Envelope(r))
  /\ landed' = [landed EXCEPT ![r] = Len(log')]
  /\ Answer(r, "sent")
  /\ UNCHANGED <<settings, fresh, row, late, ask, since, disclosed, afterMark, budgetVars>>

\* The ack does not come: the reply is stored, will be stored, or is lost.
PublishUnanswered(r) ==
  /\ stage[r] = "recorded" /\ faults < MaxFaults
  /\ \/ Store(Envelope(r)) /\ UNCHANGED late
     \/ late' = late \cup {Envelope(r)} /\ UNCHANGED <<log, window>>
     \/ UNCHANGED <<log, window, late>>
  /\ Answer(r, "unreachable")
  /\ faults' = faults + 1
  /\ UNCHANGED <<settings, fresh, row, requestVars, changes, expiries>>

\* A publication given up on reaches the bus after all.
Arrive(reply) ==
  /\ reply \in late
  /\ Store(reply)
  /\ late' = late \ {reply}
  /\ UNCHANGED <<settings, fresh, row, stage, requestVars, budgetVars>>

\* Store::mark_approval_published: a position already recorded stays.
Mark(r) ==
  /\ stage[r] = "sent"
  /\ row' = IF Marked THEN row ELSE {[TheRow EXCEPT !.position = landed[r]]}
  /\ Answer(r, "created")
  /\ UNCHANGED <<settings, fresh, log, window, late, requestVars, budgetVars>>

MarkFails(r) ==
  /\ stage[r] = "sent" /\ faults < MaxFaults
  /\ Answer(r, "unrecorded")
  /\ faults' = faults + 1
  /\ UNCHANGED <<settings, fresh, row, log, window, late, requestVars, changes, expiries>>

\* The caller goes away while the request awaits the bus, and the request with
\* it; what it was publishing has reached the bus or not.
CallerLeaves(r) ==
  /\ stage[r] \in Awaiting /\ faults < MaxFaults
  /\ Answer(r, "gone")
  /\ \/ stage[r] = "recorded" /\ Store(Envelope(r))
     \/ UNCHANGED <<log, window>>
  /\ faults' = faults + 1
  /\ UNCHANGED <<settings, fresh, row, late, requestVars, changes, expiries>>

\* The Gateway dies; its store does not.
Crash ==
  /\ faults < MaxFaults
  /\ \E r \in Requests : stage[r] \in Served
  /\ stage' = [r \in Requests |-> IF stage[r] \in Served THEN "gone" ELSE stage[r]]
  /\ faults' = faults + 1
  /\ UNCHANGED <<settings, fresh, row, log, window, late, requestVars, changes, expiries>>

\* A retry that comes after the duplicate window.
WindowExpires ==
  /\ window # {} /\ expiries < MaxExpiries
  /\ window' = {}
  /\ expiries' = expiries + 1
  /\ UNCHANGED <<settings, fresh, row, log, late, stage, requestVars, changes, faults>>

-----------------------------------------------------------------------------
Next ==
  \/ \E new \in Settings : Change(new)
  \/ Expire
  \/ \E r \in Requests :
       \/ \E text \in Texts, claim \in Authors : Ask(r, text, claim)
       \/ CheckConsent(r) \/ ReadSwitch(r) \/ LookUp(r) \/ Record(r) \/ CannotSend(r)
       \/ StoreFails(r)
       \/ Publish(r) \/ PublishUnanswered(r) \/ Mark(r) \/ MarkFails(r)
       \/ CallerLeaves(r)
  \/ \E reply \in late : Arrive(reply)
  \/ Crash
  \/ WindowExpires

Spec == Init /\ [][Next]_vars

-----------------------------------------------------------------------------
(* Properties.                                                               *)

TypeOK ==
  /\ settings \in Seq(Settings) /\ Len(settings) = changes + 1
  /\ fresh \in BOOLEAN
  /\ row \subseteq Row /\ \A x, y \in row : x = y
  /\ log \in Seq(Reply) /\ window \subseteq {Suggestion} /\ late \subseteq Reply
  /\ stage \in [Requests -> {"idle"} \cup Served \cup Answers]
  /\ ask \in [Requests -> [text : Texts, claim : Authors]]
  /\ since \in [Requests -> 1..Len(settings)]
  /\ disclosed \in [Requests -> BOOLEAN]
  /\ landed \in [Requests -> Nat]
  /\ afterMark \in [Requests -> BOOLEAN]
  /\ changes \in 0..MaxChanges /\ faults \in 0..MaxFaults /\ expiries \in 0..MaxExpiries

\* The values of the settings a reply's request lived through.
LivedThrough(reply) == {settings[k] : k \in reply.since .. reply.until}

Sent == {log[i] : i \in DOMAIN log}

\* "A row that was never marked says this was approved and the Gateway does not
\* know where it landed" (approval.rs): a reply on the bus always has its row,
\* and a marked row, or a request told 201, names a reply the bus holds.
NoSilentReply ==
  /\ log # <<>> => row # {}
  /\ Marked => TheRow.position \in DOMAIN log
  /\ \A r \in Requests : stage[r] = "created" => landed[r] \in DOMAIN log

\* No reply is on the bus unless its own request saw the contact's consent
\* granted at some moment of its life -- not an earlier request whose row it
\* repairs, and not the label the suggestion was born with.
GrantedInItsTime ==
  \A reply \in Sent : \E s \in LivedThrough(reply) : s.consent = "granted"

\* The persona's own words never go out undisclosed while the switch is on, by
\* whatever gesture, and no disclosure is told while it is off (ADR 0019, #327).
DisclosedInItsTime ==
  \A reply \in Sent :
    IF reply.disclosed
    THEN /\ reply.writtenBy = "persona"
         /\ \E s \in LivedThrough(reply) : s.disclose
    ELSE \/ reply.writtenBy = "owner" /\ reply.text # Draft
         \/ \E s \in LivedThrough(reply) : ~s.disclose

\* A request made once the row is marked is told where the reply went; it is
\* never answered as if it had sent one.
SecondClickIsTold ==
  \A r \in Requests : afterMark[r] => stage[r] \notin {"sent", "created", "unrecorded"}

\* While the window holds, concurrent requests, retries, crashes and late
\* publications send one reply, unchanging, and record it once.
Promise == INSTANCE SendOnce WITH
  sent     <- log,
  recorded <- Marked

SendsOnce ==
  Promise!Init /\ [][expiries' = 0 => [Promise!Next]_(Promise!vars)]_vars
=============================================================================
