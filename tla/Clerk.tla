--------------------------------- MODULE Clerk ---------------------------------
(***************************************************************************)
(* The clerk (clerk/src/consumers.rs): suggestions read off the bus become *)
(* posts on the owner's relay, and what the owner does with a post is      *)
(* carried to the Companion Gateway.  Three tasks of one process share the *)
(* relay and one session cell: the suggestions consumer, the sweep that    *)
(* deletes expired posts, and the decisions loop.  The clerk keeps nothing *)
(* (ADR 0035): its posts, its thread answers and its activity lines on the *)
(* relay are all it remembers, and a call whose answer is lost is found    *)
(* there or done again.                                                    *)
(*                                                                         *)
(* A relay call is done, fails, or is done and not heard of; a request     *)
(* that timed out is never served later.  Reactions and replies are one    *)
(* kind of gesture here: what a text says decides nothing in this code.    *)
(***************************************************************************)
EXTENDS Naturals, Sequences, FiniteSets

CONSTANTS
    Suggestions,   \* what the personas propose
    MaxDeliver,    \* MAX_DELIVER
    MaxGestures,   \* bound: reactions made
    MaxMishaps     \* bound: crashes, calls that fail or are not heard of, refusals, revocations

ASSUME ClerkAssumption ==
    /\ IsFiniteSet(Suggestions)
    /\ MaxDeliver \in Nat \ {0} /\ {MaxGestures, MaxMishaps} \subseteq Nat

VARIABLES
    undated,   \* the suggestions whose expiry cannot be read off the post
    clock,     \* each suggestion: far from its end, within not_recorded_window of it, or past it
    bus,       \* its message on the stream
    delivered, \* how many times the bus has delivered it
    rows,       \* the Gateway's record of its approval: none, not marked published, or marked
    handed,    \* whose replies to it were handed to the bus, and whether the thread had answered by then
    out,       \* whether a reply to it is on the bus
    device,    \* whether the Gateway honours the tokens in the clerk's session file
    posts,     \* the forum posts, in order: whose, and whether still there
    gestures,  \* the reactions, oldest first, and how often each was answered
    lines,     \* the lines in `activite`
    reports,   \* what became of an approved reply, for `journal`: its message and its lines
    up, session,
    worker,    \* the suggestions consumer
    sweeper,   \* the posts the sweep read and has still to delete
    tick,      \* the decisions loop
    unseen,    \* history: suggestions the relay refused to show
    mishaps

approvals == <<rows, handed, out>>
world == <<undated, clock, bus, delivered, approvals, device>>
relay == <<posts, gestures, lines, reports>>
process == <<up, session, worker, sweeper, tick>>
clerkVars == <<world, relay, process, unseen, mishaps>>

Posts == 1 .. Len(posts)
Gestures == 1 .. Len(gestures)
Screen == MaxGestures + 1    \* an approval from the approval screen
Resting == [at |-> "idle"]
Quiet == [at |-> "idle", todo |-> {}, late |-> {}, seen |-> 0, post |-> 0, act |-> 0, answer |-> ""]

(* A budgeted mishap. *)
Mishap == mishaps < MaxMishaps /\ mishaps' = mishaps + 1
NoMishap == UNCHANGED mishaps

(* has_expired and post_has_expired: past an expiry that can be read. *)
Expired(s) == clock[s] = "over" /\ s \notin undated

Live == {p \in Posts : posts[p].live}

(* Mutant of AlreadyPosted: the posts read back are none of the clerk's. *)
PostedByAnother(s) == \E p \in Live : posts[p].of # s /\ posts[p].of \notin Suggestions

(* own_posts and already_posted: a reference line names the suggestion. *)
AlreadyPosted(s) == \E p \in Live : posts[p].of = s

Line(kind, s, by) == [kind |-> kind, of |-> s, by |-> by]

ClerkInit ==
    /\ undated \in SUBSET Suggestions
    /\ clock = [s \in Suggestions |-> "far"]
    /\ bus = [s \in Suggestions |-> "none"] /\ delivered = [s \in Suggestions |-> 0]
    /\ rows = [s \in Suggestions |-> "none"] /\ handed = [s \in Suggestions |-> {}]
    /\ out = [s \in Suggestions |-> FALSE] /\ device = TRUE
    /\ posts = <<>> /\ gestures = <<>> /\ lines = {}
    /\ reports = [s \in Suggestions |-> [bus |-> "none", times |-> 0, lines |-> 0]]
    /\ up = FALSE /\ session = "alive"
    /\ worker = Resting /\ sweeper = {} /\ tick = Quiet
    /\ unseen = {} /\ mishaps = 0

(***************************************************************************)
(* The process.                                                            *)
(***************************************************************************)
(* Gateway::refresh: a 401 is the session dead; an answer that is not one   *)
(* leaves it as it was.                                                     *)
Refreshed == session' = IF device THEN "alive" ELSE "dead"

(* The decisions loop starts with a refresh, which the Gateway may not answer. *)
Start ==
    /\ ~up /\ up' = TRUE
    /\ \/ Refreshed /\ NoMishap
       \/ UNCHANGED session /\ Mishap
    /\ UNCHANGED <<world, relay, worker, sweeper, tick, unseen>>

(* The bus redelivers what was in hand. *)
Killed ==
    /\ up /\ Mishap
    /\ up' = FALSE /\ session' = "alive"
    /\ worker' = Resting /\ sweeper' = {} /\ tick' = Quiet
    /\ bus' = [s \in Suggestions |-> IF bus[s] = "taken" THEN "waiting" ELSE bus[s]]
    /\ UNCHANGED <<undated, clock, delivered, approvals, device, relay, unseen>>

(* refresh_session between two ticks: daily, and every session_retry while  *)
(* the session is dead.                                                     *)
RefreshSession ==
    /\ up /\ tick.at = "idle"
    /\ Refreshed
    /\ UNCHANGED <<world, relay, up, worker, sweeper, tick, unseen, mishaps>>

(***************************************************************************)
(* The suggestions consumer: handle_suggestion and settle.                 *)
(***************************************************************************)
Deliver(s) ==
    /\ up /\ worker.at = "idle" /\ bus[s] = "waiting" /\ delivered[s] < MaxDeliver
    /\ bus' = [bus EXCEPT ![s] = "taken"]
    /\ delivered' = [delivered EXCEPT ![s] = @ + 1]
    /\ worker' = [at |-> "look", of |-> s]
    /\ UNCHANGED <<undated, clock, approvals, device, relay, up, session, sweeper, tick, unseen, mishaps>>

(* The message is done with; an ack the bus does not get means a redelivery *)
(* at the ack deadline, of which there are no more than MaxDeliver.         *)
Acked(s) ==
    /\ worker' = Resting
    /\ \/ bus' = [bus EXCEPT ![s] = "settled"] /\ NoMishap
       \/ bus' = [bus EXCEPT ![s] = IF delivered[s] < MaxDeliver THEN "waiting" ELSE "settled"]
          /\ Mishap

(* A relay failure: the message comes back, unless the bus has made its     *)
(* last delivery of it.                                                     *)
Naked(s) ==
    /\ worker' = Resting
    /\ bus' = [bus EXCEPT ![s] = IF delivered[s] < MaxDeliver THEN "waiting" ELSE "givenUp"]

(* An expired suggestion is skipped; one already posted too.  A relay that  *)
(* refuses the query ends it, one that does not answer brings it back.      *)
Look ==
    /\ worker.at = "look"
    /\ LET s == worker.of IN
       \/ /\ Expired(s) \/ AlreadyPosted(s)
          /\ Acked(s) /\ UNCHANGED unseen
       \/ /\ ~Expired(s) /\ ~AlreadyPosted(s)
          /\ worker' = [worker EXCEPT !.at = "read"]
          /\ NoMishap /\ UNCHANGED <<bus, unseen>>
       \/ /\ ~Expired(s) /\ Mishap
          /\ Naked(s) /\ UNCHANGED unseen
       \/ /\ ~Expired(s) /\ Mishap
          /\ worker' = Resting /\ bus' = [bus EXCEPT ![s] = "settled"]
          /\ unseen' = unseen \cup {s}
    /\ UNCHANGED <<undated, clock, delivered, approvals, device, relay, up, session, sweeper, tick>>

(* Mutant of ReadBeforePost: a Gateway that does not answer blocks the post. *)
ReadBlocksPost ==
    /\ worker.at = "read"
    /\ LET s == worker.of IN
       IF session = "alive" /\ device /\ rows[s] # "none"
       THEN Acked(s)
       ELSE \/ /\ worker' = [worker EXCEPT !.at = "post"]
               /\ NoMishap /\ UNCHANGED bus
            \/ /\ Mishap /\ worker' = Resting /\ bus' = [bus EXCEPT ![s] = "settled"]
    /\ UNCHANGED <<undated, clock, delivered, approvals, device, relay, up, session, sweeper, tick, unseen>>

(* read_before_post: a suggestion the Gateway has a record of is not posted, *)
(* whether it went out or not (standing); every other answer, and none, only *)
(* says what the post's delivery line reads.                                *)
ReadBeforePost ==
    /\ worker.at = "read"
    /\ LET s == worker.of IN
       \/ /\ session = "alive" /\ device /\ rows[s] # "none"
          /\ Acked(s) /\ UNCHANGED session
       \/ /\ session = "alive" /\ device => rows[s] = "none"
          /\ worker' = [worker EXCEPT !.at = "post"]
          /\ session' = IF device THEN session ELSE "dead"
          /\ NoMishap /\ UNCHANGED bus
       \/ /\ session = "alive" /\ Mishap
          /\ worker' = [worker EXCEPT !.at = "post"]
          /\ UNCHANGED <<session, bus>>
    /\ UNCHANGED <<undated, clock, delivered, approvals, device, relay, up, sweeper, tick, unseen>>

(* forum_post, then its line in `activite`, which is best effort: only what *)
(* the relay says of the post itself decides what becomes of the message.   *)
PostSuggestion ==
    /\ worker.at = "post"
    /\ LET s == worker.of
           Posted == posts' = Append(posts, [of |-> s, live |-> TRUE])
           Settled == worker' = Resting /\ bus' = [bus EXCEPT ![s] = "settled"]
       IN \/ /\ Posted /\ lines' = lines \cup {Line("produced", s, 0)}
             /\ Acked(s) /\ UNCHANGED unseen
          \/ /\ Posted /\ Mishap
             /\ Settled \/ Naked(s)
             /\ UNCHANGED <<lines, unseen>>
          \/ /\ Mishap /\ Naked(s)
             /\ UNCHANGED <<posts, lines, unseen>>
          \/ /\ Mishap /\ Settled
             /\ unseen' = unseen \cup {s} /\ UNCHANGED <<posts, lines>>
    /\ UNCHANGED <<undated, clock, delivered, approvals, device, gestures, reports, up, session, sweeper, tick>>

(* already_lined: the relay holds a line with the report's reference. *)
AlreadyLined(s) == reports[s].lines > 0

(* The journal consumer: one report, one line, or none if the relay holds it *)
(* already.  The line may be written and not heard of, or its ack lost.      *)
JournalLine(s) ==
    /\ up /\ reports[s].bus = "waiting"
    /\ LET times == reports[s].times + 1
           After(to, n) == reports' = [reports EXCEPT ![s] =
                               [bus |-> to, times |-> times, lines |-> @.lines + n]]
           written == IF AlreadyLined(s) THEN 0 ELSE 1
           back == IF times < MaxDeliver THEN "waiting" ELSE "givenUp"
       IN \/ After("settled", written) /\ NoMishap
          \/ \E n \in {0, written} : After(back, n) /\ Mishap
          \/ After("settled", 0) /\ Mishap
    /\ UNCHANGED <<world, posts, gestures, lines, process, unseen>>

(***************************************************************************)
(* The decisions loop: decisions_once and carry.                           *)
(***************************************************************************)
(* What one tick reads: the posts, those past their expiry by then, and the *)
(* gestures and thread answers so far.                                      *)
TickReads ==
    /\ up /\ tick.at = "idle" /\ Live # {} /\ gestures # <<>>
    /\ tick' = [Quiet EXCEPT !.at = "acting", !.todo = Live,
                             !.late = {p \in Live : Expired(posts[p].of)}, !.seen = Len(gestures)]
    /\ UNCHANGED <<world, relay, up, session, worker, sweeper, unseen, mishaps>>

(* One post is done with; the tick ends with the last. *)
PostDone(p) ==
    tick' = IF tick.todo = {p} THEN Quiet
            ELSE [tick EXCEPT !.at = "acting", !.todo = @ \ {p}, !.post = 0, !.act = 0, !.answer = ""]

(* Mutants of Unspent: the thread is not read back; an answer of any kind    *)
(* spends the gesture.                                                       *)
UnspentAll(p) == {g \in 1 .. tick.seen : gestures[g].on = p}
UnspentByAny(p) ==
    {g \in 1 .. tick.seen : gestures[g].on = p /\ gestures[g].spent + gestures[g].told = 0}

(* answered_gestures: the answer that the session was revoked spends nothing. *)
Unspent(p) == {g \in 1 .. tick.seen : gestures[g].on = p /\ gestures[g].spent = 0}

Strangers(p) == {g \in Unspent(p) : gestures[g].sort = "stranger"}

(* triage: the owner's oldest gesture not yet answered, 0 for none. *)
Oldest(p) ==
    LET owners == Unspent(p) \ Strangers(p) IN
    IF owners = {} THEN {0} ELSE {g \in owners : \A h \in owners : g <= h}

(* Answers in the thread: done, heard of or not, or not done, with a mishap. *)
Spend(answered) ==
    gestures' = [g \in Gestures |-> IF g \in answered
                                    THEN [gestures[g] EXCEPT !.spent = @ + 1] ELSE gestures[g]]
Tell(g) == gestures' = [gestures EXCEPT ![g].told = @ + 1]

(* One post of the tick: its strangers answered, then what its oldest       *)
(* gesture asks for begun.  A post past its expiry has an approval answered *)
(* as too late and a refusal left to the sweep; a dead session is told once *)
(* and asked nothing.                                                       *)
TakePost(p) ==
    /\ tick.at = "acting" /\ p \in tick.todo
    /\ \E act \in Oldest(p) :
       LET sort == IF act = 0 THEN "none" ELSE gestures[act].sort
           tooLate == p \in tick.late
           begun == [tick EXCEPT !.post = p, !.act = act]
       IN \/ /\ sort = "none" \/ (tooLate /\ sort = "refuse")
             /\ Spend(Strangers(p)) /\ NoMishap
             /\ PostDone(p)
          \/ /\ tooLate /\ sort = "approve"
             /\ Spend(Strangers(p) \cup {act}) /\ NoMishap
             /\ PostDone(p)
          \/ /\ Mishap /\ PostDone(p)
             /\ UNCHANGED gestures \/ (Strangers(p) # {} /\ Spend(Strangers(p)))
          \/ /\ ~tooLate /\ sort = "refuse"
             /\ Spend(Strangers(p)) /\ NoMishap
             /\ tick' = [begun EXCEPT !.at = "refusing"]
          \/ /\ ~tooLate /\ sort = "approve" /\ session = "alive"
             /\ Spend(Strangers(p)) /\ NoMishap
             /\ tick' = [begun EXCEPT !.at = "asking"]
          \/ /\ ~tooLate /\ sort = "approve" /\ session = "dead" /\ Strangers(p) # {}
             /\ Spend(Strangers(p)) /\ NoMishap /\ UNCHANGED tick
          \/ /\ ~tooLate /\ sort = "approve" /\ session = "dead" /\ Strangers(p) = {}
             /\ IF gestures[act].told = 0 THEN Tell(act) ELSE UNCHANGED gestures
             /\ NoMishap /\ PostDone(p)
    /\ UNCHANGED <<world, posts, lines, reports, up, session, worker, sweeper, unseen>>

(* The row, then the reply: it is handed to the bus whatever is heard of it. *)
Approves(s, by, to, arrived) ==
    /\ rows' = [rows EXCEPT ![s] = to]
    /\ handed' = [handed EXCEPT ![s] =
            @ \cup {[by |-> by, answered |-> by \in Gestures /\ gestures[by].spent > 0]}]
    /\ out' = [out EXCEPT ![s] = @ \/ arrived]

(* POST /api/approvals, at the Gateway (Approvals::approve): an expired       *)
(* suggestion is refused before anything is looked up, one with a marked row *)
(* is answered as already approved.  A reply goes out, marked or not (both   *)
(* are told as sent); or the bus is not heard (`bus_unreachable`, which the  *)
(* clerk treats as a silence).  A refusal for another reason, a store or a   *)
(* Gateway that is out are mishaps.                                          *)
GatewayDecides ==
    /\ tick.at = "asking"
    /\ LET s == posts[tick.post].of
           Says(what) == tick' = [tick EXCEPT !.at = "answered", !.answer = what]
       IN \/ /\ UNCHANGED approvals /\ NoMishap
             /\ \/ ~device /\ Says("401")
                \/ device /\ Expired(s) /\ Says("refused")
                \/ device /\ ~Expired(s) /\ rows[s] = "marked" /\ Says("already")
          \/ /\ device /\ ~Expired(s) /\ rows[s] # "marked"
             /\ \/ /\ Approves(s, tick.act, "marked", TRUE)
                   /\ \/ Says("approved") /\ NoMishap
                      \/ Says("silence") /\ Mishap
                \/ Approves(s, tick.act, "unmarked", TRUE) /\ Says("approved") /\ Mishap
                \/ Approves(s, tick.act, "unmarked", FALSE) /\ Says("silence") /\ Mishap
          \/ /\ UNCHANGED approvals /\ Mishap
             /\ \/ device /\ Says("refused")
                \/ Says("silence")
    /\ UNCHANGED <<undated, clock, bus, delivered, device, relay, up, session, worker, sweeper, unseen>>

(* defer: near the end the thread is told the gesture was not recorded, which *)
(* spends it; before that it is tried again next tick.                       *)
Deferred ==
    IF clock[posts[tick.post].of] = "far" \/ posts[tick.post].of \in undated
    THEN UNCHANGED gestures ELSE Spend({tick.act})

(* What the answer asks for.  A reply that went out, now or before, deletes  *)
(* the post; a refusal is explained in the thread; a 401 is the session dead, *)
(* told once and not spent.                                                  *)
Carry ==
    /\ tick.at = "answered"
    /\ \/ /\ tick.answer \in {"approved", "already"}
          /\ tick' = [tick EXCEPT !.at = "deleting"]
          /\ NoMishap /\ UNCHANGED <<gestures, session>>
       \/ /\ tick.answer = "refused"
          /\ Spend({tick.act}) /\ PostDone(tick.post)
          /\ NoMishap /\ UNCHANGED session
       \/ /\ tick.answer = "silence"
          /\ Deferred /\ PostDone(tick.post)
          /\ NoMishap /\ UNCHANGED session
       \/ /\ tick.answer = "401" /\ session' = "dead"
          /\ IF gestures[tick.act].told = 0 THEN Tell(tick.act) ELSE UNCHANGED gestures
          /\ NoMishap /\ PostDone(tick.post)
       \/ /\ tick.answer \in {"refused", "silence", "401"} /\ Mishap
          /\ session' = IF tick.answer = "401" THEN "dead" ELSE session
          /\ PostDone(tick.post) /\ UNCHANGED gestures
    /\ UNCHANGED <<world, posts, lines, reports, up, worker, sweeper, unseen>>

(* What the deletion of a decided post says in `activite`: nothing for an    *)
(* approval the Gateway already held, which may be another's.                *)
Told ==
    IF tick.answer = "already" THEN {}
    ELSE {Line(IF tick.at = "refusing" THEN "refused" ELSE "approved", posts[tick.post].of, tick.act)}

Delete(p) == posts' = [posts EXCEPT ![p].live = FALSE]

(* delete_post and went_out: the line follows the deletion the clerk heard of. *)
DeleteDecided ==
    /\ tick.at \in {"deleting", "refusing"}
    /\ \/ Delete(tick.post) /\ lines' = lines \cup Told /\ NoMishap
       \/ Delete(tick.post) /\ UNCHANGED lines /\ Mishap
       \/ UNCHANGED <<posts, lines>> /\ Mishap
    /\ PostDone(tick.post)
    /\ UNCHANGED <<world, gestures, reports, up, session, worker, sweeper, unseen>>

(***************************************************************************)
(* The sweep.                                                              *)
(***************************************************************************)
(* verdict: past its expiry, or undatable and past the ceiling. *)
Verdict(p) == clock[posts[p].of] = "over"

SweepReads ==
    /\ up /\ sweeper = {}
    /\ sweeper' = {p \in Live : Verdict(p)}
    /\ sweeper' # {}
    /\ UNCHANGED <<world, relay, up, session, worker, tick, unseen, mishaps>>

SweepDeletes(p) ==
    /\ p \in sweeper
    /\ sweeper' = sweeper \ {p}
    /\ \/ Delete(p) /\ lines' = lines \cup {Line("expired", posts[p].of, p)} /\ NoMishap
       \/ Delete(p) /\ UNCHANGED lines /\ Mishap
       \/ UNCHANGED <<posts, lines>> /\ Mishap
    /\ UNCHANGED <<world, gestures, reports, up, session, worker, tick, unseen>>

(***************************************************************************)
(* The world: the bus, the owner, the members, the approval screen, time.  *)
(***************************************************************************)
Propose(s) ==
    /\ bus[s] = "none" /\ clock[s] = "far"
    /\ bus' = [bus EXCEPT ![s] = "waiting"]
    /\ UNCHANGED <<undated, clock, delivered, approvals, device, relay, process, unseen, mishaps>>

Gesture(p, sort) ==
    /\ p \in Live /\ Len(gestures) < MaxGestures
    /\ gestures' = Append(gestures, [on |-> p, sort |-> sort, inTime |-> ~Expired(posts[p].of), spent |-> 0, told |-> 0])
    /\ UNCHANGED <<world, posts, lines, reports, process, unseen, mishaps>>

ScreenApproves(s) ==
    /\ bus[s] # "none" /\ rows[s] # "marked" /\ ~Expired(s) /\ Mishap
    /\ \/ Approves(s, Screen, "marked", TRUE)
       \/ Approves(s, Screen, "unmarked", FALSE)
    /\ UNCHANGED <<undated, clock, bus, delivered, device, relay, process, unseen>>

(* A publication nothing was heard of reaches the stream, then or later; the *)
(* bus keeps one reply of a suggestion (its id is the suggestion's).         *)
LateReply(s) ==
    /\ handed[s] # {} /\ ~out[s]
    /\ out' = [out EXCEPT ![s] = TRUE]
    /\ UNCHANGED <<undated, clock, bus, delivered, rows, handed, device, relay, process, unseen, mishaps>>

(* A sender says what became of an approved reply (.posted or .dead). *)
Report(s) ==
    /\ out[s] /\ reports[s].bus = "none"
    /\ reports' = [reports EXCEPT ![s].bus = "waiting"]
    /\ UNCHANGED <<world, posts, gestures, lines, process, unseen, mishaps>>

(* The device is revoked, or a rotated pair never reaches the session file *)
(* (Gateway::refresh); provision-clerk-device.sh writes one that is good.  *)
DeviceRevoked ==
    /\ device /\ Mishap /\ device' = FALSE
    /\ UNCHANGED <<undated, clock, bus, delivered, approvals, relay, process, unseen>>
Provision ==
    /\ ~device /\ device' = TRUE
    /\ UNCHANGED <<undated, clock, bus, delivered, approvals, relay, process, unseen, mishaps>>

Age(s) ==
    /\ bus[s] # "none" /\ clock[s] # "over"
    /\ clock' = [clock EXCEPT ![s] = IF @ = "far" THEN "near" ELSE "over"]
    /\ UNCHANGED <<undated, bus, delivered, approvals, device, relay, process, unseen, mishaps>>

WorkerStep ==
    \/ \E s \in Suggestions : Deliver(s)
    \/ Look \/ ReadBeforePost \/ PostSuggestion
TickStep ==
    \/ TickReads \/ (\E p \in Posts : TakePost(p))
    \/ GatewayDecides \/ Carry \/ DeleteDecided
SweepStep == SweepReads \/ \E p \in Posts : SweepDeletes(p)
World ==
    \/ \E s \in Suggestions : Propose(s) \/ ScreenApproves(s) \/ LateReply(s) \/ Report(s) \/ Age(s)
    \/ \E p \in Posts, sort \in {"approve", "refuse", "stranger"} : Gesture(p, sort)
    \/ DeviceRevoked \/ Provision

JournalStep == \E s \in Suggestions : JournalLine(s)

ClerkNext ==
    \/ Start \/ Killed \/ RefreshSession
    \/ WorkerStep \/ JournalStep \/ TickStep \/ SweepStep \/ World

ClerkSpec == ClerkInit /\ [][ClerkNext]_clerkVars

(* The container is restarted; the tasks go on.  RefreshSession is looked at *)
(* between any two ticks, so it is not passed over for ever once it is due.  *)
FairClerkSpec ==
    /\ ClerkSpec
    /\ WF_clerkVars(Start) /\ WF_clerkVars(WorkerStep) /\ WF_clerkVars(TickStep) /\ WF_clerkVars(SweepStep)
    /\ SF_clerkVars(RefreshSession)

(***************************************************************************)
(* Properties.                                                             *)
(***************************************************************************)
GestureRows ==
    [on : Nat, sort : {"approve", "refuse", "stranger"}, inTime : BOOLEAN,
     spent : 0 .. 1, told : 0 .. 1]

WorldOK ==
    /\ undated \subseteq Suggestions
    /\ clock \in [Suggestions -> {"far", "near", "over"}]
    /\ bus \in [Suggestions -> {"none", "waiting", "taken", "settled", "givenUp"}]
    /\ delivered \in [Suggestions -> 0 .. MaxDeliver]
    /\ rows \in [Suggestions -> {"none", "unmarked", "marked"}]
    /\ handed \in [Suggestions -> SUBSET [by : Gestures \cup {Screen}, answered : BOOLEAN]]
    /\ out \in [Suggestions -> BOOLEAN]
    /\ device \in BOOLEAN

RelayOK ==
    /\ posts \in Seq([of : Suggestions, live : BOOLEAN])
    /\ gestures \in Seq(GestureRows) /\ Len(gestures) <= MaxGestures
    /\ \A g \in Gestures : gestures[g].on \in Posts
    /\ \A line \in lines : line.kind = "refused" => line.by \in Gestures
    /\ reports \in [Suggestions -> [bus : {"none", "waiting", "settled", "givenUp"},
                                   times : Nat, lines : 0 .. 1]]

ProcessOK ==
    /\ up \in BOOLEAN /\ session \in {"alive", "dead"}
    /\ worker \in {Resting} \cup [at : {"look", "read", "post"}, of : Suggestions]
    /\ sweeper \subseteq Posts
    /\ tick \in [at : {"idle", "acting", "asking", "answered", "deleting", "refusing"},
                 todo : SUBSET Posts, late : SUBSET Posts, seen : 0 .. Len(gestures),
                 post : {0} \cup Posts, act : {0} \cup Gestures,
                 answer : {"", "approved", "already", "refused", "silence", "401"}]

(* Every variable is in its range: no gesture is answered twice. *)
ClerkTypeOK ==
    /\ WorldOK /\ RelayOK /\ ProcessOK
    /\ unseen \subseteq Suggestions /\ mishaps \in 0 .. MaxMishaps

(* However often the bus redelivers, a suggestion is asked about in one      *)
(* place, and what became of a reply is journalled once: the clerk never has *)
(* two posts of a suggestion up, nor two lines of a report (handle_suggestion, *)
(* journal_line), though it remembers nothing and an answer may be lost.     *)
NothingTwice ==
    /\ \A p, q \in Live : posts[p].of = posts[q].of => p = q
    /\ \A s \in Suggestions : reports[s].lines <= 1

HandedBy(s) == {h.by : h \in handed[s]}

(* Whose act a reply handed to the bus or a local refusal was. *)
Acted ==
    {g \in Gestures : g \in HandedBy(posts[gestures[g].on].of)}
        \cup {line.by : line \in {l \in lines : l.kind = "refused"}}

(* What is done is the owner's first word on the post (triage): never a      *)
(* stranger's, and never a gesture made after one the thread has not         *)
(* answered, whatever failed or was read late in between.                    *)
OldestWins ==
    \A g \in Acted :
        /\ gestures[g].sort # "stranger"
        /\ \A h \in 1 .. g - 1 :
              gestures[h].on = gestures[g].on /\ gestures[h].sort # "stranger"
                  => gestures[h].spent = 1

(* What is done is the first word (OldestWins), and a gesture answered in    *)
(* the thread is over: no reply is handed to the bus, for the first time or  *)
(* again, on one the owner was told had come to nothing (answered_gestures). *)
AnsweredIsFinal ==
    /\ OldestWins
    /\ \A s \in Suggestions : \A h \in handed[s] : ~h.answered

(* What the thread says is so: the owner is not told that a gesture came to  *)
(* nothing whose reply is on the bus, since "telling the owner their reply   *)
(* failed when it did not is how a message gets sent twice" (refusals.rs).   *)
ToldIsTrue ==
    \A g \in Gestures :
        LET s == posts[gestures[g].on].of IN
        ~(gestures[g].spent = 1 /\ HandedBy(s) = {g} /\ out[s])

(* A suggestion the clerk is done with was shown, or could not be: it had    *)
(* expired, the Gateway had a record of its approval, or the relay refused   *)
(* it.  The Gateway's silence is no reason (read_before_post).               *)
SettledWasShown ==
    \A s \in Suggestions :
        bus[s] = "settled" =>
            \/ \E p \in Posts : posts[p].of = s
            \/ clock[s] = "over" \/ rows[s] # "none" \/ s \in unseen

(* What is not posted because it was approved is "a decision already made"   *)
(* (BeforePost): its reply is on the bus.                                    *)
SettledIsDecided ==
    \A s \in Suggestions :
        bus[s] = "settled" =>
            \/ \E p \in Posts : posts[p].of = s
            \/ clock[s] = "over" \/ out[s] \/ s \in unseen

(* The owner's decision waits on a post, with a device the Gateway honours. *)
Owed(g) ==
    /\ g \in Gestures /\ gestures[g].sort # "stranger" /\ gestures[g].spent = 0
    /\ posts[gestures[g].on].live /\ device

(* No decision is left lying: it is carried, or answered, or its post goes;  *)
(* a session that was dead when it was first read spends nothing.  And what  *)
(* cannot be decided any more goes: a post past its expiry, or past the      *)
(* ceiling when it has none (sweep_once).                                    *)
GesturesSettle ==
    /\ \A g \in 1 .. MaxGestures : Owed(g) ~> ~Owed(g)
    /\ \A s \in Suggestions : clock[s] = "over" ~> ~AlreadyPosted(s)

(* A decision made in a suggestion's last seconds is answered rather than    *)
(* swept in silence (decisions_once, thread_expired): when a post has gone   *)
(* as expired, undecided, no approval made in time is left without a word.   *)
NotSweptInSilence ==
    \A g \in Gestures :
        LET p == gestures[g].on IN
        ~(/\ gestures[g].sort = "approve" /\ gestures[g].inTime
          /\ gestures[g].spent + gestures[g].told = 0
          /\ Line("expired", posts[p].of, p) \in lines
          /\ handed[posts[p].of] = {} /\ tick.at = "idle")
=============================================================================
