--------------------------------- MODULE Hermes ---------------------------------
(***************************************************************************)
(* The runtime that hosts one persona (hermes/src/main.rs, activation.rs,  *)
(* supervisor.rs).  It reads whether the persona is active off the         *)
(* Gateway's snapshot and then off the stream, and moves the persona's     *)
(* durable consumer accordingly; beside that, and blind to it, a           *)
(* supervisor keeps the persona's process running once there is a model to *)
(* run it with.                                                            *)
(*                                                                         *)
(* Decisions are on the stream in the order the owner took them            *)
(* (ConsentPipeline proves it).  A decision is taken on a connection and   *)
(* read by its network, of which a deployment may have two connections.    *)
(***************************************************************************)
EXTENDS Naturals, Sequences, FiniteSets

CONSTANTS
    Connections, Networks,
    NetworkOf,       \* the network a connection is one of
    Base, Cap,       \* base_backoff and max_backoff
    StartFailures,   \* start_failures: short runs before the persona has failed
    MaxDecisions,    \* bound: decisions taken
    MaxFailures,     \* bound: short runs in a row
    MaxFaults        \* bound: crashes, calls that fail, subscriptions that end

ASSUME HermesAssumption ==
    /\ NetworkOf \in [Connections -> Networks]
    /\ {Base, Cap, StartFailures} \subseteq Nat \ {0} /\ Base <= Cap
    /\ {MaxDecisions, MaxFailures, MaxFaults} \subseteq Nat

VARIABLES
    decisions,     \* the stream's persona decisions, the ones it has forgotten included
    oldest,        \* the first the stream still holds
    positioned,    \* how many the Gateway's journal has a position for
    filter,        \* the persona's durable consumer: what it is filtered to
    model,         \* the Gateway names a model
    phase,         \* the runtime
    next,          \* the stream sequence it reads next
    states,        \* Activation: the last decision applied, per network
    since,         \* history: the first decision the activation goes back to
    stale,         \* history: a move of the consumer failed since it last succeeded
    resolved,      \* the settings were handed to the supervisor
    proc,          \* the persona's process
    failures, announced, delay,    \* Restarts, and the delay it last asked for
    announcements, \* history: "failed to start" errors in this episode
    faults

stream == <<decisions, oldest, positioned>>
reading == <<phase, next, states, since>>
consumer == <<filter, stale>>
process == <<resolved, proc, failures, announced, delay, announcements>>
vars == <<stream, model, reading, consumer, process, faults>>

Mishap == faults < MaxFaults /\ faults' = faults + 1
NoMishap == UNCHANGED faults
Undecided == [n \in Networks |-> "none"]

Init ==
    /\ decisions = <<>> /\ oldest = 1 /\ positioned = 0
    /\ filter = "none" /\ stale = FALSE
    /\ model = FALSE
    /\ phase = "off" /\ next = 1 /\ states = Undecided /\ since = 1
    /\ resolved = FALSE /\ proc = "none"
    /\ failures = 0 /\ announced = FALSE /\ delay = 0 /\ announcements = 0
    /\ faults = 0

(***************************************************************************)
(* Activation.                                                             *)
(***************************************************************************)
(* Activation::apply: last writer wins, per network. *)
Apply(d, s) == [s EXCEPT ![NetworkOf[d.on]] = d.state]

(* Activation::is_active: granted on a network at least. *)
IsActive(s) == \E n \in Networks : s[n] = "granted"

(* The last of the decisions a set of indices holds, 0 if none. *)
Last(indices) ==
    IF indices = {} THEN 0 ELSE CHOOSE i \in indices : \A j \in indices : j <= i

(* The snapshot's entries: each connection's last decision with a position. *)
Entries == {Last({i \in 1 .. positioned : decisions[i].on = c}) : c \in Connections} \ {0}

(* Mutant of ReadSnapshot: the document's order, which is by connection. *)
ReadInDocumentOrder ==
    [n \in Networks |->
        LET first == {i \in Entries : NetworkOf[decisions[i].on] = n}
        IN IF first = {} THEN "none" ELSE decisions[CHOOSE i \in first : \A j \in first : i <= j].state]

(* Snapshot::read and read_activation_snapshot: the entries applied in the  *)
(* order they were decided, so a network's state is its latest entry's.     *)
ReadSnapshot ==
    [n \in Networks |->
        LET i == Last({j \in Entries : NetworkOf[decisions[j].on] = n})
        IN IF i = 0 THEN "none" ELSE decisions[i].state]

(* next_stream_sequence, as the Gateway spells it out. *)
FollowFrom == positioned + 1

(* The process starts: the settings and the snapshot are read, each of which *)
(* may fail, and the consent consumer is created.  With no snapshot the      *)
(* stream is replayed from what is left of it.                               *)
Boot ==
    /\ phase = "off" /\ phase' = "replaying"
    /\ \/ /\ states' = ReadSnapshot /\ next' = FollowFrom /\ since' = 1
          /\ resolved' = model /\ NoMishap
       \/ /\ states' = ReadSnapshot /\ next' = FollowFrom /\ since' = 1
          /\ resolved' = FALSE /\ Mishap
       \/ /\ states' = Undecided /\ next' = oldest /\ since' = oldest
          /\ resolved' = model /\ Mishap
    /\ UNCHANGED <<stream, model, consumer, proc, failures, announced, delay, announcements>>

(* replay_activation: to the end of the stream, as an empty fetch says. *)
Replay ==
    /\ phase = "replaying"
    /\ IF next <= Len(decisions)
       THEN /\ states' = Apply(decisions[next], states)
            /\ next' = next + 1 /\ UNCHANGED phase
       ELSE /\ phase' = "ready" /\ UNCHANGED <<states, next>>
    /\ UNCHANGED <<stream, model, since, consumer, process, faults>>

(* ensure_persona_consumer: the durable is created or moved, or is left. *)
Moved(active) == filter' = (IF active THEN "active" ELSE "paused") /\ stale' = FALSE

(* Mutant of Ready: the follower is started behind the supervisors' wait.   *)
ReadyWithSettings ==
    /\ phase = "ready" /\ resolved
    /\ Moved(IsActive(states)) /\ NoMishap
    /\ phase' = "following" /\ proc' = "waiting"
    /\ UNCHANGED <<stream, model, next, states, since, resolved, failures, announced, delay, announcements>>

(* The consumer is set before the persona is started; a bus that refuses    *)
(* ends the process.                                                        *)
Ready ==
    /\ phase = "ready"
    /\ \/ /\ Moved(IsActive(states)) /\ NoMishap
          /\ phase' = "following" /\ proc' = "waiting"
       \/ /\ Mishap /\ phase' = "off"
          /\ UNCHANGED <<consumer, proc>>
    /\ UNCHANGED <<stream, model, next, states, since, resolved, failures, announced, delay, announcements>>

(* follow_activation: a decision is applied, then the consumer moved; a move *)
(* that fails is logged and not made again.                                  *)
Follow ==
    /\ phase = "following" /\ next <= Len(decisions)
    /\ states' = Apply(decisions[next], states)
    /\ next' = next + 1
    /\ \/ Moved(IsActive(states')) /\ NoMishap
       \/ Mishap /\ stale' = TRUE /\ UNCHANGED filter
    /\ UNCHANGED <<stream, model, phase, since, process>>

(* The subscription ends or errs: activation is frozen, the process goes on. *)
SubscriptionEnds ==
    /\ phase = "following" /\ Mishap
    /\ phase' = "frozen"
    /\ UNCHANGED <<stream, model, next, states, since, consumer, process>>

(***************************************************************************)
(* The supervisor.                                                         *)
(***************************************************************************)
(* Mutant of RetrySettings: asked by the task that follows activation. *)
RetryWhileFollowing ==
    /\ phase = "following" /\ ~resolved /\ model
    /\ resolved' = TRUE
    /\ UNCHANGED <<stream, model, reading, consumer, proc, failures, announced, delay, announcements, faults>>

(* retry_settings: the Gateway is asked until it names a model. *)
RetrySettings ==
    /\ phase \in {"following", "frozen"} /\ ~resolved /\ model
    /\ resolved' = TRUE
    /\ UNCHANGED <<stream, model, reading, consumer, proc, failures, announced, delay, announcements, faults>>

(* Mutant of DelayFor: the shift wraps round, as an unguarded one would. *)
DelayWraps(n) == Base * 2 ^ ((n - 1) % 3)

(* delay_for: doubled for each failure, and capped. *)
DelayFor(n) == IF Base * 2 ^ (n - 1) <= Cap THEN Base * 2 ^ (n - 1) ELSE Cap

(* record_run of a run that did not stay up, or could not be spawned: the    *)
(* run that reaches start_failures is announced, and no other.               *)
ShortRun ==
    /\ failures < MaxFailures
    /\ failures' = failures + 1 /\ delay' = DelayFor(failures + 1)
    /\ LET announce == ~announced /\ failures + 1 >= StartFailures IN
       /\ announced' = (announced \/ announce)
       /\ announcements' = announcements + (IF announce THEN 1 ELSE 0)

(* record_run of a run that stayed up: the episode is over. *)
HealthyRun ==
    /\ failures' = 0 /\ announced' = FALSE /\ delay' = Base
    /\ announcements' = 0

(* supervise: the process is spawned once there are settings, or after the   *)
(* backoff; an image or a command that is not there is a run of no duration. *)
Spawn ==
    /\ phase \in {"following", "frozen"}
    /\ proc = "backoff" \/ (proc = "waiting" /\ resolved)
    /\ \/ /\ proc' = "running" /\ UNCHANGED <<failures, announced, delay, announcements>>
       \/ /\ proc' = "backoff" /\ ShortRun
    /\ UNCHANGED <<stream, model, reading, consumer, resolved, faults>>

(* The process exits, soon or after having stayed up. *)
Exits ==
    /\ proc = "running" /\ proc' = "backoff"
    /\ ShortRun \/ HealthyRun
    /\ UNCHANGED <<stream, model, reading, consumer, resolved, faults>>

(* The runtime dies or is stopped, and the persona with it (kill_on_drop). *)
Crash ==
    /\ phase # "off" /\ Mishap
    /\ phase' = "off" /\ proc' = "none" /\ resolved' = FALSE
    /\ failures' = 0 /\ announced' = FALSE /\ delay' = 0 /\ announcements' = 0
    /\ UNCHANGED <<stream, model, next, states, since, consumer>>

(***************************************************************************)
(* The Gateway and the stream.                                             *)
(***************************************************************************)
Decide ==
    /\ Len(decisions) < MaxDecisions
    /\ \E c \in Connections, s \in {"granted", "revoked"} :
          decisions' = Append(decisions, [on |-> c, state |-> s])
    /\ UNCHANGED <<oldest, positioned, model, reading, consumer, process, faults>>

(* mark_published: the journal learns where its next decision is. *)
Position ==
    /\ positioned < Len(decisions) /\ positioned' = positioned + 1
    /\ UNCHANGED <<decisions, oldest, model, reading, consumer, process, faults>>

(* The stream keeps ninety days (ADR 0037). *)
Forget ==
    /\ oldest <= positioned /\ phase # "replaying" /\ next > oldest /\ Mishap
    /\ oldest' = oldest + 1
    /\ UNCHANGED <<decisions, positioned, model, reading, consumer, process>>

NameModel ==
    /\ ~model /\ model' = TRUE
    /\ UNCHANGED <<stream, reading, consumer, process, faults>>

Next ==
    \/ Boot \/ Replay \/ Ready \/ Follow \/ SubscriptionEnds
    \/ RetrySettings \/ Spawn \/ Exits \/ Crash
    \/ Decide \/ Position \/ Forget \/ NameModel

Spec == Init /\ [][Next]_vars

(* The container is restarted, the tasks go on, and an image an operator has *)
(* fixed does start: Spawn's first outcome is not for ever missed.           *)
FairSpec ==
    /\ Spec
    /\ WF_vars(Boot) /\ WF_vars(Replay) /\ WF_vars(Ready) /\ WF_vars(Follow)
    /\ WF_vars(RetrySettings) /\ WF_vars(Spawn)
    /\ SF_vars(Spawn /\ proc' = "running")

(***************************************************************************)
(* Properties.                                                             *)
(***************************************************************************)
StreamOK ==
    /\ decisions \in Seq([on : Connections, state : {"granted", "revoked"}])
    /\ Len(decisions) <= MaxDecisions
    /\ positioned \in 0 .. Len(decisions) /\ oldest \in 1 .. positioned + 1
    /\ faults \in 0 .. MaxFaults

ReadingOK ==
    /\ phase \in {"off", "replaying", "ready", "following", "frozen"}
    /\ next \in 1 .. Len(decisions) + 1 /\ since \in 1 .. next
    /\ states \in [Networks -> {"none", "granted", "revoked"}]
    /\ filter \in {"none", "active", "paused"}

ProcessOK ==
    /\ proc \in {"none", "waiting", "running", "backoff"}
    /\ failures \in 0 .. MaxFailures /\ announcements \in 0 .. 1
    /\ failures > 0 => delay = DelayFor(failures)

FlagsOK == {model, stale, resolved, announced} \subseteq BOOLEAN

(* Every variable is in its range. *)
TypeOK == StreamOK /\ ReadingOK /\ ProcessOK /\ FlagsOK

(* The owner's words on a network, of the decisions from a to b; the last. *)
Words(n, a, b) == {i \in a .. b : NetworkOf[decisions[i].on] = n}
LastWord(n, a, b) == Last(Words(n, a, b))
ActiveBy(a, b) == \E n \in Networks : LastWord(n, a, b) # 0 /\ decisions[LastWord(n, a, b)].state = "granted"

(* The persona is handed messages exactly when the last word on one of its   *)
(* networks, of the decisions read so far, is a grant.  The snapshot and the *)
(* stream after it give what the whole stream would: no decision is applied  *)
(* twice, skipped, or out of order (Snapshot::read, ReadFrom::follow_from).  *)
ByTheLastWord ==
    phase = "following" /\ ~stale => (filter = "active") = ActiveBy(since, next - 1)

(* A decision takes: whatever restarts on the way, the runtime reads it and  *)
(* moves the consumer, unless its subscription ended or the move failed.     *)
DecisionsTake ==
    \A n \in 1 .. MaxDecisions :
        (Len(decisions) >= n) ~> ((next > n /\ phase = "following") \/ phase = "frozen")

(* An episode of short runs is announced once, by the run that makes it one: *)
(* never before start_failures in a row, never again until a run stayed up   *)
(* (record_run).                                                             *)
AnnouncedOnce == announcements = (IF failures >= StartFailures THEN 1 ELSE 0)

(* Through an episode, announced once, the delay grows to the cap, whatever  *)
(* the count, and never comes back to an instant retry (delay_for).          *)
OneEpisode ==
    [][AnnouncedOnce' /\ (failures' > failures /\ failures > 0 => delay' >= delay)]_vars

(* Hosting starts and goes on: once the Gateway names a model a persona      *)
(* runs, however often it fell, without the runtime being restarted.         *)
PersonaRuns == model ~> (proc = "running")

(* What follow_activation says of a subscription that ended: the personas    *)
(* keep the activation they have, "which is the safe direction".             *)
FrozenIsSafe == phase = "frozen" /\ filter = "active" => ActiveBy(since, Len(decisions))
=============================================================================
