------------------------------ MODULE Collector ------------------------------
(***************************************************************************)
(* The Collector's rounds: the grant kept fresh, the services asked whose  *)
(* it is, each connection's state said on the bus, and the mailbox and the *)
(* calendars read (collector/src/main.rs, oidc.rs, status.rs), beside the  *)
(* operator's `authorize` over the same grant file.                        *)
(*                                                                         *)
(* A grant is <<sign-in, n>>: the SSO honours the latest n it issued of a  *)
(* sign-in and rotates it at each renewal.  A round runs against the SSO   *)
(* and two services that come and go, and the process may die anywhere.    *)
(* What a poll reads of a mailbox is module Mailbox.                       *)
(***************************************************************************)
EXTENDS Naturals, FiniteSets

CONSTANTS
    MaxSignIns,  \* bound: authorizations
    MaxGrants,   \* bound: grants the SSO issues of one sign-in
    MaxFaults    \* bound: turns of the SSO, of a service and of a token; crashes; losses, the bus's too

ASSUME CollectorAssumption ==
    {MaxSignIns, MaxFaults} \subseteq Nat /\ MaxGrants \in Nat \ {0}

VARIABLES
    issued,    \* sign-ins: the latest grant issued, not revoked or expired, the owner's
    signIns,   \* how many sign-ins there were
    sso, svc,  \* what the SSO and each service would answer now
    disk,      \* the grant file
    op,        \* the operator's authorize run
    at,        \* where the round is
    mem,       \* `grant`
    token,     \* `access`: the sign-in it is of, and its life
    refusal,   \* `sso_refusal`
    renewed,   \* `renewed_this_round`
    answer,    \* the renewal in flight, and what became of it
    ids,       \* `identities`
    obs,       \* `observation`
    last,      \* each tracker's last
    said,      \* what the bus last took of each connection's state
    faults,
    lost,      \* history: the connections of which the bus did not take the last change
    word,      \* history: what the SSO last answered this process
    stranded,  \* history: sign-ins of which a rotated grant was lost on its way
    strangers  \* history: the connections a stranger's words were published from

bus == <<said, lost>>
world == <<issued, signIns, sso, svc, bus>>
process == <<at, mem, token, refusal, renewed, answer, ids, obs, last>>
history == <<stranded, strangers, word>>
vars == <<world, disk, op, process, faults, history>>

SignIns == 1 .. MaxSignIns
NoGrant == <<0, 0>>
Grants == {NoGrant} \cup (SignIns \X (1 .. MaxGrants))
Services == {"jmap", "caldav"}
Kind == [s \in Services |-> IF s = "jmap" THEN "email" ELSE "calendar"]
Kinds == {"email", "calendar"}
States == {"connected", "reconnect_required", "pending_operator", "unreachable"}
Observations == [state : States, service : Services \cup {"sso", "none"}]
Connected == [state |-> "connected", service |-> "none"]
Refused(state) == [state |-> state, service |-> "sso"]
NoToken == [of |-> 0, life |-> "none"]
Unasked == [s \in Services |-> "down"]
NoAnswer == [to |-> NoGrant, what |-> "none"]
Positions == {"off", "renew", "renewing", "ask", "again", "askAgain", "report", "poll", "idle"}

(* The grant the SSO would renew. *)
Honoured(g) == g # NoGrant /\ issued[g[1]].good /\ g[2] = issued[g[1]].n

Init ==
    /\ issued = [f \in SignIns |-> [n |-> 0, good |-> FALSE, mine |-> FALSE]] /\ signIns = 0
    /\ sso = "up" /\ svc = [s \in Services |-> "ok"]
    /\ disk = NoGrant /\ op = NoGrant
    /\ at = "off" /\ mem = NoGrant /\ token = NoToken
    /\ refusal = Refused("reconnect_required") /\ renewed = FALSE
    /\ answer = NoAnswer /\ ids = Unasked /\ obs = Connected
    /\ last = [k \in Kinds |-> "unknown"] /\ said = last /\ lost = {}
    /\ faults = 0 /\ stranded = {} /\ strangers = {} /\ word = "none"

(***************************************************************************)
(* The process starts with the file's grant and nothing else.              *)
(***************************************************************************)
Start ==
    /\ at = "off"
    /\ at' = "renew" /\ mem' = disk
    /\ UNCHANGED <<world, disk, op, token, refusal, renewed, answer, ids, obs, last, faults, history>>

(* Killed, or restarted by the operator: a rotated grant it had not written *)
(* is lost.                                                                 *)
Crash ==
    /\ at # "off" /\ faults < MaxFaults
    /\ faults' = faults + 1
    /\ at' = "off"
    /\ mem' = NoGrant /\ token' = NoToken /\ answer' = NoAnswer
    /\ refusal' = Refused("reconnect_required") /\ renewed' = FALSE
    /\ ids' = Unasked /\ obs' = Connected /\ last' = [k \in Kinds |-> "unknown"]
    /\ stranded' = IF answer.what = "ok" THEN stranded \cup {answer.to[1]} ELSE stranded
    /\ lost' = {} /\ word' = "none"
    /\ UNCHANGED <<issued, signIns, sso, svc, said, disk, op, strangers>>

(***************************************************************************)
(* A round.                                                                *)
(***************************************************************************)
(* No grant is a state of its own; a token short of RENEWAL_MARGIN is       *)
(* renewed before it is used.                                               *)
Round ==
    /\ at = "renew"
    /\ renewed' = FALSE
    /\ \/ /\ mem = NoGrant
          /\ obs' = Refused("reconnect_required") /\ at' = "report"
          /\ UNCHANGED answer
       \/ /\ mem # NoGrant /\ token.life # "fresh"
          /\ answer' = [to |-> mem, what |-> "sent"] /\ at' = "renewing"
          /\ UNCHANGED obs
       \/ /\ mem # NoGrant /\ token.life = "fresh"
          /\ at' = "ask"
          /\ UNCHANGED <<answer, obs>>
    /\ UNCHANGED <<world, disk, op, mem, token, refusal, ids, last, faults, history>>

(* The SSO's token endpoint: a grant it honours is rotated away.  A refusal   *)
(* may be for the grant, for the client, or of a code this process does not   *)
(* know, which says nothing of either.                                        *)
SsoRenews ==
    /\ answer.what = "sent"
    /\ LET f == answer.to[1] IN
       \/ /\ sso = "up" /\ Honoured(answer.to) /\ answer.to[2] < MaxGrants
          /\ issued' = [issued EXCEPT ![f].n = @ + 1]
          /\ answer' = [to |-> <<f, answer.to[2] + 1>>, what |-> "ok"]
       \/ /\ sso = "up" /\ ~Honoured(answer.to)
          /\ answer' = [answer EXCEPT !.what = "invalid"]
          /\ UNCHANGED issued
       \/ /\ sso = "refuses"
          /\ \E what \in {"client", "odd"} : answer' = [answer EXCEPT !.what = what]
          /\ UNCHANGED issued
       \/ /\ sso = "down" \/ answer.to[2] = MaxGrants
          /\ answer' = [answer EXCEPT !.what = "silent"]
          /\ UNCHANGED issued
    /\ UNCHANGED <<signIns, sso, svc, bus, disk, op, at, mem, token, refusal, renewed, ids, obs,
                   last, faults, history>>

(* The answer does not arrive: the process reads an SSO that is silent. *)
RenewalLost ==
    /\ answer.what \in {"sent", "ok"} /\ faults < MaxFaults
    /\ faults' = faults + 1
    /\ answer' = [answer EXCEPT !.what = "silent"]
    /\ stranded' = IF answer.what = "ok" THEN stranded \cup {answer.to[1]} ELSE stranded
    /\ UNCHANGED <<world, disk, op, at, mem, token, refusal, renewed, ids, obs, last, strangers, word>>

(* Mutant of Kept: the rotated grant stays in memory. *)
KeptInMemory == mem' = answer.to /\ UNCHANGED disk

(* The rotated grant, on disk before it is used. *)
Kept == disk' = answer.to /\ mem' = answer.to

(* Mutant of Renewed: a silent SSO is read as a refusal. *)
SilenceIsRefusal(next, kept) ==
    \/ /\ answer.what = "ok" /\ Kept
       /\ token' = [of |-> answer.to[1], life |-> "fresh"]
       /\ at' = next /\ UNCHANGED <<refusal, obs>>
    \/ /\ answer.what # "ok"
       /\ token' = NoToken /\ refusal' = Refused("reconnect_required")
       /\ obs' = refusal' /\ at' = "report"
       /\ UNCHANGED <<disk, mem>>

(* What a renewal came to.  An unknown code is read as the grant's; a        *)
(* silence is no refusal: the token in hand, if there is one, goes on being  *)
(* used.                                                                     *)
Renewed(next, kept) ==
    \/ /\ answer.what = "ok"
       /\ Kept
       /\ token' = [of |-> answer.to[1], life |-> "fresh"]
       /\ refusal' = IF at = "renewing" THEN Refused("reconnect_required") ELSE refusal
       /\ at' = next
       /\ UNCHANGED obs
    \/ /\ answer.what \in {"invalid", "odd", "client"}
       /\ token' = NoToken
       /\ refusal' = Refused(IF answer.what = "client" THEN "pending_operator"
                             ELSE "reconnect_required")
       /\ obs' = refusal' /\ at' = "report"
       /\ UNCHANGED <<disk, mem>>
    \/ /\ answer.what = "silent" /\ token = NoToken
       /\ obs' = Refused("unreachable") /\ at' = "report"
       /\ UNCHANGED <<disk, mem, token, refusal>>
    \/ /\ answer.what = "silent" /\ token # NoToken
       /\ kept
       /\ UNCHANGED <<disk, mem, token, refusal>>

(* What the SSO last said to this process. *)
Heard == word' = IF answer.what = "silent" THEN word ELSE answer.what

(* The renewal a round begins with. *)
RenewFirst ==
    /\ at = "renewing" /\ answer.what # "sent"
    /\ Renewed("ask", at' = "ask" /\ UNCHANGED obs)
    /\ renewed' = (answer.what = "ok")
    /\ answer' = NoAnswer /\ Heard
    /\ UNCHANGED <<world, op, ids, last, faults, stranded, strangers>>

(* Services::whoami: each service, asked in turn, answers the token it is   *)
(* shown: whose it is, a 401, a 403, or nothing.                            *)
Whoami(t) ==
    [s \in Services |->
        CASE svc[s] = "down" -> "down"
          [] svc[s] = "wants" -> "403"
          [] svc[s] = "ok" /\ t.life # "over" /\ issued[t.of].good ->
                 IF issued[t.of].mine THEN "mine" ELSE "stranger"
          [] OTHER -> "401"]

Answering(id, what) == {s \in Services : id[s] \in what}

(* Of several services the one reported first: jmap. *)
First(services) == IF "jmap" \in services THEN "jmap" ELSE "caldav"

(* observe_services: a stranger's grant first, then the first refusal. *)
ObserveServices(id) ==
    IF Answering(id, {"stranger"}) # {}
    THEN [state |-> "pending_operator", service |-> First(Answering(id, {"stranger"}))]
    ELSE IF Answering(id, {"401", "403", "down"}) # {}
    THEN LET s == First(Answering(id, {"401", "403", "down"})) IN
         [state |-> IF id[s] = "down" THEN "unreachable" ELSE "pending_operator", service |-> s]
    ELSE Connected

(* The services are asked; a 401 on a token believed good is first renewed. *)
Ask ==
    /\ at = "ask"
    /\ ids' = Whoami(token)
    /\ IF Answering(ids', {"401"}) # {} /\ ~renewed
       THEN /\ at' = "again" /\ answer' = [to |-> mem, what |-> "sent"]
            /\ UNCHANGED obs
       ELSE /\ obs' = ObserveServices(ids') /\ at' = "report"
            /\ UNCHANGED answer
    /\ UNCHANGED <<world, disk, op, mem, token, refusal, renewed, last, faults, history>>

(* The second renewal of the round, and what the services then say. *)
RenewAgain ==
    /\ at = "again" /\ answer.what # "sent"
    /\ Renewed("askAgain", at' = "report" /\ obs' = ObserveServices(ids))
    /\ answer' = NoAnswer /\ Heard
    /\ UNCHANGED <<world, op, renewed, ids, last, faults, stranded, strangers>>

AskAgain ==
    /\ at = "askAgain"
    /\ ids' = Whoami(token)
    /\ obs' = ObserveServices(ids') /\ at' = "report"
    /\ UNCHANGED <<world, disk, op, mem, token, refusal, renewed, answer, last, faults, history>>

(* per_connection: a service's refusal is its own connection's state. *)
PerConnection(o, kind) ==
    IF o.service \in Services /\ Kind[o.service] # kind THEN "connected" ELSE o.state

(* Tracker::observe and publish, for the connections asked about: an answer  *)
(* that is not the last one becomes it, and goes on the bus; one the bus     *)
(* does not take is only logged.  A refusal whose words are others than the  *)
(* last's is said again, in the same state.                                  *)
Say(asked, answers) ==
    LET now     == [k \in Kinds |-> IF k \in asked THEN answers[k] ELSE last[k]]
        changed == {k \in Kinds : now[k] # last[k]}
        same    == {k \in asked \ changed : now[k] # "connected"}
    IN /\ last' = now
       /\ \E missed \in SUBSET changed, again \in SUBSET (same \cap lost) :
             LET taken == (changed \ missed) \cup again IN
             /\ said' = [k \in Kinds |-> IF k \in taken THEN now[k] ELSE said[k]]
             /\ lost' = (lost \ taken) \cup missed
             /\ \/ missed = {} /\ UNCHANGED faults
                \/ missed # {} /\ faults < MaxFaults /\ faults' = faults + 1

(* Mutant of Report: the trackers keep what they said first. *)
ReportOnce ==
    /\ at = "report"
    /\ Say(Kinds, [k \in Kinds |-> IF last[k] = "unknown" THEN PerConnection(obs, k) ELSE last[k]])
    /\ at' = "poll"
    /\ UNCHANGED <<issued, signIns, sso, svc, disk, op, mem, token, refusal, renewed, answer, ids, obs, history>>

(* Each tracker is told what its connection came to. *)
Report ==
    /\ at = "report"
    /\ Say(Kinds, [k \in Kinds |-> PerConnection(obs, k)])
    /\ at' = "poll"
    /\ UNCHANGED <<issued, signIns, sso, svc, disk, op, mem, token, refusal, renewed, answer, ids, obs, history>>

(* Which connections this round polls: the connected ones with a credential, *)
(* the calendar when /api/user named the owner whose calendars to read.      *)
Polled ==
    {k \in Kinds : last[k] = "connected" /\ token # NoToken
                   /\ (k = "calendar" => ids["caldav"] \in {"mine", "stranger"})}

(* The polls: a service that refuses is the connection's state; what another *)
(* answers is published.  A calendar round whose switch could not be read    *)
(* ends before its polls and without its sleep.                              *)
Poll ==
    /\ at = "poll"
    /\ \E due \in SUBSET Polled :
         LET found == Whoami(token)
             of == [k \in due |-> found[IF k = "email" THEN "jmap" ELSE "caldav"]]
         IN /\ Say({k \in due : of[k] \in {"401", "403"}}, [k \in Kinds |-> "pending_operator"])
            /\ strangers' = strangers \cup {k \in due : of[k] = "stranger"}
    /\ at' \in {"idle", "renew"}
    /\ at' = "renew" => "calendar" \in Polled /\ last' = last /\ strangers' = strangers
    /\ ids' = Unasked /\ obs' = Connected
    /\ UNCHANGED <<issued, signIns, sso, svc, disk, op, mem, token, refusal, renewed, answer, stranded, word>>

(* The health interval is over, or the server rang. *)
Wake ==
    /\ at = "idle" /\ at' = "renew"
    /\ UNCHANGED <<world, disk, op, mem, token, refusal, renewed, answer, ids, obs, last, faults, history>>

(***************************************************************************)
(* The operator's authorize, a process of its own over the same file.      *)
(***************************************************************************)
(* complete_authorization: a new sign-in's grant, written over the file's.  *)
Authorize ==
    /\ op = NoGrant /\ sso = "up" /\ signIns < MaxSignIns
    /\ \E mine \in BOOLEAN :
         issued' = [issued EXCEPT ![signIns + 1] = [n |-> 1, good |-> TRUE, mine |-> mine]]
    /\ signIns' = signIns + 1
    /\ op' = <<signIns + 1, 1>> /\ disk' = op'
    /\ UNCHANGED <<sso, svc, bus, process, faults, history>>

(* It renews what it wrote, asks the services, and removes a stranger's      *)
(* grant: one that no service answered for is kept.  Or it is interrupted,   *)
(* before the SSO or after it.                                               *)
AuthorizeEnds ==
    /\ op # NoGrant
    /\ op' = NoGrant
    /\ LET f == op[1]
           rotates == sso = "up" /\ Honoured(op) /\ op[2] < MaxGrants
           refused == Answering(Whoami([of |-> f, life |-> "fresh"]), {"stranger"}) # {}
       IN /\ issued' = IF rotates THEN [issued EXCEPT ![f].n = @ + 1] ELSE issued
          /\ \/ /\ disk' = CASE rotates /\ refused -> NoGrant
                             [] rotates /\ ~refused -> <<f, op[2] + 1>>
                             [] OTHER -> disk
                /\ UNCHANGED <<faults, stranded>>
             \/ /\ rotates /\ faults < MaxFaults /\ faults' = faults + 1
                /\ stranded' = stranded \cup {f}
                /\ UNCHANGED disk
    /\ UNCHANGED <<signIns, sso, svc, bus, process, strangers, word>>

(***************************************************************************)
(* The world.                                                              *)
(***************************************************************************)
(* The SSO or a service starts or stops answering, or refuses. *)
Turn ==
    /\ faults < MaxFaults /\ faults' = faults + 1
    /\ \/ \E s \in {"up", "down", "refuses"} \ {sso} : sso' = s /\ UNCHANGED svc
       \/ \E s \in Services, v \in {"ok", "down", "wants", "refuses"} :
              v # svc[s] /\ svc' = [svc EXCEPT ![s] = v] /\ UNCHANGED sso
    /\ UNCHANGED <<issued, signIns, bus, disk, op, process, history>>

(* A sign-in is revoked at the SSO, or its grant expires unused. *)
GrantDies ==
    /\ faults < MaxFaults /\ faults' = faults + 1
    /\ \E f \in 1 .. signIns : issued[f].good /\ issued' = [issued EXCEPT ![f].good = FALSE]
    /\ UNCHANGED <<signIns, sso, svc, bus, disk, op, process, history>>

(* The token comes within RENEWAL_MARGIN of its end, then to its end. *)
TokenAges ==
    /\ token.life \in {"fresh", "margin"} /\ faults < MaxFaults /\ faults' = faults + 1
    /\ token' = [token EXCEPT !.life = IF @ = "fresh" THEN "margin" ELSE "over"]
    /\ UNCHANGED <<world, disk, op, at, mem, refusal, renewed, answer, ids, obs, last, history>>

RoundStep ==
    \/ Round \/ SsoRenews \/ RenewFirst \/ Ask \/ RenewAgain \/ AskAgain \/ Report \/ Poll \/ Wake

Next ==
    \/ Start \/ Crash \/ RoundStep \/ RenewalLost
    \/ Authorize \/ AuthorizeEnds
    \/ Turn \/ GrantDies \/ TokenAges

Spec == Init /\ [][Next]_vars

(* The container is started again, and its loop goes round. *)
FairSpec == Spec /\ WF_vars(Start) /\ WF_vars(RoundStep)

(***************************************************************************)
(* Properties.                                                             *)
(***************************************************************************)
WorldOK ==
    /\ issued \in [SignIns -> [n : 0 .. MaxGrants, good : BOOLEAN, mine : BOOLEAN]]
    /\ signIns \in 0 .. MaxSignIns
    /\ sso \in {"up", "down", "refuses"}
    /\ svc \in [Services -> {"ok", "down", "wants", "refuses"}]

GrantsOK ==
    /\ disk \in Grants /\ op \in Grants /\ mem \in Grants
    /\ answer \in [to : Grants, what : {"none", "sent", "ok", "invalid", "odd", "client", "silent"}]
    /\ answer.what = "ok" => answer.to[2] > 1
    /\ token \in {NoToken} \cup [of : SignIns, life : {"fresh", "margin", "over"}]

RoundOK ==
    /\ at \in Positions
    /\ refusal \in Observations /\ obs \in Observations
    /\ ids \in [Services -> {"mine", "stranger", "401", "403", "down"}]
    /\ last \in [Kinds -> States \cup {"unknown"}]

(* Every variable is in its range. *)
TypeOK ==
    /\ WorldOK /\ GrantsOK /\ RoundOK
    /\ renewed \in BOOLEAN /\ faults \in 0 .. MaxFaults
    /\ stranded \subseteq SignIns /\ strangers \subseteq Kinds
    /\ said \in [Kinds -> States \cup {"unknown"}] /\ lost \subseteq Kinds
    /\ word \in {"none", "ok", "invalid", "odd", "client"}

(* The rotation never loses the sign-in: the grant in the file is the one    *)
(* the SSO honours, or the answer that carries it is in flight, unless one   *)
(* was lost on its way (Client::renew writes before it returns).             *)
GrantKept ==
    disk # NoGrant /\ disk[1] \notin stranded =>
        \/ disk[2] = issued[disk[1]].n
        \/ answer.what = "ok" /\ answer.to = <<disk[1], issued[disk[1]].n>>

(* The grant a renewal's answer carries. *)
Coming == IF answer.what = "ok" THEN {answer.to} ELSE {}

Credentials == INSTANCE Rotation WITH
    Family <- SignIns,
    newest <- [f \in SignIns |-> issued[f].n],
    held <- disk,
    coming <- Coming,
    lost <- stranded

(* The SSO, the process and the operator beside it implement Rotation: the   *)
(* file changes only for a grant that arrives or that authorize brought or   *)
(* removes, and no grant is rotated away while it is on its way.             *)
RotatesTheGrant == Credentials!Spec

(* The owner is sent to sign in again only for a grant that is gone, or that *)
(* the SSO refused with a code the process does not know: never for an SSO   *)
(* or a service that was merely down, nor for a refused client, nor once a   *)
(* round has heard another word of the SSO and said what it came to          *)
(* (Client::renew).                                                          *)
ReconnectIsTheGrants ==
    at \in {"renew", "renewing", "poll", "idle"}
        /\ (\E k \in Kinds : last[k] = "reconnect_required")
        => ~Honoured(mem) \/ word = "odd"

(* Everything answers, and the grant in hand is the owner's. *)
Sound ==
    /\ at # "off" /\ sso = "up" /\ svc = [s \in Services |-> "ok"]
    /\ Honoured(mem) /\ issued[mem[1]].mine /\ mem[2] < MaxGrants
    /\ token # NoToken => token.of = mem[1]

(* A connection that can be read is said to be: whatever failed before, once *)
(* the SSO and the services answer for the grant in hand, the bus carries    *)
(* every connection as connected, but one whose change to that it did not    *)
(* take.                                                                     *)
Reconnects ==
    Sound ~> \/ \A k \in Kinds : said[k] = "connected" \/ (last[k] = "connected" /\ k \in lost)
             \/ ~Sound

(* What a tracker holds is "a connection's last published state" (Tracker):  *)
(* the bus carries the same.                                                 *)
LastIsPublished == \A k \in Kinds : last[k] # "unknown" => said[k] = last[k]

(* A stranger's grant is nothing to publish from: run and observe_services   *)
(* promise that nothing is published from it.                                *)
NothingFromAStranger == strangers = {}
=============================================================================
