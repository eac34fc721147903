------------------------------- MODULE Session -------------------------------
(***************************************************************************)
(* A browser's session with the Gateway: the rows of sessions.db           *)
(* (companion-gateway/src/session.rs), the routes over them                *)
(* (session_http.rs) and what the pages of one browser do with the         *)
(* answers (companion/src/lib/session and lib/api/client.ts).              *)
(*                                                                         *)
(* A sign-in adds a device with a pair of tokens; a refresh replaces both  *)
(* and forgets the pair it was given.  The pages share one cookie jar, and *)
(* each page has its own refresh in flight, its own timer and its own idea *)
(* of the session.  Only the device's current pair opens anything, so an   *)
(* answer that is late, lost or overtaken decides who is still signed in.  *)
(*                                                                         *)
(* A token pair is <<device, generation>>: the two tokens are always       *)
(* minted together.  Each sign-in presents an OpenID token of its own      *)
(* (signin.ts mints one per attempt), so the replay ledger refuses none.   *)
(***************************************************************************)
EXTENDS Naturals, FiniteSets

CONSTANTS
    Tabs,        \* the pages this browser may have open
    Calls,       \* the ordinary calls they make, each made once
    TabOf,       \* the page a call is made from
    MaxDevices,  \* bound: sign-ins that reach the store
    MaxEvents,   \* bound: timers due, tokens expired, devices revoked, messages lost, store failures
    MaxOpenings  \* bound: pages opened

ASSUME SessionAssumption ==
    /\ TabOf \in [Calls -> Tabs]
    /\ {MaxDevices, MaxEvents, MaxOpenings} \subseteq Nat

VARIABLES
    rows,     \* devices: the generation whose digests are stored, and whether they are good
    devices,  \* how many rows there are
    jar,      \* the pair the browser's cookies hold
    status,   \* what each page believes: SessionStatus, or "closed"
    due,      \* the page's timer: none, set, or past its moment
    keeper,   \* the page's startSessionKeeper has not concluded yet
    refresh,  \* the page's refresh in flight
    signIn,   \* the page's sign-in in flight
    call,     \* the calls
    events, openings,
    stranded  \* history: devices an issued pair of which never reached the jar

pages == <<status, due, keeper, refresh, signIn, call>>
budgets == <<events, openings>>
vars == <<rows, devices, jar, pages, budgets, stranded>>

Devices == 1 .. MaxDevices
NoPair == <<0, 0>>
Pairs == {NoPair} \cup (Devices \X Nat)
Idle == [at |-> "idle", pair |-> NoPair]
(* A flight that "failed" is answered like one that was refused: a 401. *)
Flights == [at : {"idle", "sent", "ok", "refused", "failed"}, pair : Pairs]
Statuses == {"closed", "unknown", "signed-out", "live", "expired"}
CallStates == {"none", "sent", "denied", "waits", "again", "served", "refused"}

NoRow == [n |-> 0, fresh |-> FALSE, alive |-> FALSE, revoked |-> FALSE]

(* Mutant of Refreshable: a pair already rotated away still refreshes. *)
RefreshableTwice(p) ==
    p[1] \in 1 .. devices /\ rows[p[1]].alive /\ ~rows[p[1]].revoked

(* Sessions::refresh's WHERE: the pair is the one whose digests are stored, *)
(* the row is not revoked (which forgets the digests) and not expired.      *)
Refreshable(p) ==
    /\ p[1] \in 1 .. devices
    /\ rows[p[1]].n = p[2]
    /\ rows[p[1]].alive
    /\ ~rows[p[1]].revoked

(* Sessions::authenticate: the same of the device token. *)
Authentic(p) ==
    /\ p[1] \in 1 .. devices
    /\ rows[p[1]].n = p[2]
    /\ rows[p[1]].fresh
    /\ ~rows[p[1]].revoked

(* afterUnauthenticated: a live session that is refused has expired. *)
AfterUnauthenticated(s) == IF s \in {"live", "expired"} THEN "expired" ELSE "signed-out"

Init ==
    /\ rows = [d \in Devices |-> NoRow] /\ devices = 0
    /\ jar = NoPair
    /\ status = [t \in Tabs |-> "closed"]
    /\ due = [t \in Tabs |-> "none"] /\ keeper = [t \in Tabs |-> FALSE]
    /\ refresh = [t \in Tabs |-> Idle] /\ signIn = [t \in Tabs |-> Idle]
    /\ call = [c \in Calls |-> [at |-> "none", pair |-> NoPair]]
    /\ events = 0 /\ openings = 0
    /\ stranded = {}

(***************************************************************************)
(* The page's refresh: refreshSession and run in refresh.ts.               *)
(***************************************************************************)
(* A refresh is asked for: the one in flight is joined. *)
Asked(t) ==
    IF refresh[t].at = "idle"
    THEN refresh' = [refresh EXCEPT ![t] = [at |-> "sent", pair |-> jar]]
    ELSE UNCHANGED refresh

(* What becomes of the calls that joined: the originals are sent again with *)
(* the jar's new pair, or their 401 goes through to the screen.             *)
Released(t, ok, p) ==
    call' = [c \in Calls |->
        CASE TabOf[c] = t /\ call[c].at = "waits" /\ ok -> [at |-> "again", pair |-> p]
          [] TabOf[c] = t /\ call[c].at = "waits" /\ ~ok -> [call[c] EXCEPT !.at = "refused"]
          [] OTHER -> call[c]]

(* A page is loaded: startSessionKeeper begins with a refresh. *)
Open(t) ==
    /\ status[t] = "closed" /\ openings < MaxOpenings
    /\ openings' = openings + 1
    /\ status' = [status EXCEPT ![t] = "unknown"]
    /\ keeper' = [keeper EXCEPT ![t] = TRUE]
    /\ Asked(t)
    /\ UNCHANGED <<rows, devices, jar, due, signIn, call, events, stranded>>

(* A page is closed or reloaded: its timer, its state and what it awaited   *)
(* are gone, an issued pair on its way included.                            *)
Close(t) ==
    /\ status[t] # "closed"
    /\ status' = [status EXCEPT ![t] = "closed"]
    /\ due' = [due EXCEPT ![t] = "none"] /\ keeper' = [keeper EXCEPT ![t] = FALSE]
    /\ refresh' = [refresh EXCEPT ![t] = Idle] /\ signIn' = [signIn EXCEPT ![t] = Idle]
    /\ stranded' = stranded \cup {f.pair[1] : f \in {g \in {refresh[t], signIn[t]} : g.at = "ok"}}
    /\ call' = [c \in Calls |->
          IF TabOf[c] = t /\ call[c].at \in {"sent", "denied", "waits", "again"}
          THEN [call[c] EXCEPT !.at = "refused"] ELSE call[c]]
    /\ UNCHANGED <<rows, devices, jar, budgets>>

(* The timer, or the page waking past its moment (refreshIfOverdue). *)
Timer(t) ==
    /\ due[t] = "ripe"
    /\ due' = [due EXCEPT ![t] = "none"]
    /\ Asked(t)
    /\ UNCHANGED <<rows, devices, jar, status, keeper, signIn, call, budgets, stranded>>

(* The session store fails: `.ok()` makes its error a None, and the answer   *)
(* is the 401 of a token that is unknown.                                    *)
StoreFails == events < MaxEvents /\ events' = events + 1

(* POST /api/session/refresh: one UPDATE rotates both tokens, or matches no  *)
(* row, or is not made.                                                      *)
Refresh(t) ==
    /\ refresh[t].at = "sent"
    /\ LET p == refresh[t].pair IN
       \/ /\ Refreshable(p)
          /\ rows' = [rows EXCEPT ![p[1]].n = @ + 1, ![p[1]].fresh = TRUE]
          /\ refresh' = [refresh EXCEPT ![t] = [at |-> "ok", pair |-> <<p[1], p[2] + 1>>]]
          /\ UNCHANGED events
       \/ /\ ~Refreshable(p)
          /\ refresh' = [refresh EXCEPT ![t].at = "refused"]
          /\ UNCHANGED <<rows, events>>
       \/ /\ StoreFails
          /\ refresh' = [refresh EXCEPT ![t].at = "failed"]
          /\ UNCHANGED rows
    /\ UNCHANGED <<devices, jar, status, due, keeper, signIn, call, openings, stranded>>

(* The new pair arrives: the browser stores the cookies whatever they replace. *)
Refreshed(t) ==
    /\ refresh[t].at = "ok"
    /\ jar' = refresh[t].pair
    /\ status' = [status EXCEPT ![t] = "live"]
    /\ due' = [due EXCEPT ![t] = "set"]
    /\ keeper' = [keeper EXCEPT ![t] = FALSE]
    /\ refresh' = [refresh EXCEPT ![t] = Idle]
    /\ Released(t, TRUE, jar')
    /\ UNCHANGED <<rows, devices, signIn, budgets, stranded>>

(* A 401 arrives, whatever it is for: no timer is left, and the page says so. *)
RefreshRefused(t) ==
    /\ refresh[t].at \in {"refused", "failed"}
    /\ status' = [status EXCEPT ![t] = AfterUnauthenticated(@)]
    /\ due' = [due EXCEPT ![t] = "none"]
    /\ refresh' = [refresh EXCEPT ![t] = Idle]
    /\ Released(t, FALSE, NoPair)
    /\ UNCHANGED <<rows, devices, jar, keeper, signIn, budgets, stranded>>

(* Mutants of RefreshLost: a network failure taken for a refusal; one with  *)
(* no retry.                                                                *)
LossIsRefusal(t) ==
    /\ refresh[t].at \in {"sent", "ok"} /\ events < MaxEvents
    /\ events' = events + 1
    /\ stranded' = IF refresh[t].at = "ok" THEN stranded \cup {refresh[t].pair[1]} ELSE stranded
    /\ status' = [status EXCEPT ![t] = AfterUnauthenticated(@)]
    /\ due' = [due EXCEPT ![t] = "none"]
    /\ refresh' = [refresh EXCEPT ![t] = Idle]
    /\ Released(t, FALSE, NoPair)
    /\ UNCHANGED <<rows, devices, jar, keeper, signIn, openings>>
LossWithoutRetry(t) ==
    /\ refresh[t].at \in {"sent", "ok"} /\ events < MaxEvents
    /\ events' = events + 1
    /\ refresh' = [refresh EXCEPT ![t] = Idle]
    /\ Released(t, FALSE, NoPair)
    /\ UNCHANGED <<rows, devices, jar, status, due, keeper, signIn, openings, stranded>>

(* No answer: nothing is claimed about the session, and a retry is scheduled. *)
RefreshLost(t) ==
    /\ refresh[t].at \in {"sent", "ok"} /\ events < MaxEvents
    /\ events' = events + 1
    /\ stranded' = IF refresh[t].at = "ok" THEN stranded \cup {refresh[t].pair[1]} ELSE stranded
    /\ due' = [due EXCEPT ![t] = "ripe"]
    /\ refresh' = [refresh EXCEPT ![t] = Idle]
    /\ Released(t, FALSE, NoPair)
    /\ UNCHANGED <<rows, devices, jar, status, keeper, signIn, openings>>

(* The keeper's first refresh failed: it asks GET /api/session before it    *)
(* concludes.  The read and its answer are one step: it changes nothing.    *)
KeeperAsks(t) ==
    /\ keeper[t] /\ refresh[t].at = "idle"
    /\ keeper' = [keeper EXCEPT ![t] = FALSE]
    /\ \/ /\ status' = [status EXCEPT ![t] = IF Authentic(jar) THEN "live" ELSE AfterUnauthenticated(@)]
          /\ UNCHANGED events
       \/ /\ StoreFails
          /\ status' = [status EXCEPT ![t] = AfterUnauthenticated(@)]
    /\ UNCHANGED <<rows, devices, jar, due, refresh, signIn, call, openings, stranded>>

(***************************************************************************)
(* A sign-in, offered by the signed-out and the expired states: POST       *)
(* /api/session.  The middleware leaves its refusals alone.                *)
(***************************************************************************)
SignIn(t) ==
    /\ status[t] \in {"signed-out", "expired"} /\ ~keeper[t] /\ signIn[t].at = "idle"
    /\ devices < MaxDevices
    /\ signIn' = [signIn EXCEPT ![t] = [at |-> "sent", pair |-> NoPair]]
    /\ UNCHANGED <<rows, devices, jar, status, due, keeper, refresh, call, budgets, stranded>>

(* Sessions::issue inserts the device's row, or the store refuses it. *)
Issue(t) ==
    /\ signIn[t].at = "sent"
    /\ \/ /\ devices < MaxDevices
          /\ devices' = devices + 1
          /\ rows' = [rows EXCEPT ![devices + 1] =
                [n |-> 1, fresh |-> TRUE, alive |-> TRUE, revoked |-> FALSE]]
          /\ signIn' = [signIn EXCEPT ![t] = [at |-> "ok", pair |-> <<devices + 1, 1>>]]
          /\ UNCHANGED events
       \/ /\ events < MaxEvents \/ devices = MaxDevices
          /\ events' = IF events < MaxEvents THEN events + 1 ELSE events
          /\ signIn' = [signIn EXCEPT ![t] = Idle]
          /\ UNCHANGED <<rows, devices>>
    /\ UNCHANGED <<jar, status, due, keeper, refresh, call, openings, stranded>>

(* The answer arrives (noteLive, sessionIssued), or is lost: the row then   *)
(* has no holder.                                                           *)
SignedIn(t) ==
    /\ signIn[t].at = "ok"
    /\ signIn' = [signIn EXCEPT ![t] = Idle]
    /\ \/ /\ jar' = signIn[t].pair
          /\ status' = [status EXCEPT ![t] = "live"]
          /\ due' = [due EXCEPT ![t] = "set"]
          /\ UNCHANGED <<events, stranded>>
       \/ /\ events < MaxEvents /\ events' = events + 1
          /\ stranded' = stranded \cup {signIn[t].pair[1]}
          /\ UNCHANGED <<jar, status, due>>
    /\ UNCHANGED <<rows, devices, keeper, refresh, call, openings>>

(***************************************************************************)
(* The calls of the screens: the guard, and the middleware of client.ts.   *)
(***************************************************************************)
Call(c) ==
    /\ call[c].at = "none" /\ status[TabOf[c]] # "closed"
    /\ call' = [call EXCEPT ![c] = [at |-> "sent", pair |-> jar]]
    /\ UNCHANGED <<rows, devices, jar, status, due, keeper, refresh, signIn, budgets, stranded>>

(* The guard answers; a replay's 401 is the caller's, no middleware sees it. *)
Guard(c) ==
    /\ call[c].at \in {"sent", "again"}
    /\ \/ /\ Authentic(call[c].pair)
          /\ call' = [call EXCEPT ![c].at = "served"]
          /\ UNCHANGED events
       \/ /\ IF Authentic(call[c].pair) THEN StoreFails ELSE UNCHANGED events
          /\ call' = [call EXCEPT ![c].at = IF @ = "sent" THEN "denied" ELSE "refused"]
    /\ UNCHANGED <<rows, devices, jar, status, due, keeper, refresh, signIn, openings, stranded>>

(* repairUnauthenticated: a page known to be signed out lets the 401 through; *)
(* any other refreshes and waits.                                           *)
Repair(c) ==
    /\ call[c].at = "denied"
    /\ IF status[TabOf[c]] = "signed-out"
       THEN /\ call' = [call EXCEPT ![c].at = "refused"]
            /\ UNCHANGED refresh
       ELSE /\ call' = [call EXCEPT ![c].at = "waits"]
            /\ Asked(TabOf[c])
    /\ UNCHANGED <<rows, devices, jar, status, due, keeper, signIn, budgets, stranded>>

(***************************************************************************)
(* Time, and the device list.                                              *)
(***************************************************************************)
(* Four fifths of a device token's life are over (refreshAfterSeconds); a    *)
(* timer outlives no token, so that of a dead one needs no event of its own. *)
TimerRipens ==
    /\ \E t \in Tabs : due[t] = "set"
    /\ \/ events < MaxEvents /\ events' = events + 1
       \/ jar # NoPair /\ ~rows[jar[1]].fresh /\ UNCHANGED events
    /\ due' = [t \in Tabs |-> IF due[t] = "set" THEN "ripe" ELSE due[t]]
    /\ UNCHANGED <<rows, devices, jar, status, keeper, refresh, signIn, call, openings, stranded>>

(* The device token's quarter of an hour is over. *)
DeviceTokenDies(d) ==
    /\ d \in 1 .. devices /\ rows[d].fresh /\ events < MaxEvents
    /\ rows' = [rows EXCEPT ![d].fresh = FALSE]
    /\ events' = events + 1
    /\ UNCHANGED <<devices, jar, pages, openings, stranded>>

(* The refresh token's thirty days are over. *)
RefreshTokenDies(d) ==
    /\ d \in 1 .. devices /\ ~rows[d].fresh /\ rows[d].alive /\ events < MaxEvents
    /\ rows' = [rows EXCEPT ![d].alive = FALSE]
    /\ events' = events + 1
    /\ UNCHANGED <<devices, jar, pages, openings, stranded>>

(* DELETE /api/devices/{id}, from any device of the owner's: the row stays, *)
(* its digests go.                                                          *)
Revoke(d) ==
    /\ d \in 1 .. devices /\ ~rows[d].revoked /\ events < MaxEvents
    /\ rows' = [rows EXCEPT ![d].revoked = TRUE]
    /\ events' = events + 1
    /\ UNCHANGED <<devices, jar, pages, openings, stranded>>

Next ==
    \/ \E t \in Tabs : \/ Open(t) \/ Close(t) \/ Timer(t)
                       \/ Refresh(t) \/ Refreshed(t) \/ RefreshRefused(t) \/ RefreshLost(t)
                       \/ KeeperAsks(t) \/ SignIn(t) \/ Issue(t) \/ SignedIn(t)
    \/ \E c \in Calls : Call(c) \/ Guard(c) \/ Repair(c)
    \/ TimerRipens
    \/ \E d \in Devices : DeviceTokenDies(d) \/ RefreshTokenDies(d) \/ Revoke(d)

Spec == Init /\ [][Next]_vars

(* Timers fire, the Gateway answers, answers arrive. *)
FairSpec ==
    /\ Spec
    /\ \A t \in Tabs : /\ WF_vars(Timer(t)) /\ WF_vars(Refresh(t))
                       /\ WF_vars(Refreshed(t) \/ RefreshRefused(t))
                       /\ WF_vars(KeeperAsks(t))
                       /\ WF_vars(Issue(t)) /\ WF_vars(SignedIn(t))
    /\ WF_vars(TimerRipens)
    /\ \A c \in Calls : WF_vars(Guard(c)) /\ WF_vars(Repair(c))

(***************************************************************************)
(* Properties.                                                             *)
(***************************************************************************)
RowsOK ==
    /\ rows \in [Devices -> [n : Nat, fresh : BOOLEAN, alive : BOOLEAN, revoked : BOOLEAN]]
    /\ devices \in 0 .. MaxDevices /\ jar \in Pairs /\ stranded \subseteq Nat

FlightsOK == refresh \in [Tabs -> Flights] /\ signIn \in [Tabs -> Flights]

PagesOK ==
    /\ status \in [Tabs -> Statuses]
    /\ due \in [Tabs -> {"none", "set", "ripe"}] /\ keeper \in [Tabs -> BOOLEAN]
    /\ call \in [Calls -> [at : CallStates, pair : Pairs]]

(* Every variable is in its range. *)
TypeOK ==
    /\ RowsOK /\ FlightsOK /\ PagesOK
    /\ events \in 0 .. MaxEvents /\ openings \in 0 .. MaxOpenings

(* The pair d's row stores now is in the jar or on its way to it. *)
Reachable(d) ==
    \/ jar = <<d, rows[d].n>>
    \/ \E t \in Tabs : \E f \in {refresh[t], signIn[t]} : f.at = "ok" /\ f.pair = <<d, rows[d].n>>

(* The rotation never throws the browser out: unless an issued pair was lost *)
(* on its way, the device whose tokens the jar holds can still be reached    *)
(* with what the jar holds or is about to hold, however many pages refresh   *)
(* at once and in whatever order their answers arrive (Sessions::refresh     *)
(* forgets the old pair in the statement that issues the new one).           *)
SessionKept == jar # NoPair /\ jar[1] \notin stranded => Reachable(jar[1])

(* The pairs on their way to a page. *)
Coming ==
    {refresh[t].pair : t \in {u \in Tabs : refresh[u].at = "ok"}}
      \cup {signIn[t].pair : t \in {u \in Tabs : signIn[u].at = "ok"}}

Credentials == INSTANCE Rotation WITH
    Family <- Devices,
    newest <- [d \in Devices |-> rows[d].n],
    held <- jar,
    coming <- Coming,
    lost <- stranded

(* The Gateway and the pages implement Rotation: each refresh issues the     *)
(* device's next pair and no other, never while the one before it is on its  *)
(* way to some page, and the jar changes only for a pair that arrives.       *)
RotatesThePair == Credentials!Spec

(* A page that was live says `expired` only of a session that is over: no    *)
(* refresh could be made with the jar, unless the jar was filled anew while  *)
(* the refused refresh was in flight, or the 401 was a store that had failed *)
(* (noteUnauthenticated runs on every 401).                                  *)
ExpiredIsTrue ==
    [][\A t \in Tabs : status[t] = "live" /\ status'[t] = "expired"
          => \/ ~Refreshable(jar)
             \/ refresh[t].pair # jar
             \/ refresh[t].at = "failed"]_vars

(* A 401 to a refresh is for a token that is "unknown, expired or revoked",  *)
(* as Sessions::refresh says of its None.                                    *)
RefusedIsOver ==
    [][\A t \in Tabs : refresh[t].at = "sent" /\ refresh'[t].at \in {"refused", "failed"}
          => ~Refreshable(refresh[t].pair)]_vars

(* What reaches a screen is its answer or a terminal refusal, as client.ts   *)
(* promises: a call of an open page is not refused while the jar holds a     *)
(* pair that works.                                                          *)
RefusalIsTerminal ==
    [][\A c \in Calls : call[c].at = "again" /\ call'[c].at = "refused"
          /\ status'[TabOf[c]] # "closed" => ~Authentic(jar)]_vars

(* A page with a refresh scheduled keeps its session alive without a call:   *)
(* while its device can be refreshed, its device token is renewed, through   *)
(* answers that do not come (schedule(RETRY_AFTER_MS) in run).  And every    *)
(* call is answered: none is left waiting for a refresh that ended without   *)
(* it (the joined promise of refreshSession settles for all).                *)
StaysSignedIn ==
    /\ \A t \in Tabs :
          status[t] = "live" /\ due[t] # "none" /\ Refreshable(jar) /\ ~Authentic(jar)
              ~> Authentic(jar) \/ ~Refreshable(jar) \/ status[t] # "live"
    /\ \A c \in Calls : call[c].at # "none" ~> call[c].at \in {"served", "refused"}
=============================================================================
