---------------------------- MODULE SessionProofs ----------------------------
(* Proofs about Session for every value of its constants.                    *)
EXTENDS Session, TLAPS

-----------------------------------------------------------------------------
(* Type correctness.                                                         *)

LEMMA IdleIsFlight == Idle \in Flights /\ NoPair \in Pairs
BY DEF Idle, Flights, Pairs, NoPair

LEMMA TypeInit == Init => TypeOK
<1> SUFFICES ASSUME Init PROVE TypeOK
  OBVIOUS
<1>1. rows \in [Devices -> [n : Nat, fresh : BOOLEAN, alive : BOOLEAN, revoked : BOOLEAN]]
  BY DEF Init, NoRow
<1>2. devices \in 0 .. MaxDevices /\ events \in 0 .. MaxEvents /\ openings \in 0 .. MaxOpenings
  BY SessionAssumption DEF Init
<1>3. jar \in Pairs /\ stranded \subseteq Nat
  BY IdleIsFlight DEF Init
<1>4. FlightsOK
  BY IdleIsFlight DEF Init, FlightsOK
<1>5. PagesOK
  BY IdleIsFlight DEF Init, PagesOK, Statuses, CallStates
<1> QED BY <1>1, <1>2, <1>3, <1>4, <1>5 DEF TypeOK, RowsOK

\* What a refresh does when it is made: the pair is replaced in the row and in the answer.
Rotates(t) ==
    LET p == refresh[t].pair IN
    /\ refresh[t].at = "sent" /\ Refreshable(p)
    /\ rows' = [rows EXCEPT ![p[1]].n = @ + 1, ![p[1]].fresh = TRUE]
    /\ refresh' = [refresh EXCEPT ![t] = [at |-> "ok", pair |-> <<p[1], p[2] + 1>>]]
    /\ UNCHANGED <<devices, jar, signIn, stranded>>

\* What it does when it is not: a pair that is spent, or a store that failed.
Declines(t) ==
    /\ refresh[t].at = "sent"
    /\ \/ /\ ~Refreshable(refresh[t].pair)
          /\ refresh' = [refresh EXCEPT ![t].at = "refused"]
       \/ refresh' = [refresh EXCEPT ![t].at = "failed"]
    /\ UNCHANGED <<rows, devices, jar, signIn, stranded>>

LEMMA RefreshCases ==
    ASSUME NEW t \in Tabs, Refresh(t)
    PROVE  Rotates(t) \/ Declines(t)
BY DEF Refresh, Rotates, Declines

\* A device's rows and the grounds on which they change.
LEMMA RowsStep == TypeOK /\ [Next]_vars => RowsOK'
<1> SUFFICES ASSUME TypeOK, [Next]_vars PROVE RowsOK'
  OBVIOUS
<1> USE DEF TypeOK, RowsOK
<1>0. MaxDevices \in Nat
  BY SessionAssumption
<1>1. ASSUME UNCHANGED <<rows, devices, jar, stranded>>
      PROVE  RowsOK'
  BY <1>1
<1>2. \A t \in Tabs : /\ refresh[t].pair \in Pairs /\ signIn[t].pair \in Pairs
                      /\ refresh[t].at \in {"idle", "sent", "ok", "refused", "failed"}
  BY DEF FlightsOK, Flights
<1>3. \A p \in Pairs : p # NoPair => p[1] \in Devices /\ p[2] \in Nat
  BY DEF Pairs
<1>4. \A p \in Pairs : Refreshable(p) => p[1] \in Devices
  BY <1>0 DEF Refreshable, Devices
<1>5. CASE UNCHANGED vars \/ TimerRipens
  BY <1>1, <1>5 DEF vars, TimerRipens
<1>6. ASSUME NEW t \in Tabs, Open(t) \/ Timer(t) \/ RefreshRefused(t) \/ KeeperAsks(t) \/ SignIn(t)
      PROVE  RowsOK'
  BY <1>1, <1>6 DEF Open, Timer, RefreshRefused, KeeperAsks, SignIn
<1>7. ASSUME NEW c \in Calls, Call(c) \/ Guard(c) \/ Repair(c)
      PROVE  RowsOK'
  BY <1>1, <1>7 DEF Call, Guard, Repair
<1>8. ASSUME NEW t \in Tabs, Refresh(t)
      PROVE  RowsOK'
  <2>1. UNCHANGED <<devices, jar, stranded>>
    BY <1>8 DEF Refresh
  <2>2. CASE Rotates(t)
    <3> DEFINE d == refresh[t].pair[1]
    <3>1. d \in Devices
      BY <1>2, <1>4, <2>2 DEF Rotates
    <3>2. rows[d].n + 1 \in Nat
      BY <3>1
    <3>3. rows' = [rows EXCEPT ![d].n = @ + 1, ![d].fresh = TRUE]
      BY <2>2 DEF Rotates
    <3> HIDE DEF d
    <3> QED BY <2>1, <3>1, <3>2, <3>3
  <2>3. CASE Declines(t)
    BY <1>1, <2>1, <2>3 DEF Declines
  <2> QED BY <1>8, <2>2, <2>3, RefreshCases
<1>9. ASSUME NEW t \in Tabs, Refreshed(t)
      PROVE  RowsOK'
  BY <1>2, <1>9 DEF Refreshed
<1>10. \A t \in Tabs : refresh[t].pair[1] \in Nat /\ signIn[t].pair[1] \in Nat
  <2>1. \A p \in Pairs : p[1] \in Nat
    BY <1>0 DEF Pairs, NoPair, Devices
  <2> QED BY <1>2, <2>1
<1>11. ASSUME NEW t \in Tabs, Close(t)
       PROVE  RowsOK'
  <2>1. UNCHANGED <<rows, devices, jar>>
    BY <1>11 DEF Close
  <2>2. stranded' \subseteq Nat
    <3>1. \A f \in {g \in {refresh[t], signIn[t]} : g.at = "ok"} : f.pair[1] \in Nat
      BY <1>10
    <3> QED BY <1>11, <3>1 DEF Close
  <2> QED BY <2>1, <2>2
<1>12. ASSUME NEW t \in Tabs, RefreshLost(t)
       PROVE  RowsOK'
  <2>1. UNCHANGED <<rows, devices, jar>>
    BY <1>12 DEF RefreshLost
  <2>2. stranded' \subseteq Nat
    BY <1>10, <1>12 DEF RefreshLost
  <2> QED BY <2>1, <2>2
<1>13. ASSUME NEW t \in Tabs, Issue(t)
       PROVE  RowsOK'
  <2>1. UNCHANGED <<jar, stranded>>
    BY <1>13 DEF Issue
  <2>2. CASE UNCHANGED <<rows, devices>>
    BY <1>1, <2>1, <2>2
  <2>3. CASE /\ devices < MaxDevices
             /\ devices' = devices + 1
             /\ rows' = [rows EXCEPT ![devices + 1] =
                   [n |-> 1, fresh |-> TRUE, alive |-> TRUE, revoked |-> FALSE]]
    <3>1. devices' \in 0 .. MaxDevices
      BY <1>0, <2>3
    <3>2. rows' \in [Devices -> [n : Nat, fresh : BOOLEAN, alive : BOOLEAN, revoked : BOOLEAN]]
      BY <2>3
    <3> QED BY <2>1, <3>1, <3>2
  <2> QED BY <1>13, <2>2, <2>3 DEF Issue
<1>14. ASSUME NEW t \in Tabs, SignedIn(t)
       PROVE  RowsOK'
  <2>1. UNCHANGED <<rows, devices>>
    BY <1>14 DEF SignedIn
  <2>2. CASE jar' = signIn[t].pair /\ UNCHANGED stranded
    BY <1>2, <1>10, <2>1, <2>2, <1>14 DEF SignedIn
  <2>3. CASE stranded' = stranded \cup {signIn[t].pair[1]} /\ UNCHANGED jar
    BY <1>10, <2>1, <2>3, <1>14 DEF SignedIn
  <2> QED BY <1>14, <2>2, <2>3 DEF SignedIn
<1>15. ASSUME NEW d \in Devices, DeviceTokenDies(d) \/ RefreshTokenDies(d) \/ Revoke(d)
       PROVE  RowsOK'
  <2>1. UNCHANGED <<devices, jar, stranded>>
    BY <1>15 DEF DeviceTokenDies, RefreshTokenDies, Revoke
  <2>2. CASE rows' = [rows EXCEPT ![d].fresh = FALSE]
    BY <2>1, <2>2
  <2>3. CASE rows' = [rows EXCEPT ![d].alive = FALSE]
    BY <2>1, <2>3
  <2>4. CASE rows' = [rows EXCEPT ![d].revoked = TRUE]
    BY <2>1, <2>4
  <2> QED BY <1>15, <2>2, <2>3, <2>4 DEF DeviceTokenDies, RefreshTokenDies, Revoke
<1> HIDE DEF TypeOK, RowsOK
<1> QED BY <1>5, <1>6, <1>7, <1>8, <1>9, <1>11, <1>12, <1>13, <1>14, <1>15 DEF Next

\* A page's requests stay requests: only Refresh and Issue put a pair in one.
LEMMA FlightsStep == TypeOK /\ [Next]_vars => FlightsOK'
<1> SUFFICES ASSUME TypeOK, [Next]_vars PROVE FlightsOK'
  OBVIOUS
<1> USE DEF FlightsOK
<1>0. FlightsOK /\ MaxDevices \in Nat /\ devices \in 0 .. MaxDevices /\ jar \in Pairs
  BY SessionAssumption DEF TypeOK, RowsOK
<1>1. \A p \in Pairs : [at |-> "sent", pair |-> p] \in Flights /\ [at |-> "ok", pair |-> p] \in Flights
  BY DEF Flights
<1>2. ASSUME UNCHANGED <<refresh, signIn>>
      PROVE  FlightsOK'
  BY <1>0, <1>2
<1>3. CASE \/ UNCHANGED vars \/ TimerRipens
           \/ \E t \in Tabs : KeeperAsks(t)
           \/ \E c \in Calls : Call(c) \/ Guard(c)
           \/ \E d \in Devices : DeviceTokenDies(d) \/ RefreshTokenDies(d) \/ Revoke(d)
  BY <1>2, <1>3
  DEF vars, pages, TimerRipens, KeeperAsks, Call, Guard, DeviceTokenDies, RefreshTokenDies, Revoke
<1>4. ASSUME NEW t \in Tabs, Asked(t), UNCHANGED signIn
      PROVE  FlightsOK'
  BY <1>0, <1>1, <1>4 DEF Asked
<1>5. ASSUME NEW t \in Tabs, Open(t) \/ Timer(t)
      PROVE  FlightsOK'
  BY <1>4, <1>5 DEF Open, Timer
<1>6. ASSUME NEW c \in Calls, Repair(c)
      PROVE  FlightsOK'
  BY <1>2, <1>4, <1>6, SessionAssumption DEF Repair
<1>7. ASSUME NEW t \in Tabs, Close(t) \/ Refreshed(t) \/ RefreshRefused(t) \/ RefreshLost(t)
      PROVE  FlightsOK'
  BY <1>0, <1>7, IdleIsFlight DEF Close, Refreshed, RefreshRefused, RefreshLost
<1>8. ASSUME NEW t \in Tabs, SignIn(t) \/ SignedIn(t)
      PROVE  FlightsOK'
  BY <1>0, <1>1, <1>8, IdleIsFlight DEF SignIn, SignedIn
<1>9. ASSUME NEW t \in Tabs, Refresh(t)
      PROVE  FlightsOK'
  <2> DEFINE p == refresh[t].pair
  <2>1. p \in Pairs /\ UNCHANGED signIn
    BY <1>0, <1>9 DEF Refresh, Flights
  <2>2. CASE Rotates(t)
    <3>1. p[1] \in Devices /\ p[2] \in Nat
      BY <1>0, <2>1, <2>2 DEF Rotates, Refreshable, Pairs, NoPair, Devices
    <3>2. <<p[1], p[2] + 1>> \in Pairs
      BY <3>1 DEF Pairs
    <3> QED BY <1>0, <1>1, <2>1, <2>2, <3>2 DEF Rotates
  <2>3. CASE Declines(t)
    <3>1. \A w \in {"refused", "failed"} : [refresh[t] EXCEPT !.at = w] \in Flights
      BY <1>0 DEF Flights
    <3> QED BY <1>0, <2>1, <2>3, <3>1 DEF Declines
  <2> QED BY <1>9, <2>2, <2>3, RefreshCases
<1>10. ASSUME NEW t \in Tabs, Issue(t)
       PROVE  FlightsOK'
  <2>1. UNCHANGED refresh
    BY <1>10 DEF Issue
  <2>2. CASE devices < MaxDevices /\ signIn' = [signIn EXCEPT ![t] = [at |-> "ok", pair |-> <<devices + 1, 1>>]]
    <3>1. <<devices + 1, 1>> \in Pairs
      BY <1>0, <2>2 DEF Pairs, Devices
    <3> QED BY <1>0, <1>1, <2>1, <2>2, <3>1
  <2>3. CASE signIn' = [signIn EXCEPT ![t] = Idle]
    BY <1>0, <2>1, <2>3, IdleIsFlight
  <2> QED BY <1>10, <2>2, <2>3 DEF Issue
<1> QED BY <1>3, <1>5, <1>6, <1>7, <1>8, <1>9, <1>10 DEF Next

\* What a page shows and what its calls came to.
LEMMA PagesStep == TypeOK /\ [Next]_vars => PagesOK'
<1> SUFFICES ASSUME TypeOK, [Next]_vars PROVE PagesOK'
  OBVIOUS
<1> DEFINE StatusOK == status \in [Tabs -> Statuses]
           DueOK == due \in [Tabs -> {"none", "set", "ripe"}]
           KeeperOK == keeper \in [Tabs -> BOOLEAN]
           CallOK == call \in [Calls -> [at : CallStates, pair : Pairs]]
<1>0. /\ StatusOK /\ DueOK /\ KeeperOK /\ CallOK
      /\ FlightsOK /\ jar \in Pairs /\ NoPair \in Pairs
      /\ TabOf \in [Calls -> Tabs]
  BY SessionAssumption, IdleIsFlight DEF TypeOK, PagesOK, RowsOK
<1>1. \A s \in Statuses : AfterUnauthenticated(s) \in Statuses
  BY DEF AfterUnauthenticated, Statuses
<1>2. \A t \in Tabs, ok \in BOOLEAN : \A p \in Pairs : Released(t, ok, p) => CallOK'
  BY <1>0 DEF Released, CallStates
<1>3. StatusOK'
  <2> USE DEF Statuses
  <2>1. ASSUME UNCHANGED status PROVE StatusOK'
    BY <1>0, <2>1
  <2>2. CASE UNCHANGED vars \/ TimerRipens
    BY <2>1, <2>2 DEF vars, pages, TimerRipens
  <2>3. ASSUME NEW t \in Tabs, Open(t) \/ Close(t) \/ Refreshed(t) \/ RefreshRefused(t) \/ KeeperAsks(t) \/ SignedIn(t)
        PROVE  StatusOK'
    <3>1. \A s \in Statuses : status' = [status EXCEPT ![t] = s] => StatusOK'
      BY <1>0
    <3>2. AfterUnauthenticated(status[t]) \in Statuses /\ {"closed", "unknown", "live"} \subseteq Statuses
      BY <1>0, <1>1
    <3>3. CASE KeeperAsks(t)
      BY <3>1, <3>2, <3>3 DEF KeeperAsks
    <3>4. CASE RefreshRefused(t)
      BY <3>1, <3>2, <3>4 DEF RefreshRefused
    <3>5. CASE Open(t) \/ Close(t) \/ Refreshed(t)
      BY <3>1, <3>2, <3>5 DEF Open, Close, Refreshed
    <3>6. CASE SignedIn(t)
      BY <2>1, <3>1, <3>2, <3>6 DEF SignedIn
    <3> QED BY <2>3, <3>3, <3>4, <3>5, <3>6
  <2>4. ASSUME NEW t \in Tabs, Timer(t) \/ Refresh(t) \/ RefreshLost(t) \/ SignIn(t) \/ Issue(t)
        PROVE  StatusOK'
    BY <2>1, <2>4 DEF Timer, Refresh, RefreshLost, SignIn, Issue
  <2>5. ASSUME NEW c \in Calls, Call(c) \/ Guard(c) \/ Repair(c)
        PROVE  StatusOK'
    BY <2>1, <2>5 DEF Call, Guard, Repair
  <2>6. ASSUME NEW d \in Devices, DeviceTokenDies(d) \/ RefreshTokenDies(d) \/ Revoke(d)
        PROVE  StatusOK'
    BY <2>1, <2>6 DEF pages, DeviceTokenDies, RefreshTokenDies, Revoke
  <2> HIDE DEF StatusOK
  <2> QED BY <2>2, <2>3, <2>4, <2>5, <2>6 DEF Next
<1>4. DueOK'
  <2>1. ASSUME UNCHANGED due PROVE DueOK'
    BY <1>0, <2>1
  <2>2. CASE UNCHANGED vars \/ TimerRipens
    BY <1>0, <2>1, <2>2 DEF vars, pages, TimerRipens
  <2>3. ASSUME NEW t \in Tabs, Close(t) \/ Timer(t) \/ Refreshed(t) \/ RefreshRefused(t) \/ RefreshLost(t) \/ SignedIn(t)
        PROVE  DueOK'
    BY <1>0, <2>3 DEF Timer, Close, Refreshed, RefreshRefused, RefreshLost, SignedIn
  <2>4. ASSUME NEW t \in Tabs, Open(t) \/ Refresh(t) \/ KeeperAsks(t) \/ SignIn(t) \/ Issue(t)
        PROVE  DueOK'
    BY <2>1, <2>4 DEF Open, Refresh, KeeperAsks, SignIn, Issue
  <2>5. ASSUME NEW c \in Calls, Call(c) \/ Guard(c) \/ Repair(c)
        PROVE  DueOK'
    BY <2>1, <2>5 DEF Call, Guard, Repair
  <2>6. ASSUME NEW d \in Devices, DeviceTokenDies(d) \/ RefreshTokenDies(d) \/ Revoke(d)
        PROVE  DueOK'
    BY <2>1, <2>6 DEF pages, DeviceTokenDies, RefreshTokenDies, Revoke
  <2> HIDE DEF DueOK
  <2> QED BY <2>2, <2>3, <2>4, <2>5, <2>6 DEF Next
<1>5. KeeperOK'
  <2>1. ASSUME UNCHANGED keeper PROVE KeeperOK'
    BY <1>0, <2>1
  <2>2. CASE UNCHANGED vars \/ TimerRipens
    BY <2>1, <2>2 DEF vars, pages, TimerRipens
  <2>3. ASSUME NEW t \in Tabs, keeper' = [keeper EXCEPT ![t] = TRUE] \/ keeper' = [keeper EXCEPT ![t] = FALSE]
        PROVE  KeeperOK'
    BY <1>0, <2>3
  <2>4. ASSUME NEW t \in Tabs, Open(t) \/ Close(t) \/ Refreshed(t) \/ KeeperAsks(t)
        PROVE  KeeperOK'
    BY <2>3, <2>4 DEF Open, Close, Refreshed, KeeperAsks
  <2>5. ASSUME NEW t \in Tabs, Timer(t) \/ Refresh(t) \/ RefreshRefused(t) \/ RefreshLost(t) \/ SignIn(t) \/ Issue(t) \/ SignedIn(t)
        PROVE  KeeperOK'
    <3>1. UNCHANGED keeper
      BY <2>5 DEF Timer, Refresh, RefreshRefused, RefreshLost, SignIn, Issue, SignedIn
    <3> QED BY <2>1, <3>1
  <2>6. ASSUME NEW c \in Calls, Call(c) \/ Guard(c) \/ Repair(c)
        PROVE  KeeperOK'
    BY <2>1, <2>6 DEF Call, Guard, Repair
  <2>7. ASSUME NEW d \in Devices, DeviceTokenDies(d) \/ RefreshTokenDies(d) \/ Revoke(d)
        PROVE  KeeperOK'
    BY <2>1, <2>7 DEF pages, DeviceTokenDies, RefreshTokenDies, Revoke
  <2> HIDE DEF KeeperOK
  <2> QED BY <2>2, <2>4, <2>5, <2>6, <2>7 DEF Next
<1>6. CallOK'
  <2>1. ASSUME UNCHANGED call PROVE CallOK'
    BY <1>0, <2>1
  <2>2. CASE UNCHANGED vars \/ TimerRipens
    BY <2>1, <2>2 DEF vars, pages, TimerRipens
  <2>3. ASSUME NEW t \in Tabs, Refreshed(t) \/ RefreshRefused(t) \/ RefreshLost(t)
        PROVE  CallOK'
    <3>1. refresh[t].pair \in Pairs
      BY <1>0 DEF FlightsOK, Flights
    <3>2. Released(t, TRUE, refresh[t].pair) \/ Released(t, FALSE, NoPair)
      BY <2>3 DEF Refreshed, RefreshRefused, RefreshLost
    <3> HIDE DEF CallOK
    <3> QED BY <1>0, <1>2, <3>1, <3>2
  <2>4. ASSUME NEW t \in Tabs, Open(t) \/ Timer(t) \/ Refresh(t) \/ KeeperAsks(t) \/ SignIn(t) \/ Issue(t) \/ SignedIn(t)
        PROVE  CallOK'
    BY <2>1, <2>4 DEF Open, Timer, Refresh, KeeperAsks, SignIn, Issue, SignedIn
  <2>5. ASSUME NEW t \in Tabs, Close(t)
        PROVE  CallOK'
    BY <1>0, <2>5 DEF Close, CallStates
  <2>6. ASSUME NEW c \in Calls, Call(c) \/ Guard(c) \/ Repair(c)
        PROVE  CallOK'
    BY <1>0, <2>6 DEF Call, Guard, Repair, CallStates
  <2>7. ASSUME NEW d \in Devices, DeviceTokenDies(d) \/ RefreshTokenDies(d) \/ Revoke(d)
        PROVE  CallOK'
    BY <2>1, <2>7 DEF pages, DeviceTokenDies, RefreshTokenDies, Revoke
  <2> HIDE DEF CallOK
  <2> QED BY <2>2, <2>3, <2>4, <2>5, <2>6, <2>7 DEF Next
<1> QED BY <1>3, <1>4, <1>5, <1>6 DEF PagesOK

\* The bounds on what may go wrong are kept.
LEMMA BudgetsStep ==
    TypeOK /\ [Next]_vars => events' \in 0 .. MaxEvents /\ openings' \in 0 .. MaxOpenings
<1> SUFFICES ASSUME TypeOK, [Next]_vars
             PROVE  events' \in 0 .. MaxEvents /\ openings' \in 0 .. MaxOpenings
  OBVIOUS
<1>0. /\ MaxEvents \in Nat /\ MaxOpenings \in Nat
      /\ events \in 0 .. MaxEvents /\ openings \in 0 .. MaxOpenings
  BY SessionAssumption DEF TypeOK
<1>1. events' = events \/ (events < MaxEvents /\ events' = events + 1)
  BY DEF Next, vars, budgets, Open, Close, Timer, Refresh, Refreshed, RefreshRefused, RefreshLost,
         KeeperAsks, SignIn, Issue, SignedIn, Call, Guard, Repair, TimerRipens, StoreFails,
         DeviceTokenDies, RefreshTokenDies, Revoke
<1>2. openings' = openings \/ (openings < MaxOpenings /\ openings' = openings + 1)
  BY DEF Next, vars, budgets, Open, Close, Timer, Refresh, Refreshed, RefreshRefused, RefreshLost,
         KeeperAsks, SignIn, Issue, SignedIn, Call, Guard, Repair, TimerRipens,
         DeviceTokenDies, RefreshTokenDies, Revoke
<1> QED BY <1>0, <1>1, <1>2

(* Every variable stays in its range, whatever the pages, the Gateway and the *)
(* network do (sessions.db's rows, the cookie jar, the requests in flight).   *)
THEOREM TypeCorrect == Spec => []TypeOK
<1>1. TypeOK /\ [Next]_vars => TypeOK'
  BY RowsStep, FlightsStep, PagesStep, BudgetsStep DEF TypeOK
<1> QED BY TypeInit, <1>1, PTL DEF Spec

-----------------------------------------------------------------------------
(* Who stays signed in.  SessionKept is not inductive by itself: a pair on    *)
(* its way must be the one its row stores (else its arrival would fill the    *)
(* jar with a dead pair), and it stays so because no other refresh was sent   *)
(* with it, so none can rotate its row before it arrives.                     *)

\* p was minted: by its device's sign-in or by a refresh since.
Minted(p) == p = NoPair \/ (p[1] \in 1 .. devices /\ p[2] <= rows[p[1]].n)

\* p is the pair its device's row stores.
Stored(p) == p[1] \in 1 .. devices /\ p[2] = rows[p[1]].n

Arriving(f) == f.at = "ok"
Presented(f) == f.at \in {"sent", "ok"}

AllMinted == Minted(jar) /\ \A t \in Tabs : Minted(refresh[t].pair)

ArrivingStored ==
    \A t \in Tabs : /\ Arriving(refresh[t]) => Stored(refresh[t].pair)
                    /\ Arriving(signIn[t]) => Stored(signIn[t].pair)

\* A pair on its way is nobody else's yet: not the jar's, not another request's.
Unshared ==
    \A t \in Tabs :
        /\ Arriving(refresh[t]) =>
              /\ refresh[t].pair # jar
              /\ \A u \in Tabs \ {t} : Presented(refresh[u]) => refresh[u].pair # refresh[t].pair
        /\ Arriving(signIn[t]) =>
              /\ signIn[t].pair # jar
              /\ \A u \in Tabs : Presented(refresh[u]) => refresh[u].pair # signIn[t].pair
              /\ \A u \in Tabs \ {t} : Arriving(signIn[u]) => signIn[u].pair # signIn[t].pair

SessionInv == AllMinted /\ ArrivingStored /\ Unshared /\ SessionKept

\* What the proofs below use of the types.
LEMMA Shapes ==
    TypeOK => /\ MaxDevices \in Nat /\ devices \in 0 .. MaxDevices /\ jar \in Pairs
              /\ rows \in [Devices -> [n : Nat, fresh : BOOLEAN, alive : BOOLEAN, revoked : BOOLEAN]]
              /\ refresh \in [Tabs -> Flights] /\ signIn \in [Tabs -> Flights]
              /\ \A t \in Tabs : refresh[t].pair \in Pairs /\ signIn[t].pair \in Pairs
              /\ \A d \in 1 .. devices : d \in Devices /\ rows[d].n \in Nat
<1> SUFFICES ASSUME TypeOK
             PROVE  /\ MaxDevices \in Nat /\ devices \in 0 .. MaxDevices /\ jar \in Pairs
                    /\ rows \in [Devices -> [n : Nat, fresh : BOOLEAN, alive : BOOLEAN, revoked : BOOLEAN]]
                    /\ refresh \in [Tabs -> Flights] /\ signIn \in [Tabs -> Flights]
                    /\ \A t \in Tabs : refresh[t].pair \in Pairs /\ signIn[t].pair \in Pairs
                    /\ \A d \in 1 .. devices : d \in Devices /\ rows[d].n \in Nat
  OBVIOUS
<1>1. MaxDevices \in Nat /\ devices \in 0 .. MaxDevices /\ jar \in Pairs
  BY SessionAssumption DEF TypeOK, RowsOK
<1>2. rows \in [Devices -> [n : Nat, fresh : BOOLEAN, alive : BOOLEAN, revoked : BOOLEAN]]
  BY DEF TypeOK, RowsOK
<1>3. refresh \in [Tabs -> Flights] /\ signIn \in [Tabs -> Flights]
  BY DEF TypeOK, FlightsOK
<1>4. \A t \in Tabs : refresh[t].pair \in Pairs /\ signIn[t].pair \in Pairs
  BY <1>3 DEF Flights
<1>5. \A d \in 1 .. devices : d \in Devices /\ rows[d].n \in Nat
  BY <1>1, <1>2 DEF Devices
<1> QED BY <1>1, <1>2, <1>3, <1>4, <1>5

\* A pair is its two parts.
LEMMA PairParts == \A p \in Pairs : p = <<p[1], p[2]>> /\ p[2] \in Nat /\ (p = NoPair \/ p[1] \in Devices)
BY DEF Pairs, NoPair

\* The jar's device is reached by the jar or by a request of some page.
LEMMA ReachedBy ==
    ASSUME NEW d
    PROVE  Reachable(d) <=>
             \/ jar = <<d, rows[d].n>>
             \/ \E t \in Tabs : \/ Arriving(refresh[t]) /\ refresh[t].pair = <<d, rows[d].n>>
                                \/ Arriving(signIn[t]) /\ signIn[t].pair = <<d, rows[d].n>>
BY DEF Reachable, Arriving

\* A step that only ends requests, starts sign-ins or ages a row keeps the invariant,
\* provided it owns up to the issued pairs it drops.
LEMMA EndingKeeps ==
    ASSUME TypeOK, SessionInv, devices' = devices, jar' = jar,
           \A d \in Devices : rows'[d].n = rows[d].n,
           stranded \subseteq stranded',
           \A t \in Tabs :
              \/ refresh'[t] = refresh[t]
              \/ /\ ~Presented(refresh'[t])
                 /\ refresh'[t].pair \in {refresh[t].pair, NoPair}
                 /\ Arriving(refresh[t]) => refresh[t].pair[1] \in stranded',
           \A t \in Tabs :
              \/ signIn'[t] = signIn[t]
              \/ /\ ~Arriving(signIn'[t])
                 /\ Arriving(signIn[t]) => signIn[t].pair[1] \in stranded'
    PROVE  SessionInv'
<1> USE Shapes
<1>0. \A p : (Minted(p) => Minted(p)') /\ (Stored(p) => Stored(p)')
  BY DEF Minted, Stored
<1>1. AllMinted'
  BY <1>0 DEF SessionInv, AllMinted, Minted
<1>2. ArrivingStored'
  BY <1>0 DEF SessionInv, ArrivingStored, Arriving, Presented
<1>3. Unshared'
  BY DEF SessionInv, Unshared, Arriving, Presented
<1>4. SessionKept'
  <2> SUFFICES ASSUME jar # NoPair, jar[1] \notin stranded'
               PROVE  Reachable(jar[1])'
    BY DEF SessionKept
  <2> DEFINE d == jar[1]
  <2>1. Reachable(d) /\ d \in Devices
    BY PairParts DEF SessionInv, SessionKept
  <2>2. rows'[d].n = rows[d].n
    BY <2>1
  <2>3. CASE jar = <<d, rows[d].n>>
    BY <2>2, <2>3 DEF Reachable
  <2>4. ASSUME NEW t \in Tabs, Arriving(refresh[t]), refresh[t].pair = <<d, rows[d].n>>
        PROVE  Reachable(d)'
    <3>1. refresh'[t] = refresh[t]
      BY <2>4
    <3> QED BY <2>2, <2>4, <3>1 DEF Reachable, Arriving
  <2>5. ASSUME NEW t \in Tabs, Arriving(signIn[t]), signIn[t].pair = <<d, rows[d].n>>
        PROVE  Reachable(d)'
    <3>1. signIn'[t] = signIn[t]
      BY <2>5
    <3> QED BY <2>2, <2>5, <3>1 DEF Reachable, Arriving
  <2>6. \/ jar = <<d, rows[d].n>>
        \/ \E t \in Tabs : \/ Arriving(refresh[t]) /\ refresh[t].pair = <<d, rows[d].n>>
                           \/ Arriving(signIn[t]) /\ signIn[t].pair = <<d, rows[d].n>>
    BY <2>1, ReachedBy
  <2>7. Reachable(d)'
    BY <2>3, <2>4, <2>5, <2>6
  <2> QED BY <2>7
<1> QED BY <1>1, <1>2, <1>3, <1>4 DEF SessionInv

\* Asking for a refresh presents the jar's pair, which no request is bringing.
LEMMA AskingKeeps ==
    ASSUME TypeOK, SessionInv, NEW t \in Tabs, Asked(t),
           UNCHANGED <<rows, devices, jar, signIn, stranded>>
    PROVE  SessionInv'
<1> USE Shapes
<1>1. CASE refresh' = refresh
  BY <1>1, EndingKeeps
<1>2. CASE /\ refresh[t].at = "idle"
           /\ refresh' = [refresh EXCEPT ![t] = [at |-> "sent", pair |-> jar]]
  <2>1. /\ refresh'[t] = [at |-> "sent", pair |-> jar]
        /\ \A u \in Tabs \ {t} : refresh'[u] = refresh[u]
    BY <1>2
  <2>2. ~Arriving(refresh[t]) /\ ~Arriving(refresh'[t])
    BY <1>2, <2>1 DEF Arriving
  <2>3. AllMinted'
    BY <2>1 DEF SessionInv, AllMinted, Minted
  <2>4. ArrivingStored'
    BY <2>1, <2>2 DEF SessionInv, ArrivingStored, Arriving, Stored
  <2>5. Unshared'
    BY <2>1, <2>2 DEF SessionInv, Unshared, Arriving, Presented
  <2>6. SessionKept'
    <3>1. \A d : Reachable(d) => Reachable(d)'
      BY <2>1, <2>2 DEF Reachable, Arriving
    <3> QED BY <3>1 DEF SessionInv, SessionKept
  <2> QED BY <2>3, <2>4, <2>5, <2>6 DEF SessionInv
<1> QED BY <1>1, <1>2 DEF Asked

\* The rotation: the new pair is on its way, and no other of that device is.
LEMMA RotatingKeeps ==
    ASSUME TypeOK, SessionInv, NEW t \in Tabs, Rotates(t)
    PROVE  SessionInv'
<1> USE Shapes
<1>0. PICK p \in Pairs : p = refresh[t].pair
  OBVIOUS
<1> DEFINE q == <<p[1], p[2] + 1>>
<1>1. /\ p[1] \in 1 .. devices /\ p[1] \in Devices /\ p[2] = rows[p[1]].n /\ p[2] \in Nat
      /\ p = <<p[1], p[2]>>
  BY <1>0, PairParts DEF Rotates, Refreshable
<1>2. UNCHANGED <<devices, jar, signIn, stranded>>
  BY DEF Rotates
<1>3. /\ rows'[p[1]].n = p[2] + 1
      /\ \A d \in Devices \ {p[1]} : rows'[d].n = rows[d].n
  BY <1>0, <1>1 DEF Rotates
<1>4. /\ refresh'[t] = [at |-> "ok", pair |-> q]
      /\ \A u \in Tabs \ {t} : refresh'[u] = refresh[u]
  BY <1>0, <1>1 DEF Rotates
<1>5. \A r \in Pairs : Minted(r) => Minted(r)' /\ r # q
  <2> SUFFICES ASSUME NEW r \in Pairs, Minted(r)
               PROVE  Minted(r)' /\ r # q
    OBVIOUS
  <2>1. CASE r = NoPair
    BY <1>1, <2>1 DEF Minted, NoPair
  <2>2. CASE r # NoPair
    <3>1. r[1] \in 1 .. devices /\ r[1] \in Devices /\ r[2] \in Nat /\ r[2] <= rows[r[1]].n
      BY <2>2, PairParts DEF Minted
    <3>2. CASE r[1] = p[1]
      BY <1>1, <1>2, <1>3, <3>1, <3>2 DEF Minted
    <3>3. CASE r[1] # p[1]
      BY <1>1, <1>2, <1>3, <3>1, <3>3 DEF Minted
    <3> QED BY <3>2, <3>3
  <2> QED BY <2>1, <2>2
<1>6. \A r \in Pairs : Stored(r) /\ r # p => Stored(r)' /\ r[1] # p[1]
  BY <1>1, <1>2, <1>3, PairParts DEF Stored
<1>7. Minted(q)' /\ Stored(q)'
  BY <1>1, <1>2, <1>3 DEF Minted, Stored
<1>8. /\ \A u \in Tabs \ {t} : Arriving(refresh[u]) => refresh[u].pair # p
      /\ \A u \in Tabs : Arriving(signIn[u]) => signIn[u].pair # p
  BY <1>0 DEF Rotates, SessionInv, Unshared, Presented
<1>9. AllMinted'
  BY <1>2, <1>4, <1>5, <1>7 DEF SessionInv, AllMinted
<1>10. ArrivingStored'
  <2>1. ASSUME NEW u \in Tabs, Arriving(refresh'[u])
        PROVE  Stored(refresh[u].pair)'
    <3>1. CASE u = t
      BY <1>4, <1>7, <2>1, <3>1
    <3>2. CASE u # t
      <4>1. PICK r \in Pairs : r = refresh[u].pair /\ refresh'[u].pair = r
        BY <1>4, <3>2
      <4>2. Stored(r) /\ r # p
        BY <1>4, <1>8, <2>1, <3>2, <4>1 DEF SessionInv, ArrivingStored
      <4>3. Stored(r)'
        BY <1>6, <4>2
      <4> QED BY <4>1, <4>3
    <3> QED BY <3>1, <3>2
  <2>2. ASSUME NEW u \in Tabs, Arriving(signIn[u])
        PROVE  Stored(signIn[u].pair)'
    <3>1. PICK r \in Pairs : r = signIn[u].pair /\ signIn'[u].pair = r
      BY <1>2
    <3>2. Stored(r) /\ r # p
      BY <1>8, <2>2, <3>1 DEF SessionInv, ArrivingStored
    <3>3. Stored(r)'
      BY <1>6, <3>2
    <3> QED BY <3>1, <3>3
  <2> QED BY <1>2, <2>1, <2>2 DEF ArrivingStored
<1>11. Unshared'
  <2>1. jar # q /\ \A u \in Tabs : refresh[u].pair # q
    BY <1>5 DEF SessionInv, AllMinted
  <2>2. \A u \in Tabs : Arriving(signIn[u]) => signIn[u].pair # q
    <3> SUFFICES ASSUME NEW u \in Tabs, Arriving(signIn[u])
                 PROVE  signIn[u].pair # q
      OBVIOUS
    <3>1. Stored(signIn[u].pair)
      BY DEF SessionInv, ArrivingStored
    <3>2. Minted(signIn[u].pair)
      BY <3>1 DEF Stored, Minted
    <3> QED BY <1>5, <3>2
  <2> QED BY <1>2, <1>4, <2>1, <2>2 DEF SessionInv, Unshared, Arriving, Presented
<1>12. SessionKept'
  <2> SUFFICES ASSUME jar # NoPair, jar[1] \notin stranded
               PROVE  Reachable(jar[1])'
    BY <1>2 DEF SessionKept
  <2>0. PICK d : d = jar[1] /\ d = jar'[1]
    BY <1>2
  <2>1. CASE d = p[1]
    BY <1>3, <1>4, <2>0, <2>1 DEF Reachable
  <2>2. CASE d # p[1]
    <3>1. d \in Devices /\ rows'[d].n = rows[d].n /\ Reachable(d)
      BY <1>3, <2>0, <2>2, PairParts DEF SessionInv, SessionKept
    <3>2. ASSUME jar = <<d, rows[d].n>>
          PROVE  Reachable(d)'
      BY <1>2, <3>1, <3>2 DEF Reachable
    <3>3. ASSUME NEW u \in Tabs, Arriving(refresh[u]), refresh[u].pair = <<d, rows[d].n>>
          PROVE  Reachable(d)'
      <4>1. refresh'[u] = refresh[u]
        BY <1>4, <3>3 DEF Rotates, Arriving
      <4> QED BY <3>1, <3>3, <4>1 DEF Reachable, Arriving
    <3>4. ASSUME NEW u \in Tabs, Arriving(signIn[u]), signIn[u].pair = <<d, rows[d].n>>
          PROVE  Reachable(d)'
      BY <1>2, <3>1, <3>4 DEF Reachable, Arriving
    <3>5. \/ jar = <<d, rows[d].n>>
          \/ \E u \in Tabs : Arriving(refresh[u]) /\ refresh[u].pair = <<d, rows[d].n>>
          \/ \E u \in Tabs : Arriving(signIn[u]) /\ signIn[u].pair = <<d, rows[d].n>>
      BY <3>1, ReachedBy
    <3>6. Reachable(d)'
      BY <3>2, <3>3, <3>4, <3>5
    <3> QED BY <2>0, <3>6
  <2> QED BY <2>1, <2>2
<1> QED BY <1>9, <1>10, <1>11, <1>12 DEF SessionInv

\* An answer: the pair it brings is the one its row stores, and is the jar's now.
LEMMA ArrivingKeeps ==
    ASSUME TypeOK, SessionInv, NEW t \in Tabs, NEW j \in Pairs, jar' = j,
           UNCHANGED <<rows, devices, stranded>>,
           \/ /\ Arriving(refresh[t]) /\ j = refresh[t].pair
              /\ refresh' = [refresh EXCEPT ![t] = Idle] /\ signIn' = signIn
           \/ /\ Arriving(signIn[t]) /\ j = signIn[t].pair
              /\ signIn' = [signIn EXCEPT ![t] = Idle] /\ refresh' = refresh
    PROVE  SessionInv'
<1> USE Shapes
<1>1. Stored(j) /\ Stored(j)' /\ Minted(j)'
  BY DEF SessionInv, ArrivingStored, Stored, Minted
<1>2. \A u \in Tabs : /\ \/ refresh'[u] = refresh[u]
                         \/ u = t /\ refresh'[u] = Idle /\ j = refresh[t].pair
                      /\ \/ signIn'[u] = signIn[u]
                         \/ u = t /\ signIn'[u] = Idle /\ j = signIn[t].pair
  OBVIOUS
<1>3. ~Arriving(Idle) /\ ~Presented(Idle)
  BY DEF Idle, Arriving, Presented
<1>4. AllMinted'
  BY <1>1, <1>2 DEF SessionInv, AllMinted, Minted, Idle
<1>5. ArrivingStored'
  BY <1>2, <1>3 DEF SessionInv, ArrivingStored, Stored
<1>6. Unshared'
  <2>1. CASE Arriving(refresh[t]) /\ j = refresh[t].pair
             /\ refresh' = [refresh EXCEPT ![t] = Idle] /\ signIn' = signIn
    BY <1>3, <2>1 DEF SessionInv, Unshared, Arriving, Presented, Idle
  <2>2. CASE Arriving(signIn[t]) /\ j = signIn[t].pair
             /\ signIn' = [signIn EXCEPT ![t] = Idle] /\ refresh' = refresh
    BY <1>3, <2>2 DEF SessionInv, Unshared, Arriving, Presented, Idle
  <2> QED BY <2>1, <2>2
<1>7. SessionKept'
  BY <1>1, PairParts DEF SessionKept, Reachable, Stored
<1> QED BY <1>4, <1>5, <1>6, <1>7 DEF SessionInv

LEMMA SessionInit == Init => SessionInv
<1> SUFFICES ASSUME Init PROVE SessionInv
  OBVIOUS
<1>1. jar = NoPair /\ \A t \in Tabs : refresh[t] = Idle /\ signIn[t] = Idle
  BY DEF Init
<1>2. AllMinted
  BY <1>1 DEF AllMinted, Minted, Idle
<1>3. ArrivingStored /\ Unshared
  BY <1>1 DEF ArrivingStored, Unshared, Arriving, Idle
<1>4. SessionKept
  BY <1>1 DEF SessionKept
<1> QED BY <1>2, <1>3, <1>4 DEF SessionInv

\* Every step keeps the invariant.
LEMMA SessionStep == TypeOK /\ SessionInv /\ [Next]_vars => SessionInv'
<1> SUFFICES ASSUME TypeOK, SessionInv, [Next]_vars PROVE SessionInv'
  OBVIOUS
<1> USE Shapes
<1>1. ASSUME UNCHANGED <<devices, jar, refresh, signIn, stranded>>,
             \A d \in Devices : rows'[d].n = rows[d].n
      PROVE  SessionInv'
  BY <1>1, EndingKeeps
<1>2. CASE \/ UNCHANGED vars \/ TimerRipens
           \/ \E t \in Tabs : KeeperAsks(t)
           \/ \E c \in Calls : Call(c) \/ Guard(c)
  BY <1>1, <1>2 DEF vars, pages, TimerRipens, KeeperAsks, Call, Guard
<1>3. ASSUME NEW d \in Devices, DeviceTokenDies(d) \/ RefreshTokenDies(d) \/ Revoke(d)
      PROVE  SessionInv'
  <2>1. \A e \in Devices : rows'[e].n = rows[e].n
    BY <1>3 DEF DeviceTokenDies, RefreshTokenDies, Revoke
  <2> QED BY <1>1, <1>3, <2>1 DEF pages, DeviceTokenDies, RefreshTokenDies, Revoke
<1>4. ASSUME NEW t \in Tabs, Open(t) \/ Timer(t)
      PROVE  SessionInv'
  BY <1>4, AskingKeeps DEF Open, Timer
<1>5. ASSUME NEW c \in Calls, Repair(c)
      PROVE  SessionInv'
  BY <1>1, <1>5, AskingKeeps, SessionAssumption DEF Repair
<1>6. ~Arriving(Idle) /\ ~Presented(Idle) /\ Idle.pair = NoPair
  BY DEF Idle, Arriving, Presented
<1>7. ASSUME NEW t \in Tabs, Close(t)
      PROVE  SessionInv'
  <2>1. /\ Arriving(refresh[t]) => refresh[t].pair[1] \in stranded'
        /\ Arriving(signIn[t]) => signIn[t].pair[1] \in stranded'
        /\ stranded \subseteq stranded'
    BY <1>7 DEF Close, Arriving
  <2> QED BY <1>6, <1>7, <2>1, EndingKeeps DEF Close
<1>8. ASSUME NEW t \in Tabs, RefreshRefused(t)
      PROVE  SessionInv'
  BY <1>6, <1>8, EndingKeeps DEF RefreshRefused, Arriving
<1>9. ASSUME NEW t \in Tabs, RefreshLost(t)
      PROVE  SessionInv'
  <2>1. /\ Arriving(refresh[t]) => refresh[t].pair[1] \in stranded'
        /\ stranded \subseteq stranded'
    BY <1>9 DEF RefreshLost, Arriving
  <2> QED BY <1>6, <1>9, <2>1, EndingKeeps DEF RefreshLost
<1>10. ASSUME NEW t \in Tabs, Refresh(t)
       PROVE  SessionInv'
  <2>1. CASE Rotates(t)
    BY <2>1, RotatingKeeps
  <2>2. ASSUME NEW w \in {"refused", "failed"}, Declines(t),
               refresh' = [refresh EXCEPT ![t].at = w]
        PROVE  SessionInv'
    <3>1. UNCHANGED <<rows, devices, jar, signIn, stranded>> /\ ~Arriving(refresh[t])
      BY <2>2 DEF Declines, Arriving
    <3>2. ~Presented(refresh'[t]) /\ refresh'[t].pair = refresh[t].pair
      BY <2>2 DEF Flights, Presented
    <3> QED BY <2>2, <3>1, <3>2, EndingKeeps
  <2> QED BY <1>10, <2>1, <2>2, RefreshCases DEF Declines
<1>11. ASSUME NEW t \in Tabs, Refreshed(t)
       PROVE  SessionInv'
  BY <1>11, ArrivingKeeps DEF Refreshed, Arriving
<1>12. ASSUME NEW t \in Tabs, SignIn(t)
       PROVE  SessionInv'
  <2>1. ~Arriving(signIn'[t]) /\ ~Arriving(signIn[t])
    BY <1>12 DEF SignIn, Arriving
  <2> QED BY <1>12, <2>1, EndingKeeps DEF SignIn
<1>13. ASSUME NEW t \in Tabs, SignedIn(t)
       PROVE  SessionInv'
  <2>1. /\ UNCHANGED <<rows, devices, refresh>> /\ Arriving(signIn[t])
        /\ signIn' = [signIn EXCEPT ![t] = Idle]
        /\ \/ jar' = signIn[t].pair /\ UNCHANGED stranded
           \/ UNCHANGED jar /\ stranded' = stranded \cup {signIn[t].pair[1]}
    BY <1>13 DEF SignedIn, Arriving
  <2>2. CASE jar' = signIn[t].pair /\ UNCHANGED stranded
    BY <2>1, <2>2, ArrivingKeeps
  <2>3. CASE UNCHANGED jar /\ stranded' = stranded \cup {signIn[t].pair[1]}
    BY <1>6, <2>1, <2>3, EndingKeeps
  <2> QED BY <2>1, <2>2, <2>3
<1>14. ASSUME NEW t \in Tabs, Issue(t)
       PROVE  SessionInv'
  <2>1. UNCHANGED <<jar, refresh, stranded>> /\ ~Arriving(signIn[t])
    BY <1>14 DEF Issue, Arriving
  <2>2. CASE signIn' = [signIn EXCEPT ![t] = Idle] /\ UNCHANGED <<rows, devices>>
    BY <1>6, <2>1, <2>2, EndingKeeps
  <2>3. CASE /\ devices < MaxDevices
             /\ devices' = devices + 1
             /\ rows' = [rows EXCEPT ![devices + 1] =
                   [n |-> 1, fresh |-> TRUE, alive |-> TRUE, revoked |-> FALSE]]
             /\ signIn' = [signIn EXCEPT ![t] = [at |-> "ok", pair |-> <<devices + 1, 1>>]]
    <3>1. PICK q \in Devices \X {1} : q = <<devices + 1, 1>>
      BY <2>3 DEF Devices
    <3>2. /\ signIn'[t] = [at |-> "ok", pair |-> q]
          /\ \A u \in Tabs \ {t} : signIn'[u] = signIn[u]
      BY <2>3, <3>1
    <3>3. /\ rows'[devices + 1].n = 1 /\ devices + 1 \in Devices
          /\ \A d \in 1 .. devices : rows'[d].n = rows[d].n /\ d \in 1 .. devices'
      BY <2>3 DEF Devices
    <3>4. /\ \A r \in Pairs : Minted(r) => Minted(r)' /\ r # q
          /\ \A r \in Pairs : Stored(r) => Stored(r)' /\ r # q
      <4>1. \A r \in Pairs : r # NoPair => r[1] \in Nat /\ r[2] \in Nat
        BY PairParts DEF Devices
      <4>2. ASSUME NEW r \in Pairs, Minted(r)
            PROVE  Minted(r)' /\ r # q
        <5>1. CASE r = NoPair
          BY <2>3, <3>1, <5>1 DEF Minted, NoPair
        <5>2. CASE r # NoPair
          BY <2>3, <3>1, <3>3, <4>1, <4>2, <5>2 DEF Minted
        <5> QED BY <5>1, <5>2
      <4>3. ASSUME NEW r \in Pairs, Stored(r)
            PROVE  Stored(r)' /\ r # q
        BY <2>3, <3>1, <3>3, <4>3 DEF Stored
      <4> QED BY <4>2, <4>3
    <3>5. Stored(q)'
      BY <2>3, <3>1, <3>3 DEF Stored
    <3>6. AllMinted'
      BY <2>1, <3>4 DEF SessionInv, AllMinted
    <3>7. ArrivingStored'
      <4>1. ASSUME NEW u \in Tabs, Arriving(refresh[u])
            PROVE  Stored(refresh[u].pair)'
        <5>1. PICK r \in Pairs : r = refresh[u].pair /\ refresh'[u].pair = r
          BY <2>1
        <5>2. Stored(r)'
          BY <3>4, <4>1, <5>1 DEF SessionInv, ArrivingStored
        <5> QED BY <5>1, <5>2
      <4>2. ASSUME NEW u \in Tabs, Arriving(signIn'[u])
            PROVE  Stored(signIn[u].pair)'
        <5>1. CASE u = t
          BY <3>2, <3>5, <5>1
        <5>2. CASE u # t
          <6>1. PICK r \in Pairs : r = signIn[u].pair /\ signIn'[u].pair = r
            BY <3>2, <5>2
          <6>2. Stored(r)'
            BY <3>2, <3>4, <4>2, <5>2, <6>1 DEF SessionInv, ArrivingStored
          <6> QED BY <6>1, <6>2
        <5> QED BY <5>1, <5>2
      <4> QED BY <2>1, <4>1, <4>2 DEF ArrivingStored
    <3>8. Unshared'
      <4>1. jar # q /\ \A u \in Tabs : refresh[u].pair # q
        BY <3>4 DEF SessionInv, AllMinted
      <4>2. \A u \in Tabs : Arriving(signIn[u]) => signIn[u].pair # q
        BY <3>4 DEF SessionInv, ArrivingStored
      <4> QED BY <2>1, <3>2, <4>1, <4>2 DEF SessionInv, Unshared, Arriving, Presented
    <3>9. SessionKept'
      <4> SUFFICES ASSUME jar # NoPair, jar[1] \notin stranded
                   PROVE  Reachable(jar[1])'
        BY <2>1 DEF SessionKept
      <4>1. PICK d \in 1 .. devices : d = jar[1] /\ d = jar'[1]
        BY <2>1 DEF SessionInv, AllMinted, Minted
      <4>2. Reachable(d) /\ rows'[d].n = rows[d].n
        BY <3>3, <4>1 DEF SessionInv, SessionKept
      <4>3. \A u \in Tabs : Arriving(signIn[u]) => signIn'[u] = signIn[u]
        BY <2>1, <3>2
      <4>4. Reachable(d)'
        BY <2>1, <4>2, <4>3 DEF Reachable, Arriving
      <4> QED BY <4>1, <4>4
    <3> QED BY <3>6, <3>7, <3>8, <3>9 DEF SessionInv
  <2> QED BY <1>14, <2>2, <2>3 DEF Issue
<1> QED BY <1>2, <1>3, <1>4, <1>5, <1>7, <1>8, <1>9, <1>10, <1>11, <1>12, <1>13, <1>14 DEF Next

(* The rotation never throws the browser out (session.rs:66-67 promises that  *)
(* only expiry does): with any number of pages refreshing at once and answers *)
(* in any order, the device in the jar stays within reach unless an issued    *)
(* pair was lost on its way.                                                  *)
THEOREM RotationKeepsTheSession == Spec => []SessionKept
<1>1. TypeOK /\ SessionInv /\ [Next]_vars => (TypeOK /\ SessionInv)'
  BY RowsStep, FlightsStep, PagesStep, BudgetsStep, SessionStep DEF TypeOK
<1>2. SessionInv => SessionKept
  BY DEF SessionInv
<1> QED BY TypeInit, SessionInit, <1>1, <1>2, PTL DEF Spec

-----------------------------------------------------------------------------
(* Why `expired` is true.  A refusal may be old when it arrives, but a pair    *)
(* that was refused once is refused for ever; and a page whose keeper has yet  *)
(* to conclude was never live.                                                 *)

RefusedForGood == \A t \in Tabs : refresh[t].at = "refused" => ~Refreshable(refresh[t].pair)

KeeperFirst ==
    \A t \in Tabs :
        /\ status[t] = "closed" => signIn[t].at = "idle"
        /\ keeper[t] => status[t] \notin {"live", "expired"} /\ signIn[t].at = "idle"

\* A pair that no longer refreshes never does again.
LEMMA SpentForGood ==
    ASSUME TypeOK, [Next]_vars, NEW p \in Pairs, Minted(p), ~Refreshable(p)
    PROVE  ~Refreshable(p)'
<1> USE Shapes
<1>1. ASSUME UNCHANGED <<rows, devices>>
      PROVE  ~Refreshable(p)'
  BY <1>1 DEF Refreshable
<1>2. CASE p = NoPair
  <2>1. ~(p[1] \in 1 .. devices')
    BY <1>2 DEF NoPair
  <2> QED BY <2>1 DEF Refreshable
<1>3. CASE p # NoPair
  <2>0. p[1] \in 1 .. devices /\ p[1] \in Devices /\ p[2] \in Nat /\ p[2] <= rows[p[1]].n
    BY <1>3, PairParts DEF Minted
  <2>1. CASE UNCHANGED vars \/ TimerRipens \/ \E c \in Calls : Call(c) \/ Guard(c) \/ Repair(c)
    BY <1>1, <2>1 DEF vars, pages, TimerRipens, Call, Guard, Repair
  <2>2. ASSUME NEW t \in Tabs,
               \/ Open(t) \/ Close(t) \/ Timer(t) \/ Refreshed(t) \/ RefreshRefused(t)
               \/ RefreshLost(t) \/ KeeperAsks(t) \/ SignIn(t) \/ SignedIn(t)
        PROVE  ~Refreshable(p)'
    BY <1>1, <2>2 DEF Open, Close, Timer, Refreshed, RefreshRefused, RefreshLost, KeeperAsks, SignIn, SignedIn
  <2>3. ASSUME NEW t \in Tabs, Refresh(t)
        PROVE  ~Refreshable(p)'
    <3>1. CASE UNCHANGED rows
      BY <1>1, <2>3, <3>1 DEF Refresh
    <3>2. CASE Rotates(t)
      <4> DEFINE d == refresh[t].pair[1]
      <4>1. d \in Devices /\ rows' = [rows EXCEPT ![d].n = @ + 1, ![d].fresh = TRUE]
        BY <3>2 DEF Rotates, Refreshable
      <4>2. CASE d = p[1]
        <5>1. rows'[p[1]].n = rows[p[1]].n + 1
          BY <4>1, <4>2
        <5> QED BY <2>0, <5>1 DEF Refreshable
      <4>3. CASE d # p[1]
        <5>1. rows'[p[1]] = rows[p[1]] /\ devices' = devices
          BY <2>0, <2>3, <4>1, <4>3 DEF Refresh
        <5> QED BY <2>0, <5>1 DEF Refreshable
      <4> QED BY <4>2, <4>3
    <3> QED BY <2>3, <3>1, <3>2, RefreshCases DEF Declines
  <2>4. ASSUME NEW t \in Tabs, Issue(t)
        PROVE  ~Refreshable(p)'
    <3>1. rows'[p[1]] = rows[p[1]]
      BY <2>0, <2>4 DEF Issue
    <3> QED BY <2>0, <3>1 DEF Refreshable
  <2>5. ASSUME NEW d \in Devices, DeviceTokenDies(d) \/ RefreshTokenDies(d) \/ Revoke(d)
        PROVE  ~Refreshable(p)'
    <3>1. devices' = devices /\ rows'[p[1]].n = rows[p[1]].n
      BY <2>0, <2>5 DEF DeviceTokenDies, RefreshTokenDies, Revoke
    <3>2. rows'[p[1]].alive => rows[p[1]].alive
      BY <2>0, <2>5 DEF DeviceTokenDies, RefreshTokenDies, Revoke
    <3>3. rows[p[1]].revoked => rows'[p[1]].revoked
      BY <2>0, <2>5 DEF DeviceTokenDies, RefreshTokenDies, Revoke
    <3> QED BY <2>0, <3>1, <3>2, <3>3 DEF Refreshable
  <2> QED BY <2>1, <2>2, <2>3, <2>4, <2>5 DEF Next
<1> QED BY <1>2, <1>3

\* Every refused request was made with a pair that is spent.
LEMMA RefusedStep ==
    TypeOK /\ SessionInv /\ RefusedForGood /\ [Next]_vars => RefusedForGood'
<1> SUFFICES ASSUME TypeOK, SessionInv, RefusedForGood, [Next]_vars,
                    NEW t \in Tabs, refresh'[t].at = "refused"
             PROVE  ~Refreshable(refresh[t].pair)'
  BY DEF RefusedForGood
<1> USE Shapes
<1>1. refresh'[t] = refresh[t]
      \/ (refresh'[t].pair = refresh[t].pair /\ ~Refreshable(refresh[t].pair))
  <2>1. Idle.at # "refused" /\ [at |-> "sent", pair |-> jar].at # "refused"
    BY DEF Idle
  <2>2. ASSUME UNCHANGED refresh
        PROVE  refresh'[t] = refresh[t]
    BY <2>2
  <2>3. ASSUME NEW u \in Tabs, Asked(u)
        PROVE  refresh'[t] = refresh[t]
    BY <2>1, <2>3 DEF Asked
  <2>4. ASSUME NEW u \in Tabs, refresh' = [refresh EXCEPT ![u] = Idle]
        PROVE  refresh'[t] = refresh[t]
    BY <2>1, <2>4
  <2>5. CASE UNCHANGED vars \/ TimerRipens \/ \E c \in Calls : Call(c) \/ Guard(c)
    BY <2>2, <2>5 DEF vars, pages, TimerRipens, Call, Guard
  <2>6. ASSUME NEW u \in Tabs, KeeperAsks(u) \/ SignIn(u) \/ Issue(u) \/ SignedIn(u)
        PROVE  refresh'[t] = refresh[t]
    BY <2>2, <2>6 DEF KeeperAsks, SignIn, Issue, SignedIn
  <2>7. ASSUME NEW d \in Devices, DeviceTokenDies(d) \/ RefreshTokenDies(d) \/ Revoke(d)
        PROVE  refresh'[t] = refresh[t]
    BY <2>2, <2>7 DEF pages, DeviceTokenDies, RefreshTokenDies, Revoke
  <2>8. ASSUME NEW u \in Tabs, Open(u) \/ Timer(u)
        PROVE  refresh'[t] = refresh[t]
    BY <2>3, <2>8 DEF Open, Timer
  <2>9. ASSUME NEW c \in Calls, Repair(c)
        PROVE  refresh'[t] = refresh[t]
    BY <2>2, <2>3, <2>9, SessionAssumption DEF Repair
  <2>10. ASSUME NEW u \in Tabs, Close(u) \/ Refreshed(u) \/ RefreshRefused(u) \/ RefreshLost(u)
         PROVE  refresh'[t] = refresh[t]
    BY <2>4, <2>10 DEF Close, Refreshed, RefreshRefused, RefreshLost
  <2>11. ASSUME NEW u \in Tabs, Refresh(u)
         PROVE  \/ refresh'[t] = refresh[t]
                \/ refresh'[t].pair = refresh[t].pair /\ ~Refreshable(refresh[t].pair)
    <3>1. CASE u # t
      BY <2>11, <3>1 DEF Refresh
    <3>2. CASE u = t /\ Rotates(t)
      BY <3>2 DEF Rotates
    <3>3. CASE u = t /\ Declines(t)
      BY <3>3 DEF Declines, Flights
    <3> QED BY <2>11, <3>1, <3>2, <3>3, RefreshCases
  <2> QED BY <2>5, <2>6, <2>7, <2>8, <2>9, <2>10, <2>11 DEF Next
<1>2. PICK p \in Pairs : p = refresh[t].pair /\ refresh'[t].pair = p
  BY <1>1
<1>3. Minted(p) /\ ~Refreshable(p)
  BY <1>1, <1>2 DEF SessionInv, AllMinted, RefusedForGood
<1>4. ~Refreshable(p)'
  BY <1>3, SpentForGood
<1> QED BY <1>2, <1>4

\* A page's keeper concludes before the page is ever live.
LEMMA KeeperStep == TypeOK /\ KeeperFirst /\ [Next]_vars => KeeperFirst'
<1> SUFFICES ASSUME TypeOK, KeeperFirst, [Next]_vars PROVE KeeperFirst'
  OBVIOUS
<1> USE Shapes DEF KeeperFirst
<1>0. /\ status \in [Tabs -> Statuses] /\ keeper \in [Tabs -> BOOLEAN]
      /\ Idle.at = "idle"
  BY DEF TypeOK, PagesOK, Idle
<1>1. ASSUME UNCHANGED <<status, keeper, signIn>>
      PROVE  KeeperFirst'
  BY <1>1
<1>2. CASE \/ UNCHANGED vars \/ TimerRipens
           \/ \E c \in Calls : Call(c) \/ Guard(c) \/ Repair(c)
           \/ \E d \in Devices : DeviceTokenDies(d) \/ RefreshTokenDies(d) \/ Revoke(d)
  BY <1>1, <1>2
  DEF vars, pages, TimerRipens, Call, Guard, Repair, DeviceTokenDies, RefreshTokenDies, Revoke
<1>3. ASSUME NEW t \in Tabs, Timer(t) \/ Refresh(t) \/ RefreshLost(t)
      PROVE  KeeperFirst'
  BY <1>1, <1>3 DEF Timer, Refresh, RefreshLost
<1>4. ASSUME NEW t \in Tabs, Open(t)
      PROVE  KeeperFirst'
  <2>1. /\ signIn[t].at = "idle" /\ signIn' = signIn
        /\ status' = [status EXCEPT ![t] = "unknown"] /\ keeper' = [keeper EXCEPT ![t] = TRUE]
    BY <1>4 DEF Open
  <2> QED BY <1>0, <2>1
<1>5. ASSUME NEW t \in Tabs, Close(t)
      PROVE  KeeperFirst'
  <2>1. /\ signIn' = [signIn EXCEPT ![t] = Idle]
        /\ status' = [status EXCEPT ![t] = "closed"] /\ keeper' = [keeper EXCEPT ![t] = FALSE]
    BY <1>5 DEF Close
  <2> QED BY <1>0, <2>1
<1>6. ASSUME NEW t \in Tabs, Refreshed(t)
      PROVE  KeeperFirst'
  <2>1. /\ signIn' = signIn
        /\ status' = [status EXCEPT ![t] = "live"] /\ keeper' = [keeper EXCEPT ![t] = FALSE]
    BY <1>6 DEF Refreshed
  <2> QED BY <1>0, <2>1
<1>7. ASSUME NEW t \in Tabs, RefreshRefused(t)
      PROVE  KeeperFirst'
  <2>1. /\ signIn' = signIn /\ keeper' = keeper
        /\ status' = [status EXCEPT ![t] = AfterUnauthenticated(@)]
    BY <1>7 DEF RefreshRefused
  <2>2. /\ AfterUnauthenticated(status[t]) # "closed"
        /\ status[t] \notin {"live", "expired"} => AfterUnauthenticated(status[t]) = "signed-out"
    BY DEF AfterUnauthenticated
  <2> QED BY <1>0, <2>1, <2>2
<1>8. ASSUME NEW t \in Tabs, KeeperAsks(t)
      PROVE  KeeperFirst'
  <2>1. /\ signIn' = signIn /\ keeper' = [keeper EXCEPT ![t] = FALSE]
        /\ \/ status' = [status EXCEPT ![t] = "live"]
           \/ status' = [status EXCEPT ![t] = AfterUnauthenticated(@)]
    BY <1>8 DEF KeeperAsks
  <2>2. status'[t] # "closed" /\ \A u \in Tabs \ {t} : status'[u] = status[u]
    BY <1>0, <2>1 DEF AfterUnauthenticated
  <2>3. ~keeper'[t] /\ \A u \in Tabs \ {t} : keeper'[u] = keeper[u]
    BY <1>0, <2>1
  <2> QED BY <2>1, <2>2, <2>3
<1>9. ASSUME NEW t \in Tabs, SignIn(t) \/ Issue(t) \/ SignedIn(t)
      PROVE  KeeperFirst'
  <2>1. ~keeper[t] /\ status[t] # "closed"
    BY <1>9 DEF SignIn, Issue, SignedIn
  <2>2. /\ keeper' = keeper /\ \A u \in Tabs \ {t} : signIn'[u] = signIn[u] /\ status'[u] = status[u]
        /\ status'[t] # "closed"
    BY <1>0, <1>9, <2>1 DEF SignIn, Issue, SignedIn
  <2> QED BY <2>1, <2>2
<1> QED BY <1>2, <1>3, <1>4, <1>5, <1>6, <1>7, <1>8, <1>9 DEF Next

\* Only a 401 to a refresh makes a live page say `expired`.
LEMMA ExpiringStep ==
    TypeOK /\ RefusedForGood /\ KeeperFirst /\ [Next]_vars =>
        \A t \in Tabs : status[t] = "live" /\ status'[t] = "expired"
            => ~Refreshable(refresh[t].pair) \/ refresh[t].at = "failed"
<1> SUFFICES ASSUME TypeOK, RefusedForGood, KeeperFirst, [Next]_vars,
                    NEW t \in Tabs, status[t] = "live", status'[t] = "expired"
             PROVE  ~Refreshable(refresh[t].pair) \/ refresh[t].at = "failed"
  OBVIOUS
<1>0. status \in [Tabs -> Statuses] /\ status'[t] # status[t]
  BY DEF TypeOK, PagesOK
<1>1. PICK u \in Tabs : Open(u) \/ Close(u) \/ Refreshed(u) \/ RefreshRefused(u) \/ KeeperAsks(u) \/ SignedIn(u)
  BY <1>0 DEF Next, vars, pages, Timer, Refresh, RefreshLost, SignIn, Issue, Call, Guard, Repair,
              TimerRipens, DeviceTokenDies, RefreshTokenDies, Revoke
<1>2. ~(Open(u) \/ Close(u) \/ Refreshed(u) \/ SignedIn(u))
  BY <1>0 DEF Open, Close, Refreshed, SignedIn
<1>3. ~KeeperAsks(u)
  <2>1. SUFFICES ASSUME KeeperAsks(u) PROVE FALSE
    OBVIOUS
  <2>2. u = t /\ keeper[u]
    BY <1>0, <2>1 DEF KeeperAsks
  <2> QED BY <2>2 DEF KeeperFirst
<1>4. u = t /\ refresh[t].at \in {"refused", "failed"}
  BY <1>0, <1>1, <1>2, <1>3 DEF RefreshRefused
<1> QED BY <1>4 DEF RefusedForGood

(* A live page says `expired` only after a 401 to a refresh of its own, and   *)
(* that one was of a session that is over, or that another page revived while *)
(* the refresh was in flight, or of a store that failed (noteUnauthenticated). *)
THEOREM ExpiredOnlyWhenOver == Spec => ExpiredIsTrue
<1> DEFINE Inv == TypeOK /\ SessionInv /\ RefusedForGood /\ KeeperFirst
<1>1. Init => Inv
  <2>1. Init => RefusedForGood /\ KeeperFirst
    BY DEF Init, RefusedForGood, KeeperFirst, Idle
  <2> QED BY TypeInit, SessionInit, <2>1
<1>2. Inv /\ [Next]_vars => Inv'
  BY RowsStep, FlightsStep, PagesStep, BudgetsStep, SessionStep, RefusedStep, KeeperStep DEF TypeOK
<1>3. Inv /\ [Next]_vars =>
        [\A t \in Tabs : status[t] = "live" /\ status'[t] = "expired"
            => \/ ~Refreshable(jar)
               \/ refresh[t].pair # jar
               \/ refresh[t].at = "failed"]_vars
  BY ExpiringStep
<1> QED BY <1>1, <1>2, <1>3, PTL DEF Spec, ExpiredIsTrue
-----------------------------------------------------------------------------
(* The refinement of Rotation.  A refresh is a Send: its guard, that the pair *)
(* rotated away is on its way to nobody, is Unshared, because the request was *)
(* sent with it.  A sign-in is a Send of a device that has no pair yet.       *)

\* A device that is yet to sign in has no pair.
NoneBeyond == \A d \in Devices : d > devices => rows[d].n = 0

LEMMA BeyondInit == Init => NoneBeyond
BY DEF Init, NoneBeyond, NoRow

\* What a step can do to the generations, and that it leaves the devices to come alone.
LEMMA BeyondStep == TypeOK /\ NoneBeyond /\ [Next]_vars => NoneBeyond'
<1> SUFFICES ASSUME TypeOK, NoneBeyond, [Next]_vars PROVE NoneBeyond'
  OBVIOUS
<1> USE Shapes
<1>1. ASSUME UNCHANGED devices, \A d \in Devices : rows'[d].n = rows[d].n
      PROVE  NoneBeyond'
  BY <1>1 DEF NoneBeyond
<1>2. CASE UNCHANGED <<rows, devices>>
  BY <1>1, <1>2
<1>3. ASSUME NEW d \in Devices, DeviceTokenDies(d) \/ RefreshTokenDies(d) \/ Revoke(d)
      PROVE  NoneBeyond'
  <2>1. UNCHANGED devices /\ \A e \in Devices : rows'[e].n = rows[e].n
    BY <1>3 DEF DeviceTokenDies, RefreshTokenDies, Revoke
  <2> QED BY <1>1, <2>1
<1>4. ASSUME NEW t \in Tabs, Refresh(t)
      PROVE  NoneBeyond'
  <2>1. CASE ~Refreshable(refresh[t].pair)
    BY <1>2, <1>4, <2>1 DEF Refresh
  <2>2. CASE Refreshable(refresh[t].pair)
    <3>1. PICK e \in 1 .. devices : e = refresh[t].pair[1]
      BY <2>2 DEF Refreshable
    <3>2. UNCHANGED devices /\ \A d \in Devices \ {e} : rows'[d].n = rows[d].n
      BY <1>4, <2>2, <3>1 DEF Refresh
    <3>3. \A d \in Devices : d > devices => d # e
      BY <3>1 DEF Devices
    <3> QED BY <3>2, <3>3 DEF NoneBeyond
  <2> QED BY <2>1, <2>2
<1>5. ASSUME NEW t \in Tabs, Issue(t)
      PROVE  NoneBeyond'
  <2>1. CASE UNCHANGED <<rows, devices>>
    BY <1>2, <2>1
  <2>2. CASE /\ devices' = devices + 1
             /\ rows' = [rows EXCEPT ![devices + 1] =
                   [n |-> 1, fresh |-> TRUE, alive |-> TRUE, revoked |-> FALSE]]
    <3>1. \A d \in Devices : d > devices' => d > devices /\ d # devices + 1
      BY <2>2 DEF Devices
    <3>2. \A d \in Devices : d # devices + 1 => rows'[d] = rows[d]
      BY <2>2
    <3> QED BY <3>1, <3>2 DEF NoneBeyond
  <2> QED BY <1>5, <2>1, <2>2 DEF Issue
<1>6. \/ UNCHANGED <<rows, devices>>
      \/ \E d \in Devices : DeviceTokenDies(d) \/ RefreshTokenDies(d) \/ Revoke(d)
      \/ \E t \in Tabs : Refresh(t) \/ Issue(t)
  BY DEF Next, vars, Open, Close, Timer, Refreshed, RefreshRefused, RefreshLost, KeeperAsks,
     SignIn, SignedIn, Call, Guard, Repair, TimerRipens
<1> QED BY <1>2, <1>3, <1>4, <1>5, <1>6

\* What is on its way is what some request brings.
LEMMA ComingIs ==
    ASSUME NEW p
    PROVE  p \in Coming <=>
             \E t \in Tabs : \/ Arriving(refresh[t]) /\ p = refresh[t].pair
                             \/ Arriving(signIn[t]) /\ p = signIn[t].pair
BY DEF Coming, Arriving

\* A pair on its way is a device's that signed in, and its latest.
LEMMA ComingStored == ASSUME SessionInv, NEW p \in Coming PROVE Stored(p)
BY ComingIs DEF SessionInv, ArrivingStored

\* Requests that bring nothing come and go.
LEMMA ComingStays ==
    ASSUME \A t \in Tabs : /\ refresh'[t] = refresh[t] \/ ~(Arriving(refresh'[t]) \/ Arriving(refresh[t]))
                           /\ signIn'[t] = signIn[t] \/ ~(Arriving(signIn'[t]) \/ Arriving(signIn[t]))
    PROVE  Coming' = Coming
<1>1. ASSUME NEW t \in Tabs
      PROVE  /\ (Arriving(refresh[t]))' <=> Arriving(refresh[t])
             /\ (Arriving(signIn[t]))' <=> Arriving(signIn[t])
             /\ Arriving(refresh[t]) => refresh'[t].pair = refresh[t].pair
             /\ Arriving(signIn[t]) => signIn'[t].pair = signIn[t].pair
  BY DEF Arriving
<1> QED BY <1>1 DEF Coming, Arriving

\* One page's requests end: what they brought, and nobody else brings, is on its way
\* no more.
LEMMA ComingEnds ==
    ASSUME SessionInv, NEW t \in Tabs, NEW gone,
           \A u \in Tabs \ {t} : refresh'[u] = refresh[u] /\ signIn'[u] = signIn[u],
           refresh'[t] = refresh[t] \/ ~Arriving(refresh'[t]),
           signIn'[t] = signIn[t] \/ ~Arriving(signIn'[t]),
           \A p : p \in gone <=>
              \/ Arriving(refresh[t]) /\ ~Arriving(refresh'[t]) /\ p = refresh[t].pair
              \/ Arriving(signIn[t]) /\ ~Arriving(signIn'[t]) /\ p = signIn[t].pair
    PROVE  gone \subseteq Coming /\ Coming' = Coming \ gone
<1>1. gone \subseteq Coming
  BY ComingIs
<1>2. \A p : p \in Coming' <=>
         \E u \in Tabs : \/ Arriving(refresh'[u]) /\ p = refresh'[u].pair
                         \/ Arriving(signIn'[u]) /\ p = signIn'[u].pair
  BY DEF Coming, Arriving
<1>3. /\ \A u \in Tabs \ {t} :
            /\ Arriving(refresh[u]) => refresh[u].pair \notin gone
            /\ Arriving(signIn[u]) => signIn[u].pair \notin gone
      /\ Arriving(refresh[t]) /\ Arriving(refresh'[t]) => refresh[t].pair \notin gone
      /\ Arriving(signIn[t]) /\ Arriving(signIn'[t]) => signIn[t].pair \notin gone
  BY DEF SessionInv, Unshared, Arriving, Presented
<1>4. ASSUME NEW p \in Coming'
      PROVE  p \in Coming \ gone
  <2>1. PICK u \in Tabs : \/ Arriving(refresh'[u]) /\ p = refresh'[u].pair
                          \/ Arriving(signIn'[u]) /\ p = signIn'[u].pair
    BY <1>2, <1>4
  <2>2. \/ Arriving(refresh[u]) /\ p = refresh[u].pair
        \/ Arriving(signIn[u]) /\ p = signIn[u].pair
    BY <2>1
  <2>3. p \notin gone
    BY <1>3, <2>1
  <2> QED BY <2>2, <2>3, ComingIs
<1>5. ASSUME NEW p \in Coming \ gone
      PROVE  p \in Coming'
  <2>1. PICK u \in Tabs : \/ Arriving(refresh[u]) /\ p = refresh[u].pair
                          \/ Arriving(signIn[u]) /\ p = signIn[u].pair
    BY <1>5, ComingIs
  <2>2. \/ Arriving(refresh'[u]) /\ p = refresh'[u].pair
        \/ Arriving(signIn'[u]) /\ p = signIn'[u].pair
    BY <1>5, <2>1
  <2> QED BY <1>2, <2>2
<1> QED BY <1>1, <1>4, <1>5

\* The next pair of a device is issued, and no other.
LEMMA IssueIs ==
    ASSUME NEW d \in Devices, <<d, rows[d].n>> \notin Coming,
           rows'[d].n = rows[d].n + 1,
           \A e \in Devices \ {d} : rows'[e].n = rows[e].n
    PROVE  Credentials!Issue(d)
BY DEF Credentials!Issue, Credentials!Newest

\* A step that moves no pair.
LEMMA StandsStill ==
    ASSUME jar' = jar, stranded' = stranded, Coming' = Coming,
           \A d \in Devices : rows'[d].n = rows[d].n
    PROVE  UNCHANGED Credentials!vars
BY DEF Credentials!vars

\* A refresh is a Send of its device.
LEMMA RefreshSends ==
    ASSUME TypeOK, SessionInv, NEW t \in Tabs, Rotates(t)
    PROVE  \E d \in Devices : Credentials!Send(d)
<1> USE Shapes
<1>1. PICK p \in Pairs : p = refresh[t].pair
  OBVIOUS
<1>2. /\ p[1] \in Devices /\ p[2] = rows[p[1]].n /\ p = <<p[1], rows[p[1]].n>>
      /\ rows[p[1]].n \in Nat
  BY <1>1, PairParts DEF Rotates, Refreshable
<1> DEFINE q == <<p[1], rows[p[1]].n + 1>>
<1>3. /\ refresh'[t] = [at |-> "ok", pair |-> q]
      /\ \A u \in Tabs \ {t} : refresh'[u] = refresh[u]
      /\ refresh[t].at = "sent" /\ UNCHANGED <<jar, signIn, stranded>>
  BY <1>1, <1>2 DEF Rotates
<1>4. /\ rows'[p[1]].n = rows[p[1]].n + 1
      /\ \A d \in Devices \ {p[1]} : rows'[d].n = rows[d].n
  BY <1>1, <1>2 DEF Rotates
<1>5. p \notin Coming
  BY <1>1, <1>3, ComingIs DEF SessionInv, Unshared, Presented, Arriving
<1>6. Coming' = Coming \cup {q}
  <2> HIDE DEF q
  <2>1. \A r : r \in Coming' <=>
           \E u \in Tabs : \/ Arriving(refresh'[u]) /\ r = refresh'[u].pair
                           \/ Arriving(signIn'[u]) /\ r = signIn'[u].pair
    BY DEF Coming, Arriving
  <2>2. \A r : r \in Coming' <=> r = q \/ r \in Coming
    BY <1>3, <2>1, ComingIs DEF Arriving
  <2> QED BY <2>2
<1>7. Credentials!Issue(p[1])
  BY <1>2, <1>4, <1>5, IssueIs
<1>8. Credentials!Following(p[1]) = q
  BY <1>2 DEF Credentials!Following
<1>9. Credentials!Send(p[1])
  BY <1>3, <1>6, <1>7, <1>8 DEF Credentials!Send
<1> QED BY <1>2, <1>9

\* So is a sign-in, of a device that had no pair.
LEMMA SignInSends ==
    ASSUME TypeOK, SessionInv, NoneBeyond, NEW t \in Tabs, Issue(t)
    PROVE  (\E d \in Devices : Credentials!Send(d)) \/ UNCHANGED Credentials!vars
<1> USE Shapes
<1>1. UNCHANGED <<jar, refresh, stranded>> /\ ~Arriving(signIn[t])
  BY DEF Issue, Arriving
<1>2. CASE signIn' = [signIn EXCEPT ![t] = Idle] /\ UNCHANGED rows
  <2>1. ~Arriving(signIn'[t]) /\ \A u \in Tabs \ {t} : signIn'[u] = signIn[u]
    BY <1>2 DEF Idle, Arriving
  <2>2. Coming' = Coming
    BY <1>1, <2>1, ComingStays
  <2> QED BY <1>1, <1>2, <2>2, StandsStill
<1>3. CASE /\ devices < MaxDevices
           /\ rows' = [rows EXCEPT ![devices + 1] =
                 [n |-> 1, fresh |-> TRUE, alive |-> TRUE, revoked |-> FALSE]]
           /\ signIn' = [signIn EXCEPT ![t] = [at |-> "ok", pair |-> <<devices + 1, 1>>]]
  <2>1. PICK d \in Devices : d = devices + 1
    BY <1>3 DEF Devices
  <2>2. rows[d].n = 0 /\ rows'[d].n = 1 /\ \A e \in Devices \ {d} : rows'[e].n = rows[e].n
    BY <1>3, <2>1 DEF NoneBeyond
  <2>3. <<d, rows[d].n>> \notin Coming
    <3>1. ~Stored(<<d, rows[d].n>>)
      BY <2>1 DEF Stored
    <3> QED BY <3>1, ComingStored
  <2>4. /\ signIn'[t] = [at |-> "ok", pair |-> <<d, 1>>]
        /\ \A u \in Tabs \ {t} : signIn'[u] = signIn[u]
    BY <1>3, <2>1
  <2>5. Coming' = Coming \cup {<<d, 1>>}
    <3>1. \A r : r \in Coming' <=>
             \E u \in Tabs : \/ Arriving(refresh'[u]) /\ r = refresh'[u].pair
                             \/ Arriving(signIn'[u]) /\ r = signIn'[u].pair
      BY DEF Coming, Arriving
    <3>2. PICK q : q = <<d, 1>>
      OBVIOUS
    <3>3. /\ Arriving(signIn'[t]) /\ signIn'[t].pair = q
          /\ ~Arriving(signIn[t]) /\ refresh' = refresh
      BY <1>1, <2>4, <3>2 DEF Arriving
    <3>4. \A r : r \in Coming' <=> r = q \/ r \in Coming
      BY <2>4, <3>1, <3>3, ComingIs
    <3> QED BY <3>2, <3>4
  <2>6. Credentials!Issue(d)
    BY <2>2, <2>3, IssueIs
  <2>7. Credentials!Following(d) = <<d, 1>>
    BY <2>2 DEF Credentials!Following
  <2>8. Credentials!Send(d)
    BY <1>1, <2>5, <2>6, <2>7 DEF Credentials!Send
  <2> QED BY <2>8
<1> QED BY <1>2, <1>3 DEF Issue

\* An answer that comes is an Arrive; what a page closed with, or lost, is a Lose.
LEMMA AnswerMoves ==
    ASSUME TypeOK, SessionInv, NEW t \in Tabs,
           Close(t) \/ Refreshed(t) \/ RefreshLost(t) \/ SignedIn(t)
    PROVE  [Credentials!Next]_(Credentials!vars)
<1> USE Shapes
<1>0. /\ ~Arriving(Idle)
      /\ \A d \in Devices : rows'[d].n = rows[d].n
      /\ Credentials!vars = <<[d \in Devices |-> rows[d].n], jar, Coming, stranded>>
  BY DEF Arriving, Idle, Close, Refreshed, RefreshLost, SignedIn, Credentials!vars
<1>1. ASSUME NEW p \in Coming, jar' = p, Coming' = Coming \ {p}, UNCHANGED stranded
      PROVE  Credentials!Next
  BY <1>0, <1>1 DEF Credentials!Next, Credentials!Arrive
<1>2. ASSUME NEW gone, gone \subseteq Coming, Coming' = Coming \ gone, UNCHANGED jar,
             stranded' = stranded \cup {p[1] : p \in gone}
      PROVE  Credentials!Next
  BY <1>0, <1>2 DEF Credentials!Next, Credentials!Lose
<1>3. ASSUME Close(t)
      PROVE  Credentials!Next
  <2> DEFINE ending == {g \in {refresh[t], signIn[t]} : g.at = "ok"}
             gone == {f.pair : f \in ending}
  <2>1. /\ refresh' = [refresh EXCEPT ![t] = Idle] /\ signIn' = [signIn EXCEPT ![t] = Idle]
        /\ stranded' = stranded \cup {f.pair[1] : f \in ending} /\ UNCHANGED jar
    BY <1>3 DEF Close
  <2>2. {f.pair[1] : f \in ending} = {p[1] : p \in gone}
    OBVIOUS
  <2>3. \A p : p \in gone <=> \/ Arriving(refresh[t]) /\ p = refresh[t].pair
                              \/ Arriving(signIn[t]) /\ p = signIn[t].pair
    BY DEF Arriving
  <2> HIDE DEF gone, ending
  <2>4. gone \subseteq Coming /\ Coming' = Coming \ gone
    BY <1>0, <2>1, <2>3, ComingEnds
  <2> QED BY <1>2, <2>1, <2>2, <2>4
<1>4. ASSUME Refreshed(t)
      PROVE  Credentials!Next
  <2>1. /\ Arriving(refresh[t]) /\ jar' = refresh[t].pair /\ UNCHANGED <<signIn, stranded>>
        /\ refresh'[t] = Idle /\ \A u \in Tabs \ {t} : refresh'[u] = refresh[u]
    BY <1>4 DEF Refreshed, Arriving
  <2>2. {refresh[t].pair} \subseteq Coming /\ Coming' = Coming \ {refresh[t].pair}
    BY <1>0, <2>1, ComingEnds
  <2> QED BY <1>1, <2>1, <2>2
<1>5. ASSUME RefreshLost(t)
      PROVE  [Credentials!Next]_(Credentials!vars)
  <2>1. /\ refresh'[t] = Idle /\ \A u \in Tabs \ {t} : refresh'[u] = refresh[u]
        /\ UNCHANGED <<jar, signIn>>
    BY <1>5 DEF RefreshLost
  <2>2. CASE Arriving(refresh[t])
    <3>1. {refresh[t].pair} \subseteq Coming /\ Coming' = Coming \ {refresh[t].pair}
      BY <1>0, <2>1, <2>2, ComingEnds
    <3>2. stranded' = stranded \cup {p[1] : p \in {refresh[t].pair}}
      BY <1>5, <2>2 DEF RefreshLost, Arriving
    <3> QED BY <1>2, <2>1, <3>1, <3>2
  <2>3. CASE ~Arriving(refresh[t])
    <3>1. Coming' = Coming
      BY <1>0, <2>1, <2>3, ComingStays
    <3>2. UNCHANGED stranded
      BY <1>5, <2>3 DEF RefreshLost, Arriving
    <3> QED BY <1>0, <2>1, <3>1, <3>2, StandsStill
  <2> QED BY <2>2, <2>3
<1>6. ASSUME SignedIn(t)
      PROVE  Credentials!Next
  <2>1. /\ Arriving(signIn[t]) /\ UNCHANGED refresh
        /\ signIn'[t] = Idle /\ \A u \in Tabs \ {t} : signIn'[u] = signIn[u]
        /\ \/ jar' = signIn[t].pair /\ UNCHANGED stranded
           \/ stranded' = stranded \cup {signIn[t].pair[1]} /\ UNCHANGED jar
    BY <1>6 DEF SignedIn, Arriving
  <2>2. {signIn[t].pair} \subseteq Coming /\ Coming' = Coming \ {signIn[t].pair}
    BY <1>0, <2>1, ComingEnds
  <2>3. CASE jar' = signIn[t].pair /\ UNCHANGED stranded
    BY <1>1, <2>1, <2>2, <2>3
  <2>4. CASE stranded' = stranded \cup {signIn[t].pair[1]} /\ UNCHANGED jar
    <3>1. stranded' = stranded \cup {p[1] : p \in {signIn[t].pair}}
      BY <2>4
    <3> QED BY <1>2, <2>1, <2>2, <2>4, <3>1
  <2> QED BY <2>1, <2>3, <2>4
<1> QED BY <1>3, <1>4, <1>5, <1>6

\* Every step of the pages and the Gateway is a step of Rotation or moves no pair.
LEMMA SessionRotates ==
    ASSUME TypeOK, SessionInv, NoneBeyond, [Next]_vars
    PROVE  [Credentials!Next]_(Credentials!vars)
<1> USE Shapes
<1>1. CASE \E t \in Tabs : Close(t) \/ Refreshed(t) \/ RefreshLost(t) \/ SignedIn(t)
  BY <1>1, AnswerMoves
<1>2. CASE \E t \in Tabs : Issue(t) \/ Rotates(t)
  BY <1>2, SignInSends, RefreshSends DEF Credentials!Next
<1>3. ASSUME UNCHANGED <<jar, stranded>>, \A d \in Devices : rows'[d].n = rows[d].n,
             \A t \in Tabs : /\ refresh'[t] = refresh[t] \/ ~(Arriving(refresh'[t]) \/ Arriving(refresh[t]))
                             /\ signIn'[t] = signIn[t] \/ ~(Arriving(signIn'[t]) \/ Arriving(signIn[t]))
      PROVE  UNCHANGED Credentials!vars
  BY <1>3, ComingStays, StandsStill
<1>4. CASE \/ UNCHANGED vars \/ TimerRipens \/ \E t \in Tabs : KeeperAsks(t)
           \/ \E c \in Calls : Call(c) \/ Guard(c)
  BY <1>3, <1>4 DEF vars, pages, TimerRipens, KeeperAsks, Call, Guard
<1>5. CASE \E d \in Devices : DeviceTokenDies(d) \/ RefreshTokenDies(d) \/ Revoke(d)
  <2>1. UNCHANGED <<jar, stranded, refresh, signIn>> /\ \A e \in Devices : rows'[e].n = rows[e].n
    BY <1>5 DEF pages, DeviceTokenDies, RefreshTokenDies, Revoke
  <2> QED BY <1>3, <2>1
<1>6. ASSUME NEW t \in Tabs, Asked(t) \/ UNCHANGED refresh, UNCHANGED <<jar, stranded, rows, signIn>>
      PROVE  UNCHANGED Credentials!vars
  <2>1. \A u \in Tabs : refresh'[u] = refresh[u] \/ ~(Arriving(refresh'[u]) \/ Arriving(refresh[u]))
    BY <1>6 DEF Asked, Arriving
  <2> QED BY <1>3, <1>6, <2>1
<1>7. ASSUME NEW t \in Tabs, Open(t) \/ Timer(t)
      PROVE  UNCHANGED Credentials!vars
  BY <1>6, <1>7 DEF Open, Timer
<1>8. ASSUME NEW c \in Calls, Repair(c)
      PROVE  UNCHANGED Credentials!vars
  BY <1>6, <1>8, SessionAssumption DEF Repair
<1>9. ASSUME NEW t \in Tabs, RefreshRefused(t) \/ Declines(t)
      PROVE  UNCHANGED Credentials!vars
  <2>1. /\ ~Arriving(refresh'[t]) /\ ~Arriving(refresh[t])
        /\ \A u \in Tabs \ {t} : refresh'[u] = refresh[u]
        /\ UNCHANGED <<jar, stranded, rows, signIn>>
    <3>1. CASE RefreshRefused(t)
      BY <3>1 DEF RefreshRefused, Arriving, Idle
    <3>2. CASE Declines(t)
      <4>1. refresh'[t].at \in {"refused", "failed"}
        BY <3>2 DEF Declines, Flights
      <4> QED BY <3>2, <4>1 DEF Declines, Arriving
    <3> QED BY <1>9, <3>1, <3>2
  <2> QED BY <1>3, <2>1
<1>10. ASSUME NEW t \in Tabs, SignIn(t)
       PROVE  UNCHANGED Credentials!vars
  <2>1. /\ ~Arriving(signIn'[t]) /\ ~Arriving(signIn[t])
        /\ \A u \in Tabs \ {t} : signIn'[u] = signIn[u]
        /\ UNCHANGED <<jar, stranded, rows, refresh>>
    BY <1>10 DEF SignIn, Arriving
  <2> QED BY <1>3, <2>1
<1> QED BY <1>1, <1>2, <1>4, <1>5, <1>7, <1>8, <1>9, <1>10, RefreshCases DEF Next

(* RotatesThePair: the Gateway and a browser's pages implement Rotation: each  *)
(* refresh issues the device's next pair and no other, never while the one     *)
(* before it is on its way to a page; the jar changes for a pair that arrives  *)
(* and for nothing else; and a pair that does not arrive is owned up to.       *)
THEOREM SessionImplementsRotation == Spec => RotatesThePair
<1> DEFINE Inv == TypeOK /\ SessionInv /\ NoneBeyond
<1>1. Init => Inv
  BY TypeInit, SessionInit, BeyondInit
<1>2. Inv /\ [Next]_vars => Inv'
  BY RowsStep, FlightsStep, PagesStep, BudgetsStep, SessionStep, BeyondStep DEF TypeOK
<1>3. Inv /\ [Next]_vars => [Credentials!Next]_(Credentials!vars)
  BY SessionRotates
<1>4. Init => Credentials!Init
  <2>1. Init => Coming = {}
    BY DEF Init, Coming, Idle
  <2> QED BY <2>1 DEF Init, Credentials!Init, Credentials!None, NoRow, NoPair
<1> QED BY <1>1, <1>2, <1>3, <1>4, PTL DEF Spec, RotatesThePair, Credentials!Spec
=============================================================================
