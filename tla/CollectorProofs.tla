--------------------------- MODULE CollectorProofs ---------------------------
(* Proofs about Collector for every value of its constants.                  *)
EXTENDS Collector, TLAPS

-----------------------------------------------------------------------------
(* Type correctness.                                                         *)

LEMMA TypeInit == Init => TypeOK
<1> SUFFICES ASSUME Init PROVE TypeOK
  OBVIOUS
<1>1. WorldOK
  <2>1. issued \in [SignIns -> [n : 0 .. MaxGrants, good : BOOLEAN, mine : BOOLEAN]]
    BY CollectorAssumption DEF Init
  <2> QED BY <2>1, CollectorAssumption DEF Init, WorldOK, SignIns
<1>2. GrantsOK
  BY DEF Init, GrantsOK, Grants, NoAnswer, NoToken
<1>3. RoundOK
  BY DEF Init, RoundOK, Positions, Observations, Refused, Connected, States, Unasked
<1>4. renewed \in BOOLEAN
  BY DEF Init
<1>5. faults \in 0 .. MaxFaults /\ stranded \subseteq SignIns /\ strangers \subseteq Kinds
  BY CollectorAssumption DEF Init
<1>6. /\ said \in [Kinds -> States \cup {"unknown"}] /\ lost \subseteq Kinds
      /\ word \in {"none", "ok", "invalid", "odd", "client"}
  BY DEF Init
<1> QED BY <1>1, <1>2, <1>3, <1>4, <1>5, <1>6 DEF TypeOK

\* The grants a renewal may answer with are grants.
LEMMA GrantOf ==
  ASSUME WorldOK, NEW g \in Grants, g # NoGrant
  PROVE  /\ g[1] \in SignIns /\ g[2] \in 1 .. MaxGrants
         /\ g[2] < MaxGrants => <<g[1], g[2] + 1>> \in Grants
BY CollectorAssumption DEF Grants, WorldOK

LEMMA WorldStep == TypeOK /\ [Next]_vars => WorldOK'
<1> SUFFICES ASSUME TypeOK, [Next]_vars PROVE WorldOK'
  OBVIOUS
<1>0. MaxGrants \in Nat /\ MaxSignIns \in Nat
  BY CollectorAssumption
<1>1. ASSUME UNCHANGED <<issued, signIns, sso, svc>>
      PROVE  WorldOK'
  BY <1>1 DEF WorldOK, TypeOK
<1>2. ASSUME NEW f \in SignIns, issued[f].n < MaxGrants, issued' = [issued EXCEPT ![f].n = @ + 1],
             UNCHANGED <<signIns, sso, svc>>
      PROVE  WorldOK'
  BY <1>0, <1>2 DEF WorldOK, TypeOK
<1>3. CASE UNCHANGED vars \/ Start \/ Crash \/ RenewalLost
  BY <1>1, <1>3 DEF vars, world, Start, Crash, RenewalLost
<1>4. CASE Round \/ RenewFirst \/ Ask \/ RenewAgain \/ AskAgain \/ Report \/ Poll \/ Wake
  BY <1>1, <1>4 DEF world, Round, RenewFirst, Ask, RenewAgain, AskAgain, Report, Poll, Wake
<1>5. CASE SsoRenews
  <2>1. CASE UNCHANGED issued
    BY <1>1, <1>5, <2>1 DEF SsoRenews
  <2>2. CASE ~ UNCHANGED issued
    <3>1. /\ Honoured(answer.to) /\ answer.to[2] < MaxGrants
          /\ issued' = [issued EXCEPT ![answer.to[1]].n = @ + 1]
          /\ UNCHANGED <<signIns, sso, svc>>
      BY <1>5, <2>2 DEF SsoRenews
    <3>2. answer.to \in Grants /\ answer.to # NoGrant
      BY <3>1 DEF TypeOK, GrantsOK, Honoured
    <3>3. answer.to[1] \in SignIns /\ issued[answer.to[1]].n < MaxGrants
      BY <3>1, <3>2, GrantOf DEF Honoured, TypeOK
    <3> QED BY <1>2, <3>1, <3>3
  <2> QED BY <2>1, <2>2
<1>6. CASE Authorize
  <2>1. PICK mine \in BOOLEAN :
          issued' = [issued EXCEPT ![signIns + 1] = [n |-> 1, good |-> TRUE, mine |-> mine]]
    BY <1>6 DEF Authorize
  <2>2. signIns < MaxSignIns /\ signIns' = signIns + 1 /\ UNCHANGED <<sso, svc>>
    BY <1>6 DEF Authorize
  <2>3. signIns + 1 \in 1 .. MaxSignIns /\ signIns' \in 0 .. MaxSignIns
    BY <1>0, <2>2 DEF WorldOK, TypeOK
  <2>4. [n |-> 1, good |-> TRUE, mine |-> mine] \in [n : 0 .. MaxGrants, good : BOOLEAN, mine : BOOLEAN]
    BY CollectorAssumption
  <2> QED BY <2>1, <2>2, <2>3, <2>4 DEF WorldOK, TypeOK, SignIns
<1>7. CASE AuthorizeEnds
  <2>1. CASE UNCHANGED issued
    BY <1>1, <1>7, <2>1 DEF AuthorizeEnds
  <2>2. CASE ~ UNCHANGED issued
    <3>1. /\ Honoured(op) /\ op[2] < MaxGrants /\ op # NoGrant
          /\ issued' = [issued EXCEPT ![op[1]].n = @ + 1]
          /\ UNCHANGED <<signIns, sso, svc>>
      BY <1>7, <2>2 DEF AuthorizeEnds
    <3>2. op[1] \in SignIns /\ issued[op[1]].n < MaxGrants
      BY <3>1, GrantOf DEF Honoured, TypeOK, GrantsOK
    <3> QED BY <1>2, <3>1, <3>2
  <2> QED BY <2>1, <2>2
<1>8. CASE Turn
  BY <1>8 DEF Turn, WorldOK, TypeOK
<1>9. CASE GrantDies
  <2>1. PICK f \in 1 .. signIns : issued' = [issued EXCEPT ![f].good = FALSE]
    BY <1>9 DEF GrantDies
  <2>2. f \in SignIns
    BY <1>0 DEF WorldOK, TypeOK, SignIns
  <2>3. issued' \in [SignIns -> [n : 0 .. MaxGrants, good : BOOLEAN, mine : BOOLEAN]]
    BY <2>1, <2>2 DEF WorldOK, TypeOK
  <2> QED BY <1>9, <2>3 DEF GrantDies, WorldOK, TypeOK
<1>10. CASE TokenAges
  BY <1>1, <1>10 DEF TokenAges, world
<1> QED BY <1>3, <1>4, <1>5, <1>6, <1>7, <1>8, <1>9, <1>10 DEF Next, RoundStep

\* A renewal's answer writes the grant it carries, or leaves the file be.
LEMMA RenewalWrites ==
  ASSUME RenewFirst \/ RenewAgain
  PROVE  /\ answer' = NoAnswer /\ UNCHANGED <<world, op, stranded>>
         /\ \/ /\ answer.what = "ok" /\ disk' = answer.to /\ mem' = answer.to
               /\ token' = [of |-> answer.to[1], life |-> "fresh"]
            \/ /\ answer.what # "ok" /\ UNCHANGED <<disk, mem>>
               /\ token' = token \/ token' = NoToken
<1>1. CASE RenewFirst
  BY <1>1 DEF RenewFirst, Renewed, Kept, history
<1>2. CASE RenewAgain
  BY <1>2 DEF RenewAgain, Renewed, Kept, history
<1> QED BY <1>1, <1>2

LEMMA GrantsStep == TypeOK /\ [Next]_vars => GrantsOK'
<1> SUFFICES ASSUME TypeOK, [Next]_vars PROVE GrantsOK'
  OBVIOUS
<1> DEFINE Answers == [to : Grants, what : {"none", "sent", "ok", "invalid", "odd", "client", "silent"}]
           Tokens == {NoToken} \cup [of : SignIns, life : {"fresh", "margin", "over"}]
<1>0. /\ disk \in Grants /\ op \in Grants /\ mem \in Grants /\ token \in Tokens
      /\ answer \in Answers /\ NoGrant \in Grants /\ NoAnswer \in Answers
      /\ answer.what = "ok" => answer.to[2] > 1
  BY DEF TypeOK, GrantsOK, Grants, NoAnswer
<1>1. ASSUME UNCHANGED <<disk, op, mem, token, answer>>
      PROVE  GrantsOK'
  BY <1>0, <1>1 DEF GrantsOK
<1>2. ASSUME UNCHANGED <<disk, op, mem, token>>, answer' \in Answers,
             answer'.what = "ok" => answer'.to[2] > 1
      PROVE  GrantsOK'
  BY <1>0, <1>2 DEF GrantsOK
<1>3. CASE UNCHANGED vars \/ AskAgain \/ Report \/ Poll \/ Wake \/ Turn \/ GrantDies
  BY <1>1, <1>3 DEF vars, process, AskAgain, Report, Poll, Wake, Turn, GrantDies
<1>4. CASE Start
  BY <1>0, <1>4 DEF Start, GrantsOK
<1>5. CASE Crash
  BY <1>0, <1>5 DEF Crash, GrantsOK, NoAnswer
<1>6. CASE RenewalLost
  BY <1>0, <1>2, <1>6 DEF RenewalLost
<1>7. CASE Round
  BY <1>0, <1>2, <1>7 DEF Round
<1>8. CASE Ask
  BY <1>0, <1>2, <1>8 DEF Ask
<1>9. CASE SsoRenews
  <2>1. ASSUME Honoured(answer.to), answer.to[2] < MaxGrants
        PROVE  <<answer.to[1], answer.to[2] + 1>> \in Grants /\ answer.to[2] + 1 > 1
    BY <1>0, <2>1, GrantOf, CollectorAssumption DEF Honoured, TypeOK
  <2>2. answer' \in Answers /\ (answer'.what = "ok" => answer'.to[2] > 1)
    BY <1>0, <1>9, <2>1 DEF SsoRenews
  <2> QED BY <1>2, <1>9, <2>2 DEF SsoRenews
<1>10. CASE RenewFirst \/ RenewAgain
  <2>1. answer.what = "ok" => [of |-> answer.to[1], life |-> "fresh"] \in Tokens
    <3>1. answer.what = "ok" => answer.to # NoGrant
      BY <1>0 DEF NoGrant
    <3> QED BY <1>0, <3>1, GrantOf DEF TypeOK
  <2>2. disk' \in Grants /\ mem' \in Grants /\ token' \in Tokens /\ op' \in Grants
    BY <1>0, <1>10, <2>1, RenewalWrites
  <2>3. answer' = NoAnswer
    BY <1>10, RenewalWrites
  <2> QED BY <1>0, <2>2, <2>3 DEF GrantsOK, NoAnswer
<1>11. CASE Authorize
  <2>1. signIns + 1 \in SignIns
    BY <1>11, CollectorAssumption DEF Authorize, TypeOK, WorldOK, SignIns
  <2>2. <<signIns + 1, 1>> \in Grants
    BY <2>1, CollectorAssumption DEF Grants
  <2> QED BY <1>0, <1>11, <2>2 DEF Authorize, process, GrantsOK
<1>12. CASE AuthorizeEnds
  <2>1. op[2] < MaxGrants => <<op[1], op[2] + 1>> \in Grants
    BY <1>0, <1>12, GrantOf DEF AuthorizeEnds, TypeOK
  <2>2. disk' \in Grants /\ op' \in Grants
    BY <1>0, <1>12, <2>1 DEF AuthorizeEnds
  <2> QED BY <1>0, <1>12, <2>2 DEF AuthorizeEnds, process, GrantsOK
<1>13. CASE TokenAges
  <2>1. token' \in Tokens
    BY <1>0, <1>13 DEF TokenAges, NoToken
  <2> QED BY <1>0, <1>13, <2>1 DEF TokenAges, GrantsOK
<1> QED BY <1>3, <1>4, <1>5, <1>6, <1>7, <1>8, <1>9, <1>10, <1>11, <1>12, <1>13 DEF Next, RoundStep

\* What the services answer, and what an observation makes of it.
LEMMA WhoamiType ==
  ASSUME NEW t
  PROVE  Whoami(t) \in [Services -> {"mine", "stranger", "401", "403", "down"}]
BY DEF Whoami

LEMMA ObservationType ==
  ASSUME NEW id
  PROVE  ObserveServices(id) \in Observations /\ ObserveServices(id).state # "reconnect_required"
BY DEF ObserveServices, First, Observations, Services, States, Connected

LEMMA RoundTypes == TypeOK /\ [Next]_vars => RoundOK'
<1> SUFFICES ASSUME TypeOK, [Next]_vars PROVE RoundOK'
  OBVIOUS
<1> USE DEF TypeOK, RoundOK
<1>0. \A state \in States : Refused(state) \in Observations
  BY DEF Refused, Observations
<1>1. Connected \in Observations /\ Unasked \in [Services -> {"mine", "stranger", "401", "403", "down"}]
  BY DEF Connected, Observations, States, Unasked
<1>2. \A o \in Observations, k \in Kinds : PerConnection(o, k) \in States
  BY DEF Observations, PerConnection, States
<1>3. CASE UNCHANGED vars \/ Start \/ SsoRenews \/ RenewalLost \/ Wake \/ Turn \/ GrantDies
  BY <1>3 DEF vars, process, Start, SsoRenews, RenewalLost, Wake, Turn, GrantDies, Positions
<1>4. CASE Authorize \/ AuthorizeEnds \/ TokenAges
  BY <1>4 DEF Authorize, AuthorizeEnds, TokenAges, process
<1>5. CASE Crash
  BY <1>0, <1>1, <1>5 DEF Crash, States, Positions
<1>6. CASE Round
  BY <1>0, <1>6 DEF Round, States, Positions
<1>7. CASE RenewFirst
  BY <1>0, <1>7 DEF RenewFirst, Renewed, States, Positions
<1>8. CASE RenewAgain
  BY <1>0, <1>8, ObservationType DEF RenewAgain, Renewed, States, Positions
<1>9. CASE Ask
  BY <1>9, WhoamiType, ObservationType DEF Ask, Positions
<1>10. CASE AskAgain
  BY <1>10, WhoamiType, ObservationType DEF AskAgain, Positions
<1>11. CASE Report
  BY <1>2, <1>11 DEF Report, Say, Positions
<1>12. CASE Poll
  BY <1>1, <1>12 DEF Poll, Say, States, Positions
<1> QED BY <1>3, <1>4, <1>5, <1>6, <1>7, <1>8, <1>9, <1>10, <1>11, <1>12 DEF Next, RoundStep

\* What the trackers' words come to on the bus: some are taken, some are missed.
LEMMA SayIs ==
  ASSUME TypeOK, NEW asked, NEW answers, Say(asked, answers)
  PROVE  \E missed \in SUBSET Kinds, taken \in SUBSET Kinds :
            /\ said' = [k \in Kinds |-> IF k \in taken THEN last'[k] ELSE said[k]]
            /\ lost' = (lost \ taken) \cup missed
<1> DEFINE now     == [k \in Kinds |-> IF k \in asked THEN answers[k] ELSE last[k]]
           changed == {k \in Kinds : now[k] # last[k]}
           same    == {k \in asked \ changed : now[k] # "connected"}
<1>1. PICK missed \in SUBSET changed, again \in SUBSET (same \cap lost) :
         /\ last' = now
         /\ said' = [k \in Kinds |-> IF k \in (changed \ missed) \cup again THEN now[k] ELSE said[k]]
         /\ lost' = (lost \ ((changed \ missed) \cup again)) \cup missed
  BY DEF Say
<1> DEFINE taken == (changed \ missed) \cup again
<1>2. /\ said' = [k \in Kinds |-> IF k \in taken THEN last'[k] ELSE said[k]]
      /\ lost' = (lost \ taken) \cup missed
  BY <1>1
<1>3. missed \in SUBSET Kinds /\ taken \in SUBSET Kinds
  BY DEF TypeOK
<1> HIDE DEF now, changed, same, taken
<1> QED BY <1>2, <1>3

LEMMA HistoryStep ==
  TypeOK /\ [Next]_vars =>
    /\ renewed' \in BOOLEAN /\ faults' \in 0 .. MaxFaults
    /\ stranded' \subseteq SignIns /\ strangers' \subseteq Kinds
    /\ said' \in [Kinds -> States \cup {"unknown"}] /\ lost' \subseteq Kinds
    /\ word' \in {"none", "ok", "invalid", "odd", "client"}
<1> SUFFICES ASSUME TypeOK, [Next]_vars
             PROVE  /\ renewed' \in BOOLEAN /\ faults' \in 0 .. MaxFaults
                    /\ stranded' \subseteq SignIns /\ strangers' \subseteq Kinds
                    /\ said' \in [Kinds -> States \cup {"unknown"}] /\ lost' \subseteq Kinds
                    /\ word' \in {"none", "ok", "invalid", "odd", "client"}
  OBVIOUS
<1>1. renewed' \in BOOLEAN
  BY Zenon DEF TypeOK, vars, process, Next, RoundStep, Start, Crash, Round, SsoRenews, RenewalLost,
     RenewFirst, Ask, RenewAgain, AskAgain, Report, Poll, Wake, Authorize, AuthorizeEnds, Turn,
     GrantDies, TokenAges
<1>2. faults' \in 0 .. MaxFaults
  <2>1. MaxFaults \in Nat /\ faults \in 0 .. MaxFaults
    BY CollectorAssumption DEF TypeOK
  <2>2. UNCHANGED faults \/ (faults < MaxFaults /\ faults' = faults + 1)
    BY Zenon DEF vars, Next, RoundStep, Start, Crash, Round, SsoRenews, RenewalLost, RenewFirst, Ask,
       RenewAgain, AskAgain, Report, Poll, Say, Wake, Authorize, AuthorizeEnds, Turn, GrantDies, TokenAges
  <2> QED BY <2>1, <2>2
<1>3. answer.what = "ok" => answer.to[1] \in SignIns
  <2>1. answer.what = "ok" => answer.to # NoGrant
    BY DEF NoGrant, TypeOK, GrantsOK
  <2> QED BY <2>1, GrantOf DEF TypeOK, GrantsOK
<1>4. op # NoGrant => op[1] \in SignIns
  BY GrantOf DEF TypeOK, GrantsOK
<1>5. stranded' \subseteq SignIns
  <2>1. CASE UNCHANGED stranded
    BY <2>1 DEF TypeOK
  <2>2. CASE ~ UNCHANGED stranded
    <3>1. Crash \/ RenewalLost \/ AuthorizeEnds
      BY <2>2 DEF vars, history, Next, RoundStep, Start, Round, SsoRenews, RenewFirst, Ask,
         RenewAgain, AskAgain, Report, Poll, Wake, Authorize, Turn, GrantDies, TokenAges
    <3> QED BY <1>3, <1>4, <2>2, <3>1 DEF Crash, RenewalLost, AuthorizeEnds, TypeOK
  <2> QED BY <2>1, <2>2
<1>6. strangers' \subseteq Kinds
  <2>1. CASE Poll
    <3>1. Polled \subseteq Kinds
      BY DEF Polled
    <3> QED BY <2>1, <3>1 DEF Poll, TypeOK
  <2>2. CASE ~Poll
    BY <2>2 DEF TypeOK, vars, history, Next, RoundStep, Start, Crash, Round, SsoRenews,
       RenewalLost, RenewFirst, Ask, RenewAgain, AskAgain, Report, Wake, Authorize, AuthorizeEnds,
       Turn, GrantDies, TokenAges
  <2> QED BY <2>1, <2>2
<1>7. said' \in [Kinds -> States \cup {"unknown"}] /\ lost' \subseteq Kinds
  <2>1. CASE Report \/ Poll
    <3>1. PICK asked, answers : Say(asked, answers)
      BY <2>1 DEF Report, Poll
    <3>2. PICK missed \in SUBSET Kinds, taken \in SUBSET Kinds :
             /\ said' = [k \in Kinds |-> IF k \in taken THEN last'[k] ELSE said[k]]
             /\ lost' = (lost \ taken) \cup missed
      BY <3>1, SayIs
    <3>3. last' \in [Kinds -> States \cup {"unknown"}]
      BY RoundTypes DEF RoundOK
    <3> QED BY <3>2, <3>3 DEF TypeOK
  <2>2. CASE ~ (Report \/ Poll)
    <3>1. UNCHANGED said /\ (UNCHANGED lost \/ lost' = {})
      BY <2>2 DEF vars, world, bus, Next, RoundStep, Start, Crash, Round, SsoRenews, RenewalLost,
         RenewFirst, Ask, RenewAgain, AskAgain, Wake, Authorize, AuthorizeEnds, Turn, GrantDies, TokenAges
    <3> QED BY <3>1 DEF TypeOK
  <2> QED BY <2>1, <2>2
<1>8. word' \in {"none", "ok", "invalid", "odd", "client"}
  <2>1. CASE RenewFirst \/ RenewAgain
    <3>1. answer.what # "none"
      BY <2>1 DEF RenewFirst, RenewAgain, Renewed
    <3>2. answer.what \in {"ok", "invalid", "odd", "client", "silent"}
      BY <2>1, <3>1 DEF RenewFirst, RenewAgain, TypeOK, GrantsOK
    <3> QED BY <2>1, <3>2 DEF RenewFirst, RenewAgain, Heard, TypeOK
  <2>2. CASE ~ (RenewFirst \/ RenewAgain)
    <3>1. UNCHANGED word \/ word' = "none"
      BY <2>2 DEF vars, history, Next, RoundStep, Start, Crash, Round, SsoRenews, RenewalLost, Ask,
         AskAgain, Report, Poll, Wake, Authorize, AuthorizeEnds, Turn, GrantDies, TokenAges
    <3> QED BY <3>1 DEF TypeOK
  <2> QED BY <2>1, <2>2
<1> QED BY <1>1, <1>2, <1>5, <1>6, <1>7, <1>8

\* Every reachable state of the rounds, the grant file and the SSO is well typed.
THEOREM TypeCorrect == Spec => []TypeOK
<1>1. TypeOK /\ [Next]_vars => TypeOK'
  BY WorldStep, GrantsStep, RoundTypes, HistoryStep DEF TypeOK
<1> QED BY <1>1, TypeInit, PTL DEF Spec

-----------------------------------------------------------------------------
(* The rotation keeps the sign-in.                                           *)

\* A renewal's answer is of the grant in memory, and is in flight only while
\* the round awaits it; one that carries a grant carries the SSO's latest.
InFlight ==
  /\ answer.what # "none" => at \in {"renewing", "again"}
  /\ answer.what \in {"sent", "invalid"} => answer.to = mem
  /\ answer.what = "ok" => answer.to[2] = issued[answer.to[1]].n

\* A grant somebody holds is one the SSO issued, and no later than its latest.
Held(g) == g # NoGrant => g[1] \in 1 .. signIns /\ g[2] <= issued[g[1]].n

\* The operator's run holds the first grant of a sign-in, and a sign-in that is
\* yet to come has none.
AllHeld ==
  /\ Held(disk) /\ Held(mem) /\ Held(answer.to) /\ Held(op)
  /\ op # NoGrant => op[2] = 1
  /\ \A f \in SignIns : f > signIns => issued[f].n = 0

KeptInv == InFlight /\ AllHeld /\ GrantKept

LEMMA KeptInit == Init => KeptInv
BY DEF Init, KeptInv, InFlight, AllHeld, Held, GrantKept, NoAnswer, NoGrant

\* A grant that is held stays one of the SSO's when a grant is rotated.
LEMMA HeldThroughRotation ==
  ASSUME WorldOK, NEW g \in Grants, Held(g), NEW f \in SignIns,
         issued' = [issued EXCEPT ![f].n = @ + 1], UNCHANGED signIns
  PROVE  /\ (g # NoGrant => g[1] \in 1 .. signIns' /\ g[2] <= issued'[g[1]].n)
         /\ (g # NoGrant => ~ (g[1] = f /\ g[2] = issued'[f].n))
<1> SUFFICES ASSUME g # NoGrant
             PROVE  g[1] \in 1 .. signIns' /\ g[2] <= issued'[g[1]].n /\ ~ (g[1] = f /\ g[2] = issued'[f].n)
  OBVIOUS
<1>1. g[1] \in SignIns /\ g[2] \in Nat /\ g[1] \in 1 .. signIns /\ g[2] <= issued[g[1]].n
  <2>1. g[1] \in SignIns /\ g[2] \in 1 .. MaxGrants
    BY GrantOf
  <2>2. g[1] \in 1 .. signIns /\ g[2] <= issued[g[1]].n
    BY DEF Held
  <2> QED BY <2>1, <2>2, CollectorAssumption
<1>2. \A h \in SignIns : issued[h].n \in Nat
  BY CollectorAssumption DEF WorldOK
<1>3. /\ issued'[f].n = issued[f].n + 1
      /\ \A h \in SignIns : h # f => issued'[h].n = issued[h].n
  BY DEF WorldOK
<1> QED BY <1>1, <1>2, <1>3

LEMMA KeptStep == TypeOK /\ KeptInv /\ [Next]_vars => KeptInv'
<1> SUFFICES ASSUME TypeOK, KeptInv, [Next]_vars PROVE KeptInv'
  OBVIOUS
<1> USE DEF KeptInv
<1>0. /\ WorldOK /\ disk \in Grants /\ op \in Grants /\ mem \in Grants /\ answer.to \in Grants
      /\ Held(disk) /\ Held(mem) /\ Held(answer.to) /\ Held(op)
      /\ op # NoGrant => op[2] = 1
      /\ \A f \in SignIns : f > signIns => issued[f].n = 0
      /\ answer.what = "ok" => answer.to[2] > 1 /\ answer.to # NoGrant
      /\ Held(NoGrant)
  BY DEF TypeOK, GrantsOK, AllHeld, Held, NoGrant
<1>1. ASSUME UNCHANGED <<issued, signIns, disk, op, mem, answer, stranded>>,
             at' = at \/ answer.what = "none"
      PROVE  KeptInv'
  BY <1>1 DEF InFlight, AllHeld, Held, GrantKept
<1>2. ASSUME at \notin {"renewing", "again"}
      PROVE  answer.what = "none"
  BY <1>2 DEF InFlight
<1>3. CASE UNCHANGED vars \/ Turn \/ TokenAges
  BY <1>1, <1>3 DEF vars, world, process, history, Turn, TokenAges
<1>4. CASE AskAgain \/ Report \/ Poll \/ Wake
  BY <1>1, <1>2, <1>4 DEF AskAgain, Report, Poll, Wake, world, history
<1>5. CASE Start
  BY <1>0, <1>2, <1>5 DEF Start, InFlight, AllHeld, Held, GrantKept, world, history
<1>6. CASE Crash
  BY <1>0, <1>6 DEF Crash, InFlight, AllHeld, Held, GrantKept, world, NoAnswer
<1>7. CASE RenewalLost
  <2>1. InFlight' /\ AllHeld'
    BY <1>0, <1>7 DEF RenewalLost, world, InFlight, AllHeld, Held
  <2>2. GrantKept'
    BY <1>7 DEF RenewalLost, world, GrantKept
  <2> QED BY <2>1, <2>2
<1>8. CASE Round \/ Ask
  <2>1. /\ UNCHANGED <<issued, signIns, disk, op, mem, stranded>> /\ answer.what = "none"
        /\ answer' = answer \/ (answer' = [to |-> mem, what |-> "sent"] /\ at' \in {"renewing", "again"})
    BY <1>2, <1>8 DEF Round, Ask, world, history
  <2> QED BY <1>0, <2>1 DEF InFlight, AllHeld, Held, GrantKept
<1>9. CASE SsoRenews
  <2>1. UNCHANGED <<signIns, disk, op, mem, at, stranded>> /\ answer.what = "sent"
    BY <1>9 DEF SsoRenews, history
  <2>2. CASE UNCHANGED issued
    <3>1. answer'.to = answer.to /\ answer'.what \in {"invalid", "odd", "client", "silent"}
      <4>1. ASSUME Honoured(answer.to), issued' = [issued EXCEPT ![answer.to[1]].n = @ + 1]
            PROVE  FALSE
        <5>1. answer.to[1] \in SignIns
          BY <1>0, <4>1, GrantOf DEF Honoured
        <5>2. issued'[answer.to[1]].n = issued[answer.to[1]].n + 1 /\ issued[answer.to[1]].n \in Nat
          BY <1>0, <4>1, <5>1, CollectorAssumption DEF WorldOK
        <5> QED BY <2>2, <5>2
      <4> QED BY <1>0, <1>9, <4>1 DEF SsoRenews, TypeOK, GrantsOK
    <3> QED BY <1>0, <2>1, <2>2, <3>1 DEF InFlight, AllHeld, Held, GrantKept
  <2>3. CASE ~ UNCHANGED issued
    <3> DEFINE f == answer.to[1]
    <3>1. /\ Honoured(answer.to)
          /\ issued' = [issued EXCEPT ![f].n = @ + 1]
          /\ answer' = [to |-> <<f, answer.to[2] + 1>>, what |-> "ok"]
      BY <1>9, <2>3 DEF SsoRenews
    <3>2. f \in SignIns /\ answer.to[2] = issued[f].n /\ f \in 1 .. signIns
      BY <1>0, <3>1, GrantOf DEF Honoured, Held
    <3>3. /\ issued'[f].n = issued[f].n + 1
          /\ \A h \in SignIns : h # f => issued'[h].n = issued[h].n
      BY <1>0, <3>1, <3>2 DEF WorldOK
    <3>4. InFlight'
      BY <2>1, <3>1, <3>2, <3>3 DEF InFlight
    <3>5. Held(disk)' /\ Held(mem)' /\ Held(op)'
      BY <1>0, <2>1, <3>1, <3>2, HeldThroughRotation DEF Held
    <3>6. Held(answer.to)'
      <4>1. answer'.to[1] = f /\ answer'.to[2] = answer.to[2] + 1
        BY <3>1
      <4>2. issued'[f].n = answer.to[2] + 1 /\ issued[f].n \in Nat
        BY <1>0, <3>2, <3>3, CollectorAssumption DEF WorldOK
      <4> QED BY <2>1, <3>2, <4>1, <4>2 DEF Held
    <3>7. AllHeld'
      <4>1. \A h \in SignIns : h > signIns' => issued'[h].n = 0
        BY <1>0, <2>1, <3>2, <3>3, CollectorAssumption DEF WorldOK
      <4> QED BY <1>0, <2>1, <3>5, <3>6, <4>1 DEF AllHeld
    <3>8. GrantKept'
      <4> SUFFICES ASSUME disk # NoGrant, disk[1] \notin stranded
                   PROVE  \/ disk[2] = issued'[disk[1]].n
                          \/ answer'.what = "ok" /\ answer'.to = <<disk[1], issued'[disk[1]].n>>
        BY <2>1 DEF GrantKept
      <4>1. disk[2] = issued[disk[1]].n /\ disk[1] \in SignIns
        BY <1>0, <2>1, GrantOf DEF GrantKept
      <4> QED BY <3>1, <3>2, <3>3, <4>1
    <3> QED BY <3>4, <3>7, <3>8
  <2> QED BY <2>2, <2>3
<1>10. CASE RenewFirst \/ RenewAgain
  <2>1. /\ answer' = NoAnswer /\ UNCHANGED <<issued, signIns, op, stranded>>
        /\ \/ answer.what = "ok" /\ disk' = answer.to /\ mem' = answer.to
           \/ answer.what # "ok" /\ UNCHANGED <<disk, mem>>
    BY <1>10, RenewalWrites DEF world
  <2>2. InFlight' /\ AllHeld'
    BY <1>0, <2>1 DEF InFlight, AllHeld, Held, NoAnswer
  <2>3. GrantKept'
    <3>1. CASE answer.what = "ok"
      BY <2>1, <3>1 DEF GrantKept, InFlight
    <3>2. CASE answer.what # "ok"
      BY <2>1, <3>2 DEF GrantKept
    <3> QED BY <3>1, <3>2
  <2> QED BY <2>2, <2>3
<1>11. CASE Authorize
  <2> DEFINE f == signIns + 1
  <2>1. PICK mine \in BOOLEAN : issued' = [issued EXCEPT ![f] = [n |-> 1, good |-> TRUE, mine |-> mine]]
    BY <1>11 DEF Authorize
  <2>2. /\ signIns' = f /\ op' = <<f, 1>> /\ disk' = <<f, 1>> /\ signIns \in Nat /\ f \in SignIns
        /\ UNCHANGED <<mem, answer, at, stranded>>
    BY <1>0, <1>11, CollectorAssumption DEF Authorize, process, history, WorldOK, SignIns
  <2>3. issued'[f].n = 1 /\ \A h \in SignIns : h # f => issued'[h].n = issued[h].n
    BY <1>0, <2>1, <2>2 DEF WorldOK
  <2>4. \A g \in Grants : Held(g) /\ g # NoGrant =>
           /\ g[1] \in 1 .. signIns' /\ g[1] # f /\ issued'[g[1]].n = issued[g[1]].n
    <3> SUFFICES ASSUME NEW g \in Grants, Held(g), g # NoGrant
                 PROVE  g[1] \in 1 .. signIns' /\ g[1] # f /\ issued'[g[1]].n = issued[g[1]].n
      OBVIOUS
    <3>1. g[1] \in SignIns /\ g[1] \in 1 .. signIns
      BY <1>0, GrantOf DEF Held
    <3>2. g[1] \in 1 .. signIns' /\ g[1] # f
      BY <2>2, <3>1
    <3> QED BY <2>3, <3>1, <3>2
  <2>5. InFlight'
    BY <1>0, <2>2, <2>4 DEF InFlight
  <2>6. Held(disk)' /\ Held(op)' /\ Held(mem)' /\ Held(answer.to)'
    BY <1>0, <2>2, <2>3, <2>4 DEF Held, NoGrant
  <2>7. \A h \in SignIns : h > signIns' => issued'[h].n = 0
    BY <1>0, <2>2, <2>3 DEF SignIns
  <2>8. AllHeld'
    BY <2>2, <2>6, <2>7 DEF AllHeld
  <2>9. GrantKept'
    BY <2>2, <2>3 DEF GrantKept
  <2> QED BY <2>5, <2>8, <2>9
<1>12. CASE AuthorizeEnds
  <2>1. /\ op # NoGrant /\ op' = NoGrant /\ UNCHANGED <<signIns, mem, answer, at>>
    BY <1>12 DEF AuthorizeEnds, process
  <2>2. op[1] \in SignIns /\ op[2] = 1
    BY <1>0, <2>1, GrantOf
  <2>3. CASE UNCHANGED issued /\ UNCHANGED disk
    <3>1. UNCHANGED stranded \/ stranded' = stranded \cup {op[1]}
      BY <1>12 DEF AuthorizeEnds
    <3> QED BY <1>0, <2>1, <2>3, <3>1 DEF InFlight, AllHeld, Held, GrantKept, NoGrant
  <2>4. CASE ~ (UNCHANGED issued /\ UNCHANGED disk)
    <3> DEFINE f == op[1]
    <3>1. /\ Honoured(op) /\ issued' = [issued EXCEPT ![f].n = @ + 1]
          /\ \/ UNCHANGED stranded /\ (disk' = NoGrant \/ disk' = <<f, op[2] + 1>>)
             \/ stranded' = stranded \cup {f} /\ UNCHANGED disk
      BY <1>12, <2>4 DEF AuthorizeEnds
    <3>2. issued[f].n = 1 /\ f \in 1 .. signIns
      BY <1>0, <2>2, <3>1 DEF Honoured, Held
    <3>3. issued'[f].n = 2 /\ \A h \in SignIns : h # f => issued'[h].n = issued[h].n
      BY <1>0, <2>2, <3>1, <3>2 DEF WorldOK
    <3>4. answer.what = "ok" => answer.to[1] # f /\ answer.to[1] \in SignIns
      <4>1. answer.what = "ok" => answer.to[2] = issued[answer.to[1]].n /\ answer.to[2] # 1
        BY <1>0 DEF InFlight
      <4>2. answer.what = "ok" => answer.to[1] \in SignIns
        BY <1>0, GrantOf
      <4> QED BY <3>2, <4>1, <4>2
    <3>5. InFlight'
      BY <2>1, <3>3, <3>4 DEF InFlight
    <3>6. Held(mem)' /\ Held(answer.to)'
      BY <1>0, <2>1, <2>2, <3>1, HeldThroughRotation DEF Held
    <3>7. Held(disk)'
      <4>1. CASE disk' = NoGrant
        BY <4>1 DEF Held
      <4>2. CASE disk' = <<f, op[2] + 1>>
        BY <2>1, <2>2, <3>2, <3>3, <4>2 DEF Held
      <4>3. CASE UNCHANGED disk
        BY <1>0, <2>1, <2>2, <3>1, <4>3, HeldThroughRotation DEF Held
      <4> QED BY <3>1, <4>1, <4>2, <4>3
    <3>8. AllHeld'
      <4>1. \A h \in SignIns : h > signIns' => issued'[h].n = 0
        BY <1>0, <2>1, <3>2, <3>3 DEF SignIns
      <4> QED BY <2>1, <3>6, <3>7, <4>1 DEF AllHeld, Held
    <3>9. GrantKept'
      <4>1. CASE disk' = NoGrant
        BY <4>1 DEF GrantKept
      <4>2. CASE disk' = <<f, op[2] + 1>>
        BY <2>2, <3>3, <4>2 DEF GrantKept
      <4>3. CASE UNCHANGED disk /\ stranded' = stranded \cup {f}
        <5> SUFFICES ASSUME disk # NoGrant, disk[1] \notin stranded, disk[1] # f
                     PROVE  \/ disk[2] = issued'[disk[1]].n
                            \/ answer.what = "ok" /\ answer.to = <<disk[1], issued'[disk[1]].n>>
          BY <2>1, <4>3 DEF GrantKept
        <5>1. issued'[disk[1]].n = issued[disk[1]].n
          BY <1>0, <3>3, GrantOf
        <5> QED BY <5>1 DEF GrantKept
      <4> QED BY <3>1, <4>1, <4>2, <4>3
    <3> QED BY <3>5, <3>8, <3>9
  <2> QED BY <2>3, <2>4
<1>13. CASE GrantDies
  <2>1. /\ UNCHANGED <<signIns, disk, op, mem, answer, at, stranded>>
        /\ \A h \in SignIns : issued'[h].n = issued[h].n
    BY <1>0, <1>13, CollectorAssumption DEF GrantDies, process, history, WorldOK, SignIns
  <2>2. \A g \in Grants : g # NoGrant => issued'[g[1]].n = issued[g[1]].n
    BY <1>0, <2>1, GrantOf
  <2>3. InFlight' /\ AllHeld'
    BY <1>0, <2>1, <2>2 DEF InFlight, AllHeld, Held
  <2>4. GrantKept'
    BY <1>0, <2>1, <2>2 DEF GrantKept
  <2> QED BY <2>3, <2>4
<1> QED BY <1>3, <1>4, <1>5, <1>6, <1>7, <1>8, <1>9, <1>10, <1>11, <1>12, <1>13 DEF Next, RoundStep

\* Through crashes, lost answers and an operator beside it, the rotation keeps
\* the sign-in the file holds: the file's grant is the SSO's latest, or the
\* answer that carries it is in flight (oidc.rs, Client::renew).
THEOREM RotationKeepsTheSignIn == Spec => []GrantKept
<1>1. TypeOK /\ KeptInv /\ [Next]_vars => KeptInv'
  BY KeptStep
<1>2. KeptInv => GrantKept
  BY DEF KeptInv
<1> QED BY <1>1, <1>2, KeptInit, TypeCorrect, PTL DEF Spec

-----------------------------------------------------------------------------
(* Reconnecting is asked for a grant that is gone.                           *)

\* The positions of a round that has said what it came to.
Told == {"renew", "renewing", "poll", "idle"}

\* What is said to be refused was refused: an observation about to be reported,
\* or a tracker of a round that has told, says so only of a grant the SSO no
\* longer honours, or answered of with a code the process does not know.
RefusedInv ==
  /\ answer.what = "invalid" => ~Honoured(mem)
  /\ at = "report" /\ obs.state = "reconnect_required" => ~Honoured(mem) \/ word = "odd"
  /\ \A k \in Kinds : last[k] = "reconnect_required" =>
        at # "off" /\ (at \in Told => ~Honoured(mem) \/ word = "odd")

LEMMA RefusedInit == Init => RefusedInv
BY DEF Init, RefusedInv, NoAnswer, Honoured

\* A grant the SSO does not honour it never honours again.
LEMMA HonouredNoMore ==
  ASSUME TypeOK, KeptInv, [Next]_vars, ~Honoured(mem), UNCHANGED mem
  PROVE  ~Honoured(mem)'
<1>0. /\ WorldOK /\ mem \in Grants /\ Held(mem) /\ op \in Grants /\ answer.to \in Grants
  BY DEF TypeOK, GrantsOK, KeptInv, AllHeld
<1>1. CASE mem = NoGrant
  BY <1>1 DEF Honoured
<1>2. CASE mem # NoGrant
  <2> DEFINE g == mem[1]
  <2>1. g \in SignIns /\ g \in 1 .. signIns /\ mem[2] <= issued[g].n
    BY <1>0, <1>2, GrantOf DEF Held
  <2>2. ASSUME issued'[g] = issued[g]
        PROVE  ~Honoured(mem)'
    BY <2>2 DEF Honoured
  <2>3. ASSUME NEW f \in SignIns, issued' = [issued EXCEPT ![f].n = @ + 1], UNCHANGED signIns
        PROVE  ~Honoured(mem)'
    <3>1. CASE f = g
      <4>1. mem[2] # issued'[g].n
        BY <1>0, <1>2, <2>1, <2>3, <3>1, HeldThroughRotation
      <4> QED BY <4>1 DEF Honoured
    <3>2. CASE f # g
      <4>1. issued'[g] = issued[g]
        BY <1>0, <2>1, <2>3, <3>2 DEF WorldOK
      <4> QED BY <2>2, <4>1
    <3> QED BY <3>1, <3>2
  <2>4. CASE UNCHANGED issued
    BY <2>2, <2>4
  <2>5. CASE SsoRenews /\ ~ UNCHANGED issued
    <3>1. /\ Honoured(answer.to) /\ issued' = [issued EXCEPT ![answer.to[1]].n = @ + 1]
          /\ UNCHANGED signIns
      BY <2>5 DEF SsoRenews
    <3>2. answer.to[1] \in SignIns
      BY <1>0, <3>1, GrantOf DEF Honoured
    <3> QED BY <2>3, <3>1, <3>2
  <2>6. CASE AuthorizeEnds /\ ~ UNCHANGED issued
    <3>1. /\ Honoured(op) /\ issued' = [issued EXCEPT ![op[1]].n = @ + 1] /\ UNCHANGED signIns
      BY <2>6 DEF AuthorizeEnds
    <3>2. op[1] \in SignIns
      BY <1>0, <3>1, GrantOf DEF Honoured
    <3> QED BY <2>3, <3>1, <3>2
  <2>7. CASE Authorize
    <3>1. PICK mine : issued' = [issued EXCEPT ![signIns + 1] = [n |-> 1, good |-> TRUE, mine |-> mine]]
      BY <2>7 DEF Authorize
    <3>2. g # signIns + 1
      BY <1>0, <2>1 DEF WorldOK
    <3>3. issued'[g] = issued[g]
      BY <1>0, <2>1, <3>1, <3>2 DEF WorldOK
    <3> QED BY <2>2, <3>3
  <2>8. CASE GrantDies
    <3>1. PICK f \in 1 .. signIns : issued' = [issued EXCEPT ![f].good = FALSE]
      BY <2>8 DEF GrantDies
    <3>2. CASE f = g
      <4>1. issued'[g].good = FALSE
        BY <1>0, <2>1, <3>1, <3>2 DEF WorldOK
      <4> QED BY <4>1 DEF Honoured
    <3>3. CASE f # g
      <4>1. issued'[g] = issued[g]
        BY <1>0, <2>1, <3>1, <3>3 DEF WorldOK
      <4> QED BY <2>2, <4>1
    <3> QED BY <3>2, <3>3
  <2>9. UNCHANGED issued \/ SsoRenews \/ AuthorizeEnds \/ Authorize \/ GrantDies
    BY DEF vars, world, Next, RoundStep, Start, Crash, Round, RenewalLost, RenewFirst, Ask,
       RenewAgain, AskAgain, Report, Poll, Wake, Turn, TokenAges
  <2> QED BY <2>4, <2>5, <2>6, <2>7, <2>8, <2>9
<1> QED BY <1>1, <1>2

LEMMA RefusedStep == TypeOK /\ KeptInv /\ RefusedInv /\ [Next]_vars => RefusedInv'
<1> SUFFICES ASSUME TypeOK, KeptInv, RefusedInv, [Next]_vars PROVE RefusedInv'
  OBVIOUS
<1>0. ASSUME UNCHANGED mem
      PROVE  ~Honoured(mem) => ~Honoured(mem)'
  BY <1>0, HonouredNoMore
<1>1. ASSUME UNCHANGED <<mem, at, obs, last, word>>, answer' = answer \/ answer'.what # "invalid"
      PROVE  RefusedInv'
  BY <1>0, <1>1 DEF RefusedInv
<1>2. CASE UNCHANGED vars \/ Turn \/ TokenAges \/ GrantDies \/ Authorize \/ AuthorizeEnds
  BY <1>1, <1>2 DEF vars, process, history, Turn, TokenAges, GrantDies, Authorize, AuthorizeEnds
<1>3. CASE RenewalLost
  BY <1>1, <1>3 DEF RenewalLost, TypeOK, GrantsOK
<1>4. CASE Start
  BY <1>4 DEF Start, RefusedInv, KeptInv, InFlight
<1>5. CASE Crash
  BY <1>5 DEF Crash, RefusedInv, NoAnswer
<1>6. CASE SsoRenews
  <2>1. UNCHANGED <<mem, at, obs, last, word>> /\ answer.what = "sent" /\ answer.to = mem
    BY <1>6 DEF SsoRenews, history, KeptInv, InFlight
  <2>2. answer'.what = "invalid" => ~Honoured(mem)
    BY <1>6, <2>1 DEF SsoRenews, TypeOK, GrantsOK
  <2> QED BY <1>0, <2>1, <2>2 DEF RefusedInv
<1>7. CASE Round
  <2>1. /\ UNCHANGED <<mem, last, word>> /\ answer.what = "none" /\ answer'.what \in {"none", "sent"}
        /\ at = "renew"
    BY <1>7 DEF Round, history, KeptInv, InFlight
  <2>2. at' # "off" /\ (at' = "report" => mem = NoGrant)
    BY <1>7 DEF Round
  <2>3. mem = NoGrant => ~Honoured(mem)
    BY DEF Honoured
  <2> QED BY <1>0, <2>1, <2>2, <2>3 DEF RefusedInv, Told
<1>8. CASE Ask \/ AskAgain
  <2>1. UNCHANGED mem /\ answer'.what # "invalid" /\ at' \in {"again", "report"}
    BY <1>8 DEF Ask, AskAgain, KeptInv, InFlight
  <2>2. at' = "report" => obs'.state # "reconnect_required"
    BY <1>8, ObservationType DEF Ask, AskAgain
  <2> QED BY <2>1, <2>2 DEF RefusedInv, Told
<1>9. CASE RenewFirst \/ RenewAgain
  <2>1. answer'.what = "none" /\ at' \in {"ask", "askAgain", "report"}
    BY <1>9 DEF RenewFirst, RenewAgain, Renewed, NoAnswer
  <2>2. at' = "report" /\ obs'.state = "reconnect_required" =>
          UNCHANGED mem /\ (answer.what = "invalid" \/ word' = "odd")
    <3>1. CASE RenewFirst
      BY <3>1 DEF RenewFirst, Renewed, Refused, Heard
    <3>2. CASE RenewAgain
      BY <3>2, ObservationType DEF RenewAgain, Renewed, Refused, Heard
    <3> QED BY <1>9, <3>1, <3>2
  <2> QED BY <1>0, <2>1, <2>2 DEF RefusedInv, Told
<1>10. CASE Report
  <2>1. /\ UNCHANGED <<mem, answer, obs, word>> /\ at' = "poll" /\ at = "report"
        /\ answer.what = "none"
    BY <1>10 DEF Report, history, KeptInv, InFlight
  <2>2. \A k \in Kinds : last'[k] = "reconnect_required" => obs.state = "reconnect_required"
    BY <1>10 DEF Report, Say, PerConnection
  <2> QED BY <1>0, <2>1, <2>2 DEF RefusedInv
<1>11. CASE Poll
  <2>1. /\ UNCHANGED <<mem, answer, word>> /\ at = "poll" /\ at' \in {"idle", "renew"}
        /\ answer.what = "none"
    BY <1>11 DEF Poll, KeptInv, InFlight
  <2>2. \A k \in Kinds : last'[k] = "reconnect_required" => last[k] = "reconnect_required"
    BY <1>11 DEF Poll, Say
  <2> QED BY <1>0, <2>1, <2>2 DEF RefusedInv, Told
<1>12. CASE Wake
  BY <1>0, <1>12 DEF Wake, history, RefusedInv, Told
<1> QED BY <1>2, <1>3, <1>4, <1>5, <1>6, <1>7, <1>8, <1>9, <1>10, <1>11, <1>12 DEF Next, RoundStep

\* The owner is asked to sign in again only for a grant the SSO refuses or
\* answered of with a code the process does not know: never for an SSO that is
\* silent or refuses the client, and no longer than till a round hears the SSO
\* say otherwise (main.rs, run; oidc.rs, Client::renew).
THEOREM ReconnectsOnlyTheGone == Spec => []ReconnectIsTheGrants
<1>1. Init => KeptInv /\ RefusedInv
  BY KeptInit, RefusedInit
<1>2. TypeOK /\ KeptInv /\ RefusedInv /\ [Next]_vars => KeptInv' /\ RefusedInv'
  BY KeptStep, RefusedStep
<1>3. RefusedInv => ReconnectIsTheGrants
  BY DEF RefusedInv, ReconnectIsTheGrants, Told
<1> QED BY <1>1, <1>2, <1>3, TypeCorrect, PTL DEF Spec
-----------------------------------------------------------------------------
(* The refinement of Rotation.  What authorize rotates is a first grant, and   *)
(* what a renewal's answer carries never is: no rotation overtakes the other.  *)

\* The next grant of a sign-in is issued, and no other.
LEMMA IssueIs ==
  ASSUME NEW f \in SignIns, <<f, issued[f].n>> \notin Coming,
         issued'[f].n = issued[f].n + 1,
         \A h \in SignIns \ {f} : issued'[h].n = issued[h].n
  PROVE  Credentials!Issue(f)
BY DEF Credentials!Issue, Credentials!Newest

\* A step that moves no grant.
LEMMA StandsStill ==
  ASSUME UNCHANGED <<disk, stranded>>, Coming' = Coming,
         \A f \in SignIns : issued'[f].n = issued[f].n
  PROVE  UNCHANGED Credentials!vars
BY DEF Credentials!vars

\* The SSO's rotation is a Send: a request whose answer is to come brings nothing yet.
LEMMA RenewalSends ==
  ASSUME TypeOK, SsoRenews
  PROVE  (\E f \in SignIns : Credentials!Send(f)) \/ UNCHANGED Credentials!vars
<1>0. /\ answer.what = "sent" /\ Coming = {} /\ UNCHANGED <<disk, stranded>>
      /\ WorldOK /\ answer.to \in Grants
  BY DEF SsoRenews, Coming, history, TypeOK, GrantsOK
<1>1. CASE UNCHANGED issued /\ answer'.what # "ok"
  BY <1>0, <1>1, StandsStill DEF Coming
<1>2. CASE /\ Honoured(answer.to)
           /\ issued' = [issued EXCEPT ![answer.to[1]].n = @ + 1]
           /\ answer' = [to |-> <<answer.to[1], answer.to[2] + 1>>, what |-> "ok"]
  <2>1. PICK f \in SignIns : f = answer.to[1] /\ issued[f].n = answer.to[2]
    BY <1>0, <1>2, GrantOf DEF Honoured
  <2>2. /\ issued'[f].n = issued[f].n + 1
        /\ \A h \in SignIns \ {f} : issued'[h].n = issued[h].n
    BY <1>0, <1>2, <2>1 DEF WorldOK
  <2>3. Credentials!Issue(f)
    BY <1>0, <2>2, IssueIs
  <2>4. Coming' = Coming \cup {<<f, issued[f].n + 1>>}
    BY <1>0, <1>2, <2>1 DEF Coming
  <2>5. Credentials!Following(f) = <<f, issued[f].n + 1>>
    BY DEF Credentials!Following
  <2> QED BY <1>0, <2>3, <2>4, <2>5 DEF Credentials!Send
<1>3. answer'.what # "ok" => UNCHANGED issued
  BY DEF SsoRenews
<1>4. \/ UNCHANGED issued /\ answer'.what # "ok"
      \/ /\ Honoured(answer.to)
         /\ issued' = [issued EXCEPT ![answer.to[1]].n = @ + 1]
         /\ answer' = [to |-> <<answer.to[1], answer.to[2] + 1>>, what |-> "ok"]
  <2>1. \A w \in {"invalid", "odd", "client", "silent"} :
           answer' = [answer EXCEPT !.what = w] => answer'.what = w
    BY DEF TypeOK, GrantsOK
  <2> QED BY <2>1 DEF SsoRenews
<1> QED BY <1>1, <1>2, <1>4

\* authorize has its grant at once; what it does not keep it owns up to.
LEMMA OperatorHands ==
  ASSUME TypeOK, KeptInv, Authorize \/ AuthorizeEnds
  PROVE  [Credentials!Next]_(Credentials!vars)
<1>0. /\ WorldOK /\ op \in Grants /\ answer.to \in Grants /\ Held(op)
      /\ op # NoGrant => op[2] = 1
      /\ \A f \in SignIns : f > signIns => issued[f].n = 0
      /\ UNCHANGED answer /\ Coming' = Coming
  BY DEF TypeOK, GrantsOK, KeptInv, AllHeld, Authorize, AuthorizeEnds, process, Coming
<1>1. ASSUME NEW f \in SignIns, issued[f].n \in {0, 1}
      PROVE  <<f, issued[f].n>> \notin Coming
  BY <1>1 DEF Coming, TypeOK, GrantsOK
<1>2. ASSUME NEW f \in SignIns, Credentials!Issue(f), UNCHANGED stranded,
             disk' \in {<<f, issued[f].n + 1>>, NoGrant}
      PROVE  Credentials!Next
  BY <1>0, <1>2 DEF Credentials!Next, Credentials!Hand, Credentials!Following, Credentials!None, NoGrant
<1>3. CASE Authorize
  <2>1. PICK f \in SignIns : f = signIns + 1
    BY <1>0, <1>3, CollectorAssumption DEF Authorize, WorldOK, SignIns
  <2>2. PICK mine \in BOOLEAN : issued' = [issued EXCEPT ![f] = [n |-> 1, good |-> TRUE, mine |-> mine]]
    BY <1>3, <2>1 DEF Authorize
  <2>3. issued[f].n = 0
    BY <1>0, <2>1 DEF WorldOK
  <2>4. issued'[f].n = 1 /\ \A h \in SignIns \ {f} : issued'[h].n = issued[h].n
    BY <1>0, <2>2 DEF WorldOK
  <2>5. Credentials!Issue(f)
    <3>1. <<f, issued[f].n>> \notin Coming
      BY <1>1, <2>3
    <3>2. issued'[f].n = issued[f].n + 1
      BY <2>3, <2>4
    <3> QED BY <2>4, <3>1, <3>2, IssueIs
  <2>6. disk' = <<f, issued[f].n + 1>> /\ UNCHANGED stranded
    BY <1>3, <2>1, <2>3 DEF Authorize, history
  <2> QED BY <1>2, <2>5, <2>6
<1>4. CASE AuthorizeEnds
  <2>1. op # NoGrant /\ op[1] \in SignIns
    BY <1>0, <1>4, GrantOf DEF AuthorizeEnds
  <2>2. PICK f \in SignIns : f = op[1]
    BY <2>1
  <2>3. CASE UNCHANGED <<issued, disk, stranded>>
    BY <1>0, <2>3, StandsStill
  <2>4. CASE /\ Honoured(op) /\ issued' = [issued EXCEPT ![f].n = @ + 1]
             /\ \/ UNCHANGED stranded /\ disk' \in {<<f, op[2] + 1>>, NoGrant}
                \/ stranded' = stranded \cup {f} /\ UNCHANGED disk
    <3>1. issued[f].n = 1 /\ op[2] = 1
      BY <1>0, <2>1, <2>2, <2>4 DEF Honoured
    <3>2. /\ issued'[f].n = issued[f].n + 1
          /\ \A h \in SignIns \ {f} : issued'[h].n = issued[h].n
      BY <1>0, <2>4 DEF WorldOK
    <3>3. Credentials!Issue(f)
      BY <1>1, <3>1, <3>2, IssueIs
    <3>4. CASE UNCHANGED stranded /\ disk' \in {<<f, op[2] + 1>>, NoGrant}
      BY <1>2, <3>1, <3>3, <3>4
    <3>5. CASE stranded' = stranded \cup {f} /\ UNCHANGED disk
      BY <1>0, <3>3, <3>5 DEF Credentials!Next, Credentials!Waste
    <3> QED BY <2>4, <3>4, <3>5
  <2>5. \/ UNCHANGED <<issued, disk, stranded>>
        \/ /\ Honoured(op) /\ issued' = [issued EXCEPT ![f].n = @ + 1]
           /\ \/ UNCHANGED stranded /\ disk' \in {<<f, op[2] + 1>>, NoGrant}
              \/ stranded' = stranded \cup {f} /\ UNCHANGED disk
    BY <1>4, <2>2 DEF AuthorizeEnds
  <2> QED BY <2>3, <2>4, <2>5
<1> QED BY <1>3, <1>4

\* What a renewal brought is kept, or lost with the process or on its way.
LEMMA AnswerMoves ==
  ASSUME TypeOK, Crash \/ RenewalLost \/ RenewFirst \/ RenewAgain
  PROVE  [Credentials!Next]_(Credentials!vars)
<1>0. UNCHANGED issued /\ Coming' = {}
  <2>1. CASE Crash \/ RenewFirst \/ RenewAgain
    BY <2>1 DEF Crash, RenewFirst, RenewAgain, NoAnswer, Coming, world
  <2>2. CASE RenewalLost
    <3>1. answer'.what = "silent"
      BY <2>2 DEF RenewalLost, TypeOK, GrantsOK
    <3> QED BY <2>2, <3>1 DEF RenewalLost, Coming, world
  <2> QED BY <2>1, <2>2
<1>1. CASE Coming = {} /\ UNCHANGED <<disk, stranded>>
  BY <1>0, <1>1, StandsStill
<1>2. CASE answer.what = "ok" /\ UNCHANGED disk /\ stranded' = stranded \cup {answer.to[1]}
  <2>1. /\ Coming' = Coming \ {answer.to} /\ {answer.to} \subseteq Coming
        /\ {c[1] : c \in {answer.to}} = {answer.to[1]}
    BY <1>0, <1>2 DEF Coming
  <2> QED BY <1>0, <1>2, <2>1 DEF Credentials!Next, Credentials!Lose
<1>3. CASE answer.what = "ok" /\ disk' = answer.to /\ UNCHANGED stranded
  <2>1. Coming' = Coming \ {answer.to} /\ answer.to \in Coming
    BY <1>0, <1>3 DEF Coming
  <2> QED BY <1>0, <1>3, <2>1 DEF Credentials!Next, Credentials!Arrive
<1>4. CASE Crash \/ RenewalLost
  BY <1>1, <1>2, <1>4 DEF Crash, RenewalLost, Coming
<1>5. CASE RenewFirst \/ RenewAgain
  BY <1>1, <1>3, <1>5, RenewalWrites DEF Coming
<1> QED BY <1>4, <1>5

\* Every step of the collector, the SSO and the operator is a step of Rotation or
\* moves no grant.
LEMMA CollectorRotates ==
  ASSUME TypeOK, KeptInv, [Next]_vars
  PROVE  [Credentials!Next]_(Credentials!vars)
<1>1. CASE SsoRenews
  BY <1>1, RenewalSends DEF Credentials!Next
<1>2. CASE Authorize \/ AuthorizeEnds
  BY <1>2, OperatorHands
<1>3. CASE Crash \/ RenewalLost \/ RenewFirst \/ RenewAgain
  BY <1>3, AnswerMoves
<1>4. ASSUME UNCHANGED <<issued, disk, stranded>>, UNCHANGED answer
      PROVE  UNCHANGED Credentials!vars
  BY <1>4, StandsStill DEF Coming
<1>5. CASE UNCHANGED vars \/ Start \/ AskAgain \/ Report \/ Poll \/ Wake \/ Turn \/ TokenAges
  BY <1>4, <1>5 DEF vars, world, process, history, Start, AskAgain, Report, Poll, Wake, Turn, TokenAges
<1>6. CASE Round \/ Ask
  <2>1. UNCHANGED <<issued, disk, stranded>> /\ answer.what # "ok"
    BY <1>6 DEF Round, Ask, world, history, KeptInv, InFlight
  <2>2. UNCHANGED answer \/ answer'.what = "sent"
    BY <1>6 DEF Round, Ask
  <2> QED BY <1>4, <2>1, <2>2, StandsStill DEF Coming
<1>7. CASE GrantDies
  <2>1. UNCHANGED <<disk, stranded, answer>> /\ \A h \in SignIns : issued'[h].n = issued[h].n
    BY <1>7, CollectorAssumption DEF GrantDies, process, history, TypeOK, WorldOK, SignIns
  <2> QED BY <2>1, StandsStill DEF Coming
<1> QED BY <1>1, <1>2, <1>3, <1>5, <1>6, <1>7 DEF Next, RoundStep

(* RotatesTheGrant: the SSO, the process and the operator beside it implement   *)
(* Rotation, as a browser's session does: the file changes for a grant that     *)
(* arrives or that authorize brought or removes, none is rotated away while it  *)
(* is on its way, and one that does not arrive is owned up to.                  *)
THEOREM CollectorImplementsRotation == Spec => RotatesTheGrant
<1>1. TypeOK /\ KeptInv /\ [Next]_vars => KeptInv'
  BY KeptStep
<1>2. TypeOK /\ KeptInv /\ [Next]_vars => [Credentials!Next]_(Credentials!vars)
  BY CollectorRotates
<1>3. Init => Credentials!Init
  BY DEF Init, Credentials!Init, Credentials!None, NoGrant, NoAnswer, Coming
<1> QED BY <1>1, <1>2, <1>3, KeptInit, TypeCorrect, PTL DEF Spec, RotatesTheGrant, Credentials!Spec
=============================================================================
